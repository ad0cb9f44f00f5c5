--------------------------- MODULE AgreementProofs ---------------------------
(* What the two processes of module Talk agree on, proved for any number of
   connections, packets and rounds: the reports of a test that completes
   (ReportsAgree), the round after which a talk is over (VerdictsAgree), and, when
   nothing is late and nobody is killed, that neither fails (NeverFails) and that
   they measure in lockstep (LockstepRefined).

   All of it rests on what is on the wire.  A step of a worker is described by what it
   reads from its own channel and what it appends to that of its peer (Inherits,
   Speaks, Says); the workers of a connection, one talking and one hearing in a
   direction, are related by what has been sent and not yet read.

   Reports.  InvReports: a REPORT on its way carries the report of a hearer that is
   past its stream, and a talker that has taken its report has that of the hearer.
   InvDone: a process completes only when its workers have finished every talk.

   Verdicts.  InvBase: the workers of a side are in the same round.  InvVerdict:
   they go on to another round, or close the talk, as the weak flags of that round
   say.  InvPairs: the two workers of a connection, or when one has left the talk
   its team mates, are at most one message apart in COUNT, START and END, and have
   the same weak flag once END has been read.  The flags being equal on the two
   sides, so are the verdicts.

   Conversations.  InvConv: the two workers of a connection are in one of twelve
   scenes (Conf), each of which says where both are and what is on the wire between
   them, or one has ended the talk that the other is about to end (Ahead).
   InvIdle: the loops of packets start from 0.  InvCounts: one worker of a team
   sets and raises the count, and what is negotiated is the count of the team,
   within bounds.  NoFailure is part of the invariant: the message that a worker
   reads is the one of its scene, and a peer that has completed is not missed.

   Lockstep.  A worker that begins a round finds, by the scenes and the verdicts,
   everybody in its round or one further; one that closes the talk finds everybody
   in the same round or in the next talk.  InvNoMore: a receiver never streams more
   packets than its sender, so its next count is not lower than its last.       *)
EXTENDS TalkProofs

-----------------------------------------------------------------------------
(* The talk of a connection in a direction: who sends, who receives, and which
   of the talks of the connection it is.                                      *)
Talker(d, c) == <<SendingSide(d), c>>
Hearer(d, c) == <<Other(SendingSide(d)), c>>
TalkOf(d, c) == IF (c \in ReverseConns) = (d = 1) THEN 1 ELSE 2

Pair(y, z, d, p) ==
  /\ y \in Workers /\ z \in Workers /\ Peer(y) = z /\ Peer(z) = y /\ y # z
  /\ y[1] # z[1] /\ y[2] = z[2] /\ p \in {1, 2}
  /\ loc[y].phase \in {1, 2} /\ loc[z].phase \in {1, 2}
  /\ Sender(y) <=> loc[y].phase = p
  /\ Dir(y) = d <=> loc[y].phase = p
  /\ ~Sender(z) <=> loc[z].phase = p
  /\ Dir(z) = d <=> loc[z].phase = p

LEMMA PairIs ==
  ASSUME TypeInv, NEW c \in Conns, NEW d \in Dirs
  PROVE  Pair(Talker(d, c), Hearer(d, c), d, TalkOf(d, c))
<1> DEFINE y == Talker(d, c)
           z == Hearer(d, c)
           p == TalkOf(d, c)
<1>1. /\ d \in {0, 1} /\ SendingSide(d) \in Sides
      /\ SendingSide(d) = "connector" <=> d = 0
  BY DEF Dirs, SendingSide, Sides
<1>2. /\ Other("listener") = "connector" /\ Other("connector") = "listener"
  BY DEF Other, Sides
<1>3. /\ y \in Workers /\ z \in Workers /\ y[1] # z[1] /\ y[2] = c /\ z[2] = c
      /\ y[1] = SendingSide(d) /\ z[1] = Other(SendingSide(d))
      /\ Other(y[1]) = z[1] /\ Other(z[1]) = y[1] /\ p \in {1, 2}
  BY <1>1, <1>2 DEF Talker, Hearer, Workers, Sides, TalkOf
<1>4. Peer(y) = z /\ Peer(z) = y
  BY <1>3 DEF Peer, Talker, Hearer
<1>5. loc[y].phase \in {1, 2} /\ loc[z].phase \in {1, 2}
  BY <1>3, PhaseType
<1>6. p = 1 <=> (c \in ReverseConns <=> d = 1)
  BY DEF TalkOf
<1> HIDE DEF y, z, p
<1>7. (Dir(y) = d <=> loc[y].phase = p) /\ (Dir(z) = d <=> loc[z].phase = p)
  BY <1>1, <1>3, <1>5, <1>6, DirIs
<1>8. (y[1] = "connector" <=> d = 0) /\ (z[1] = "connector" <=> d # 0)
  <2>1. SendingSide(d) \in {"listener", "connector"}
    BY <1>1 DEF Sides
  <2> QED
    BY <1>1, <1>2, <1>3, <2>1
<1>9. Sender(y) <=> loc[y].phase = p
  <2>1. Sender(y) <=> (y[1] = "connector" <=> Dir(y) = 0)
    BY DirIs
  <2>2. Dir(y) \in {0, 1}
    BY DirIs
  <2> QED
    BY <1>1, <1>7, <1>8, <2>1, <2>2
<1>10. ~Sender(z) <=> loc[z].phase = p
  <2>1. Sender(z) <=> (z[1] = "connector" <=> Dir(z) = 0)
    BY DirIs
  <2>2. Dir(z) \in {0, 1} /\ Sender(z) \in BOOLEAN
    BY DirIs
  <2> QED
    BY <1>1, <1>7, <1>8, <2>1, <2>2
<1> QED
  BY <1>3, <1>4, <1>5, <1>7, <1>9, <1>10 DEF Pair, y, z, p

LEMMA PeerOfPeer ==
  ASSUME NEW w \in Workers
  PROVE  Peer(Peer(w)) = w
<1>1. w = <<w[1], w[2]>> /\ w[1] \in {"listener", "connector"}
  BY PeerType DEF Sides
<1>2. Other("listener") = "connector" /\ Other("connector") = "listener"
  BY DEF Other, Sides
<1>3. Other(Other(w[1])) = w[1]
  BY <1>1, <1>2
<1> QED
  BY <1>1, <1>3 DEF Peer

(* Worker w takes a step, on its own or because something happens to it. *)
Acts(w) == Step(w) \/ RecvTimeout(w) \/ SendReset(w)

(* What one worker does leaves the others as they are. *)
Alone(w) == \A u \in Workers \ {w} :
              pc'[u] = pc[u] /\ loc'[u] = loc[u] /\ report'[u] = report[u]

LEMMA StepAlone ==
  ASSUME TypeInv, NEW w \in Workers, Acts(w)
  PROVE  Alone(w)
<1>1. ASSUME Exit(w)
      PROVE  Alone(w)
  BY <1>1 DEF Alone, Exit
<1>2. ASSUME EndTalk(w), UNCHANGED report
      PROVE  Alone(w)
  BY <1>2 DEF EndTalk, Goto, Alone, TypeInv, CoreType
<1>3. CASE \/ TalkInit(w) \/ SendPing(w) \/ RecvPong(w) \/ Handshake(w) \/ SetCount(w)
           \/ SendStart(w) \/ RecvStart(w) \/ Reset(w) \/ Mark(w) \/ Return(w)
           \/ Decide(w) \/ Recount(w) \/ SendReport(w)
  <2>1. CASE Exit(w)
    BY <1>1, <2>1
  <2>2. CASE ~Exit(w)
    <3>1. (\E l : Goto(w, l)) /\ UNCHANGED report
      BY <1>3, <2>2 DEF TalkInit, SendPing, RecvPong, Handshake, SetCount, SendStart, RecvStart,
         Reset, Mark, Return, Decide, Recount, SendReport, FailReceived, Fail
    <3>2. \A u \in Workers \ {w} : loc'[u] = loc[u]
      BY <1>3, <2>2 DEF TalkInit, SendPing, RecvPong, Handshake, SetCount, SendStart, RecvStart,
         Reset, Mark, Return, Decide, Recount, SendReport, FailReceived, Fail, TypeInv, CoreType
    <3> QED
      BY <3>1, <3>2 DEF Goto, Alone, TypeInv, CoreType
  <2> QED
    BY <2>1, <2>2
<1>4. CASE \/ SenderNegotiate(w) \/ ReceiverNegotiate(w) \/ SendRun(w) \/ RecvRun(w)
           \/ SendEnd(w) \/ RecvEnd(w) \/ RecvReport(w)
  <2>1. CASE Exit(w)
    BY <1>1, <2>1
  <2>2. CASE ~Exit(w)
    <3>1. UNCHANGED pc \/ \E l : Goto(w, l)
      BY <1>4, <2>2 DEF SenderNegotiate, ReceiverNegotiate, SendRun, RecvRun, SendEnd, RecvEnd,
         RecvReport, FailReceived, Fail
    <3>2. \A u \in Workers \ {w} : loc'[u] = loc[u]
      BY <1>4, <2>2 DEF SenderNegotiate, ReceiverNegotiate, SendRun, RecvRun, SendEnd, RecvEnd,
         RecvReport, FailReceived, Fail, TypeInv, CoreType
    <3>3. \A u \in Workers \ {w} : report'[u] = report[u]
      BY <1>4, <2>2 DEF SenderNegotiate, ReceiverNegotiate, SendRun, RecvRun, SendEnd, RecvEnd,
         RecvReport, FailReceived, Fail, TypeInv, CoreType
    <3> QED
      BY <3>1, <3>2, <3>3 DEF Goto, Alone, TypeInv, CoreType
  <2> QED
    BY <2>1, <2>2
<1>5. CASE SendFinish(w) \/ RecvFinish(w) \/ RecvReset(w)
  BY <1>1, <1>2, <1>5 DEF SendFinish, RecvFinish, RecvReset, Fail
<1>6. CASE RecvTimeout(w)
  <2>1. \/ UNCHANGED <<loc, report>> /\ (UNCHANGED pc \/ Goto(w, "b_end"))
        \/ EndTalk(w) /\ UNCHANGED report
    BY <1>6 DEF RecvTimeout
  <2> QED
    BY <1>2, <2>1 DEF Goto, Alone, TypeInv, CoreType
<1>7. CASE SendReset(w)
  BY <1>1, <1>7 DEF SendReset
<1> QED
  BY <1>3, <1>4, <1>5, <1>6, <1>7 DEF Acts, Step

-----------------------------------------------------------------------------
(* The wire, segment by segment. *)

(* What is left after k segments have been read. *)
LEMMA DropIs ==
  ASSUME NEW ch \in Wire, NEW w \in Workers, NEW k \in Nat
  PROVE  LET q == Drop(ch, w, k)[w] IN
         /\ q \in Seq(Segment) /\ DOMAIN q = 1 .. Len(q)
         /\ ch[w] \in Seq(Segment) /\ DOMAIN ch[w] = 1 .. Len(ch[w])
         /\ Len(q) \in Nat /\ Len(ch[w]) \in Nat
         /\ k <= Len(ch[w]) => Len(q) = Len(ch[w]) - k
         /\ k > Len(ch[w]) => Len(q) = 0
         /\ \A i \in DOMAIN q : i + k \in DOMAIN ch[w] /\ q[i] = ch[w][i + k]
         /\ \A u \in Workers \ {w} : Drop(ch, w, k)[u] = ch[u]
<1>1. ch[w] \in Seq(Segment) /\ Len(ch[w]) \in Nat /\ DOMAIN ch[w] = 1 .. Len(ch[w])
  BY LenProperties DEF Wire
<1> DEFINE s == ch[w]
           q == SubSeq(s, k + 1, Len(s))
<1>2. \A i \in k + 1 .. Len(s) : s[i] \in Segment
  BY <1>1, ElementOfSeq
<1>0. s \in Seq(Segment) /\ Len(s) \in Nat /\ DOMAIN s = 1 .. Len(s)
  BY <1>1
<1> HIDE DEF s
<1>3. /\ q \in Seq(Segment)
      /\ Len(q) = IF k + 1 <= Len(s) THEN Len(s) - (k + 1) + 1 ELSE 0
      /\ \A i \in 1 .. Len(s) - (k + 1) + 1 : q[i] = s[k + 1 + i - 1]
  BY <1>0, <1>2, SubSeqProperties
<1>4. Drop(ch, w, k)[w] = q /\ \A u \in Workers \ {w} : Drop(ch, w, k)[u] = ch[u]
  BY DEF Drop, Wire, s
<1>5. DOMAIN q = 1 .. Len(q) /\ Len(q) \in Nat
  BY <1>3, LenProperties
<1> HIDE DEF q
<1>6. /\ k <= Len(s) => Len(q) = Len(s) - k
      /\ k > Len(s) => Len(q) = 0
  <2>1. \A a, b \in Nat :
          LET t == IF b + 1 <= a THEN a - (b + 1) + 1 ELSE 0 IN
          (b <= a => t = a - b) /\ (b > a => t = 0)
    OBVIOUS
  <2> QED
    BY <1>0, <1>3, <2>1
<1>7. \A i \in DOMAIN q : i + k \in DOMAIN s /\ q[i] = s[i + k]
  <2> SUFFICES ASSUME NEW i \in DOMAIN q
               PROVE  i + k \in DOMAIN s /\ q[i] = s[i + k]
    OBVIOUS
  <2>1. i \in 1 .. Len(s) - k /\ i \in Nat
    <3>1. i \in 1 .. Len(q)
      BY <1>5
    <3>2. i \in Nat /\ i >= 1 /\ i <= Len(q)
      BY <1>5, <3>1
    <3>3. k <= Len(s)
      <4>1. Len(s) \in Nat
        BY <1>0
      <4>2. CASE k > Len(s)
        BY <1>6, <3>2, <4>2
      <4> QED
        BY <4>1, <4>2
    <3>4. Len(q) = Len(s) - k
      BY <1>6, <3>3
    <3> QED
      BY <3>1, <3>2, <3>4
  <2>2. Len(s) - (k + 1) + 1 = Len(s) - k /\ k + 1 + i - 1 = i + k
    BY <1>0, <2>1
  <2>3. i + k \in DOMAIN s
    BY <1>0, <2>1
  <2> QED
    BY <1>3, <2>1, <2>2, <2>3
<1> QED
  BY <1>0, <1>3, <1>4, <1>5, <1>6, <1>7 DEF s

(* A packet on the wire. *)
LEMMA SegmentsIs ==
  ASSUME NEW w, NEW op \in Ops, NEW n \in Nat, NEW r \in ReportType
  PROVE  LET q == Segments(Packet(w, op, n, r))
             head == Unit(op, n, NoReport)
             body == Unit("body", 0, r)
         IN /\ q \in Seq(Segment)
            /\ UnitsOf(w) = 1 => Len(q) = 1 /\ q[1] = <<head>>
            /\ UnitsOf(w) = 2 /\ Udp => Len(q) = 1 /\ q[1] = <<head, body>>
            /\ UnitsOf(w) = 2 /\ ~Udp => Len(q) = 2 /\ q[1] = <<head>> /\ q[2] = <<body>>
<1> DEFINE head == Unit(op, n, NoReport)
           body == Unit("body", 0, r)
           pkt == Packet(w, op, n, r)
<1>1. pkt \in Segment /\ Segments(pkt) \in Seq(Segment)
  BY PacketType, SegmentsType
<1>2. head \in UnitType /\ body \in UnitType
  BY UnitIsTyped, NoReportType DEF Ops
<1>3. pkt = SubSeq(<<head, body>>, 1, UnitsOf(w))
  BY DEF Packet
<1> HIDE DEF head, body, pkt
<1>4. /\ UnitsOf(w) = 1 => pkt = <<head>>
      /\ UnitsOf(w) = 2 => pkt = <<head, body>>
  <2> DEFINE two == <<head, body>>
  <2>1. two \in Seq(UnitType) /\ Len(two) = 2 /\ two[1] = head /\ two[2] = body
    BY <1>2
  <2> HIDE DEF two
  <2>2. ASSUME NEW k \in {1, 2}
        PROVE  /\ SubSeq(two, 1, k) \in Seq(UnitType) /\ Len(SubSeq(two, 1, k)) = k
               /\ \A i \in 1 .. k : SubSeq(two, 1, k)[i] = two[i]
    <3>1. \A i \in 1 .. k : two[i] \in UnitType
      BY <1>2, <2>1
    <3> QED
      BY <3>1, SubSeqProperties
  <2> DEFINE one == <<head>>
  <2>3. one \in Seq(UnitType) /\ Len(one) = 1 /\ one[1] = head
    BY <1>2
  <2> HIDE DEF one
  <2>4. SubSeq(two, 1, 1) = one
    <3>1. Len(SubSeq(two, 1, 1)) = Len(one) /\ SubSeq(two, 1, 1) \in Seq(UnitType)
      BY <2>2, <2>3
    <3>2. \A i \in 1 .. Len(SubSeq(two, 1, 1)) : SubSeq(two, 1, 1)[i] = one[i]
      BY <2>1, <2>2, <2>3
    <3> QED
      BY <2>3, <3>1, <3>2, SeqEqual
  <2>5. SubSeq(two, 1, 2) = two
    <3>1. Len(SubSeq(two, 1, 2)) = Len(two) /\ SubSeq(two, 1, 2) \in Seq(UnitType)
      BY <2>1, <2>2
    <3>2. \A i \in 1 .. Len(SubSeq(two, 1, 2)) : SubSeq(two, 1, 2)[i] = two[i]
      BY <2>1, <2>2
    <3> QED
      BY <2>1, <3>1, <3>2, SeqEqual
  <2> QED
    BY <1>3, <2>4, <2>5 DEF one, two
<1>6. CASE Udp
  BY <1>1, <1>4, <1>6 DEF Segments, head, body, pkt
<1>7. CASE ~Udp
  <2>1. Segments(pkt) = [i \in DOMAIN pkt |-> <<pkt[i]>>]
    BY <1>7 DEF Segments
  <2>2. UnitsOf(w) = 1 => DOMAIN pkt = 1 .. 1 /\ pkt[1] = head
    BY <1>4
  <2>3. UnitsOf(w) = 2 => DOMAIN pkt = 1 .. 2 /\ pkt[1] = head /\ pkt[2] = body
    BY <1>4
  <2>4. \A i \in DOMAIN pkt : Segments(pkt)[i] = <<pkt[i]>>
    BY <2>1
  <2>5. DOMAIN Segments(pkt) = DOMAIN pkt
    BY <2>1
  <2>6. DOMAIN Segments(pkt) = 1 .. Len(Segments(pkt)) /\ Len(Segments(pkt)) \in Nat
    BY <1>1, LenProperties
  <2>7. UnitsOf(w) = 1 => Len(Segments(pkt)) = 1 /\ Segments(pkt)[1] = <<head>>
    BY <2>2, <2>4, <2>5, <2>6
  <2>8. UnitsOf(w) = 2 => /\ Len(Segments(pkt)) = 2
                          /\ Segments(pkt)[1] = <<head>> /\ Segments(pkt)[2] = <<body>>
    BY <2>3, <2>4, <2>5, <2>6
  <2> QED
    BY <1>1, <1>7, <2>7, <2>8 DEF head, body, pkt
<1> QED
  BY <1>6, <1>7

(* all is the wire ch after w has put a packet on it. *)
IsPut(ch, w, new, all) ==
  LET old == ch[Peer(w)]  q == all[Peer(w)] IN
  /\ q \in Seq(Segment) /\ DOMAIN q = 1 .. Len(q)
  /\ old \in Seq(Segment) /\ DOMAIN old = 1 .. Len(old)
  /\ Len(new) \in {1, 2} /\ Len(q) = Len(old) + Len(new) /\ Len(old) \in Nat
  /\ \A i \in DOMAIN old : i \in DOMAIN q /\ q[i] = old[i]
  /\ \A i \in 1 .. Len(new) : q[Len(old) + i] = new[i]
  /\ \A u \in Workers \ {Peer(w)} : all[u] = ch[u]

LEMMA PutIs ==
  ASSUME NEW ch \in Wire, NEW w \in Workers, NEW op \in Ops, NEW n \in Nat,
         NEW r \in ReportType
  PROVE  IsPut(ch, w, Segments(Packet(w, op, n, r)), Put(ch, w, Packet(w, op, n, r)))
<1> DEFINE new == Segments(Packet(w, op, n, r))
           old == ch[Peer(w)]
           all == Put(ch, w, Packet(w, op, n, r))
           q == all[Peer(w)]
<1>1. new \in Seq(Segment) /\ Len(new) \in {1, 2}
  <2>1. UnitsOf(w) \in {1, 2}
    BY DEF UnitsOf
  <2> QED
    BY <2>1, SegmentsIs
<1>2. Peer(w) \in Workers
  BY PeerType
<1>3. old \in Seq(Segment) /\ Len(old) \in Nat /\ DOMAIN old = 1 .. Len(old)
  BY <1>2, LenProperties DEF Wire
<1>4. q = old \o new /\ \A u \in Workers \ {Peer(w)} : all[u] = ch[u]
  BY <1>2 DEF Put, Wire
<1> HIDE DEF new, old, q, all
<1>5. /\ q \in Seq(Segment) /\ Len(q) = Len(old) + Len(new)
      /\ \A i \in 1 .. Len(old) + Len(new) :
           q[i] = IF i <= Len(old) THEN old[i] ELSE new[i - Len(old)]
  BY <1>1, <1>3, <1>4, ConcatProperties
<1>6. DOMAIN q = 1 .. Len(q)
  BY <1>5, LenProperties
<1>7. \A i \in DOMAIN old : i \in DOMAIN q /\ q[i] = old[i]
  BY <1>1, <1>3, <1>5, <1>6
<1>8. \A i \in 1 .. Len(new) : q[Len(old) + i] = new[i]
  <2> SUFFICES ASSUME NEW i \in 1 .. Len(new)
               PROVE  q[Len(old) + i] = new[i]
    OBVIOUS
  <2>1. Len(old) + i \in 1 .. Len(old) + Len(new) /\ ~(Len(old) + i <= Len(old))
    BY <1>1, <1>3
  <2>2. (Len(old) + i) - Len(old) = i
    BY <1>1, <1>3
  <2> QED
    BY <1>5, <2>1, <2>2
<1> QED
  BY <1>1, <1>3, <1>4, <1>5, <1>6, <1>7, <1>8 DEF IsPut, new, old, q, all

(* What a worker does to the wire: it reads, or reads and sends a packet. *)
Listens(w) == \E k \in Nat : chan' = Drop(chan, w, k)
Speaks(w, op, n, r) ==
  \E k \in Nat : chan' = Put(Drop(chan, w, k), w, Packet(w, op, n, r))

(* The steps that send the packets by which the workers agree. *)
Says(w, op) == /\ op = "COUNT" => SenderNegotiate(w) /\ CountAsserted(w)
               /\ op = "START" => SendStart(w)
               /\ op \in {"END", "ENDWEAK"} => SendEnd(w)
               /\ op = "REPORT" => SendReport(w)

LEMMA DropNothing ==
  ASSUME TypeInv, NEW w \in Workers
  PROVE  Drop(chan, w, 0) = chan
<1>1. chan[w] \in Seq(Segment) /\ Len(chan[w]) \in Nat /\ DOMAIN chan[w] = 1 .. Len(chan[w])
  BY LenProperties DEF TypeInv, Wire
<1> DEFINE s == chan[w]
           q == SubSeq(s, 0 + 1, Len(s))
<1>2. s \in Seq(Segment) /\ Len(s) \in Nat
  BY <1>1
<1>3. \A i \in 0 + 1 .. Len(s) : s[i] \in Segment
  BY <1>1, ElementOfSeq
<1> HIDE DEF s
<1>4. /\ q \in Seq(Segment) /\ Len(q) = IF 0 + 1 <= Len(s) THEN Len(s) - (0 + 1) + 1 ELSE 0
      /\ \A i \in 1 .. Len(s) - (0 + 1) + 1 : q[i] = s[0 + 1 + i - 1]
  BY <1>2, <1>3, SubSeqProperties
<1> HIDE DEF q
<1>5. Len(q) = Len(s)
  BY <1>2, <1>4
<1>6. \A i \in 1 .. Len(q) : q[i] = s[i]
  BY <1>2, <1>4, <1>5
<1>7. q = s
  BY <1>2, <1>4, <1>5, <1>6, SeqEqual
<1>8. Drop(chan, w, 0) = [chan EXCEPT ![w] = q]
  BY DEF Drop, q, s
<1> QED
  BY <1>7, <1>8 DEF s, TypeInv, Wire

LEMMA SendSpeaks ==
  ASSUME TypeInv, NEW w \in Workers, NEW op, NEW n, NEW r,
         Send(w, op, n, r) \/ chan' = Put(chan, w, Packet(w, op, n, r))
  PROVE  Speaks(w, op, n, r)
<1>1. chan' = Put(Drop(chan, w, 0), w, Packet(w, op, n, r))
  BY DropNothing DEF Send
<1> QED
  BY <1>1 DEF Speaks

LEMMA WireStep ==
  ASSUME TypeInv, NEW w \in Workers, Acts(w)
  PROVE  \/ UNCHANGED chan
         \/ Listens(w)
         \/ \E op \in Ops, n \in Nat, r \in ReportType : Speaks(w, op, n, r) /\ Says(w, op)
<1> DEFINE P == \E op \in Ops, n \in Nat, r \in ReportType : Speaks(w, op, n, r) /\ Says(w, op)
<1>0. Needed(w) \in Nat
  BY GotType DEF TypeInv
<1>1. ASSUME FailReceived(w)
      PROVE  P
  <2>1. Speaks(w, "FAIL", 0, NoReport)
    BY <1>0, <1>1 DEF FailReceived, Fail, Speaks
  <2>2. Says(w, "FAIL") /\ "FAIL" \in Ops
    BY DEF Says, Ops
  <2> QED
    BY <2>1, <2>2, NoReportType
<1>2. ASSUME Fail(w, chan)
      PROVE  P
  <2>1. Speaks(w, "FAIL", 0, NoReport)
    BY <1>2, SendSpeaks DEF Fail
  <2>2. Says(w, "FAIL") /\ "FAIL" \in Ops
    BY DEF Says, Ops
  <2> QED
    BY <2>1, <2>2, NoReportType
<1>3. ASSUME Consume(w)
      PROVE  Listens(w)
  BY <1>0, <1>3 DEF Consume, Listens
<1>4. ASSUME NEW op \in Ops, NEW n \in Nat, NEW r \in ReportType, Send(w, op, n, r), Says(w, op)
      PROVE  P
  BY <1>4, SendSpeaks
<1> HIDE DEF P
<1>5. /\ loc[w].n \in Nat /\ loc[w].i \in Nat /\ cnt[w[1]][Dir(w)] \in Nat
      /\ report[w][Dir(w)] \in ReportType
  BY PeerType, DirType DEF TypeInv, CoreType, LocalType
<1>6. CASE \/ TalkInit(w) \/ SetCount(w) \/ Reset(w) \/ Mark(w) \/ Return(w) \/ Decide(w)
           \/ Recount(w) \/ SendReset(w)
  BY <1>6 DEF TalkInit, SetCount, Reset, Mark, Return, Decide, Recount, SendReset
<1>7. CASE RecvPong(w) \/ ReceiverNegotiate(w) \/ RecvStart(w) \/ RecvEnd(w) \/ RecvReport(w)
           \/ RecvRun(w) \/ RecvFinish(w)
  <2>1. FailReceived(w) \/ Consume(w) \/ UNCHANGED chan
    BY <1>7 DEF RecvPong, ReceiverNegotiate, RecvStart, RecvEnd, RecvReport, RecvRun, RecvFinish
  <2> QED
    BY <1>1, <1>3, <2>1 DEF P
<1>8. CASE SendPing(w)
  <2>1. Send(w, "PING", HandshakeIter, NoReport) /\ Says(w, "PING") /\ "PING" \in Ops
    BY <1>8 DEF SendPing, Says, Ops
  <2> QED
    BY <1>4, <2>1, TalkAssumption, NoReportType DEF P
<1>9. CASE Handshake(w)
  <2>1. CASE FailReceived(w)
    BY <1>1, <2>1 DEF P
  <2>2. CASE ~FailReceived(w)
    <3>1. Speaks(w, "PONG", HandshakeIter, NoReport)
      BY <1>0, <1>9, <2>2 DEF Handshake, Speaks
    <3>2. Says(w, "PONG") /\ "PONG" \in Ops
      BY DEF Says, Ops
    <3> QED
      BY <3>1, <3>2, TalkAssumption, NoReportType
  <2> QED
    BY <2>1, <2>2
<1>10. CASE SenderNegotiate(w)
  <2>1. CASE ~CountAsserted(w)
    BY <1>10, <2>1 DEF SenderNegotiate
  <2>2. CASE CountAsserted(w)
    <3>1. Send(w, "COUNT", cnt[w[1]][Dir(w)], NoReport)
      BY <1>10, <2>2 DEF SenderNegotiate
    <3>2. Says(w, "COUNT") /\ "COUNT" \in Ops
      BY <1>10, <2>2 DEF Says, Ops
    <3> QED
      BY <1>4, <1>5, <3>1, <3>2, NoReportType DEF P
  <2> QED
    BY <2>1, <2>2
<1>11. CASE SendStart(w)
  <2>1. Send(w, "START", loc[w].n, NoReport) /\ Says(w, "START") /\ "START" \in Ops
    BY <1>11 DEF SendStart, Says, Ops
  <2> QED
    BY <1>4, <1>5, <2>1, NoReportType DEF P
<1>12. CASE SendRun(w)
  <2>1. UNCHANGED chan \/ Send(w, "RUN", loc[w].i, NoReport)
    BY <1>12 DEF SendRun
  <2>2. Says(w, "RUN") /\ "RUN" \in Ops
    BY DEF Says, Ops
  <2> QED
    BY <1>4, <1>5, <2>1, <2>2, NoReportType DEF P
<1>13. CASE SendEnd(w)
  <2>1. \E op \in {"END", "ENDWEAK"} : Send(w, op, 0, NoReport)
    BY <1>13 DEF SendEnd
  <2>2. \A op \in {"END", "ENDWEAK"} : Says(w, op) /\ op \in Ops
    BY <1>13 DEF Says, Ops
  <2> QED
    BY <1>4, <2>1, <2>2, NoReportType DEF P
<1>14. CASE SendReport(w)
  <2>1. Send(w, "REPORT", 0, report[w][Dir(w)]) /\ Says(w, "REPORT") /\ "REPORT" \in Ops
    BY <1>14 DEF SendReport, Says, Ops
  <2> QED
    BY <1>4, <1>5, <2>1 DEF P
<1>15. CASE SendFinish(w)
  <2>1. Send(w, "FINISH", 0, NoReport) /\ Says(w, "FINISH") /\ "FINISH" \in Ops
    BY <1>15 DEF SendFinish, Says, Ops
  <2> QED
    BY <1>4, <2>1, NoReportType DEF P
<1>16. CASE RecvReset(w)
  <2>1. UNCHANGED chan \/ Fail(w, chan)
    BY <1>16 DEF RecvReset
  <2> QED
    BY <1>2, <2>1 DEF P
<1>17. CASE RecvTimeout(w)
  <2>1. PICK k \in 0 .. Needed(w) - 1 :
          \/ chan' = Drop(chan, w, k)
          \/ chan' = Put(Drop(chan, w, k), w, Packet(w, "FAIL", 0, NoReport))
    BY <1>17 DEF RecvTimeout
  <2>2. k \in Nat
    BY <1>0
  <2>3. Says(w, "FAIL") /\ "FAIL" \in Ops
    BY DEF Says, Ops
  <2> QED
    BY <2>1, <2>2, <2>3, NoReportType DEF Listens, Speaks
<1> QED
  BY <1>6, <1>7, <1>8, <1>9, <1>10, <1>11, <1>12, <1>13, <1>14, <1>15, <1>16, <1>17
  DEF Acts, Step, P

(* A segment that was on its way before the step, followed by what followed it. *)
Inherits(u, i) ==
  \E j \in DOMAIN chan[u] :
    /\ chan'[u][i] = chan[u][j]
    /\ ~Udp /\ j + 1 \in DOMAIN chan[u] =>
         i + 1 \in DOMAIN chan'[u] /\ chan'[u][i + 1] = chan[u][j + 1]

LEMMA DropInherits ==
  ASSUME chan \in Wire, NEW w \in Workers, NEW k \in Nat, chan'[w] = Drop(chan, w, k)[w],
         NEW i \in DOMAIN chan'[w]
  PROVE  Inherits(w, i)
<1> DEFINE q == Drop(chan, w, k)[w]
<1>1. /\ DOMAIN q = 1 .. Len(q) /\ Len(q) \in Nat /\ Len(chan[w]) \in Nat
      /\ DOMAIN chan[w] = 1 .. Len(chan[w])
      /\ k <= Len(chan[w]) => Len(q) = Len(chan[w]) - k
      /\ k > Len(chan[w]) => Len(q) = 0
      /\ \A m \in DOMAIN q : m + k \in DOMAIN chan[w] /\ q[m] = chan[w][m + k]
  BY DropIs
<1> HIDE DEF q
<1>2. i \in DOMAIN q /\ i \in Nat /\ i >= 1 /\ i <= Len(q)
  BY <1>1 DEF q
<1>3. i + k \in DOMAIN chan[w] /\ chan'[w][i] = chan[w][i + k]
  BY <1>1, <1>2 DEF q
<1>4. ASSUME (i + k) + 1 \in DOMAIN chan[w]
      PROVE  i + 1 \in DOMAIN chan'[w] /\ chan'[w][i + 1] = chan[w][(i + k) + 1]
  <2>1. k <= Len(chan[w])
    <3>1. CASE k > Len(chan[w])
      BY <1>1, <1>2, <3>1
    <3> QED
      BY <1>1, <3>1
  <2>2. Len(q) = Len(chan[w]) - k
    BY <1>1, <2>1
  <2>3. i + 1 \in 1 .. Len(q)
    BY <1>1, <1>2, <1>4, <2>2
  <2>4. (i + 1) + k = (i + k) + 1
    BY <1>2
  <2>5. q[i + 1] = chan[w][(i + 1) + k] /\ i + 1 \in DOMAIN q
    BY <1>1, <2>3
  <2> QED
    BY <2>4, <2>5 DEF q
<1> QED
  BY <1>3, <1>4 DEF Inherits

LEMMA SameInherits ==
  ASSUME NEW w, chan'[w] = chan[w], NEW i \in DOMAIN chan'[w]
  PROVE  Inherits(w, i)
BY DEF Inherits

LEMMA ListensInherits ==
  ASSUME TypeInv, NEW w \in Workers, UNCHANGED chan \/ Listens(w), NEW u \in Workers,
         NEW i \in DOMAIN chan'[u]
  PROVE  Inherits(u, i)
<1>1. CASE UNCHANGED chan
  BY <1>1, SameInherits
<1>2. CASE Listens(w)
  <2>1. PICK k \in Nat : chan' = Drop(chan, w, k)
    BY <1>2 DEF Listens
  <2>2. CASE u = w
    BY <2>1, <2>2, DropInherits DEF TypeInv
  <2>3. CASE u # w
    <3>1. chan'[u] = chan[u]
      BY <2>1, <2>3, DropIs DEF TypeInv
    <3> QED
      BY <3>1, SameInherits
  <2> QED
    BY <2>2, <2>3
<1> QED
  BY <1>1, <1>2

(* ... or sent to u in this step. *)
LEMMA SpeaksInherits ==
  ASSUME TypeInv, NEW w \in Workers, NEW op \in Ops, NEW n \in Nat, NEW r \in ReportType,
         Speaks(w, op, n, r), NEW u \in Workers, NEW i \in DOMAIN chan'[u]
  PROVE  Inherits(u, i) \/ (u = Peer(w) /\ chan'[u][i][1].op \in {op, "body"})
<1>1. PICK k \in Nat : chan' = Put(Drop(chan, w, k), w, Packet(w, op, n, r))
  BY DEF Speaks
<1> DEFINE mid == Drop(chan, w, k)
           new == Segments(Packet(w, op, n, r))
           v == Peer(w)
<1>2. mid \in Wire /\ \A x \in Workers \ {w} : mid[x] = chan[x]
  BY DropType, DropIs DEF TypeInv
<1>3. v \in Workers /\ v # w
  BY PeerType
<1>0. chan' = Put(mid, w, Packet(w, op, n, r))
  BY <1>1
<1> HIDE DEF mid
<1>4. /\ chan'[v] \in Seq(Segment) /\ DOMAIN chan'[v] = 1 .. Len(chan'[v])
      /\ mid[v] \in Seq(Segment) /\ DOMAIN mid[v] = 1 .. Len(mid[v])
      /\ Len(new) \in {1, 2} /\ Len(chan'[v]) = Len(mid[v]) + Len(new) /\ Len(mid[v]) \in Nat
      /\ \A j \in DOMAIN mid[v] : j \in DOMAIN chan'[v] /\ chan'[v][j] = mid[v][j]
      /\ \A j \in 1 .. Len(new) : chan'[v][Len(mid[v]) + j] = new[j]
      /\ \A x \in Workers \ {v} : chan'[x] = mid[x]
  <2>1. IsPut(mid, w, new, chan')
    BY <1>0, <1>2, PutIs
  <2> HIDE DEF new
  <2> QED
    BY <2>1 DEF IsPut
<1> HIDE DEF new, v
<1>5. CASE u = w
  <2>1. chan'[w] = Drop(chan, w, k)[w]
    BY <1>3, <1>4 DEF mid
  <2> QED
    BY <1>5, <2>1, DropInherits DEF TypeInv
<1>6. CASE u # w /\ u # v
  <2>1. chan'[u] = chan[u]
    BY <1>2, <1>4, <1>6
  <2> QED
    BY <2>1, SameInherits
<1>7. CASE u = v
  <2>1. mid[v] = chan[v]
    BY <1>2, <1>3
  <2>2. CASE i \in DOMAIN mid[v]
    BY <1>4, <1>7, <2>1, <2>2 DEF Inherits
  <2>3. CASE i \notin DOMAIN mid[v]
    <3>1. i \in Nat /\ i >= 1 /\ i <= Len(mid[v]) + Len(new) /\ ~(i <= Len(mid[v]))
      BY <1>4, <1>7, <2>3
    <3>2. i - Len(mid[v]) \in 1 .. Len(new) /\ i = Len(mid[v]) + (i - Len(mid[v]))
      BY <1>4, <3>1
    <3>3. chan'[v][i] = new[i - Len(mid[v])]
      BY <1>4, <3>2
    <3>4. \A j \in 1 .. Len(new) : new[j][1].op \in {op, "body"}
      <4>1. UnitsOf(w) \in {1, 2}
        BY DEF UnitsOf
      <4>2. Unit(op, n, NoReport).op = op /\ Unit("body", 0, r).op = "body"
        BY DEF Unit
      <4>3. UnitsOf(w) = 1 => Len(new) = 1 /\ new[1] = <<Unit(op, n, NoReport)>>
        BY SegmentsIs DEF new
      <4>4. UnitsOf(w) = 2 /\ Udp => Len(new) = 1 /\ 
                new[1] = <<Unit(op, n, NoReport), Unit("body", 0, r)>>
        BY SegmentsIs DEF new
      <4>5. UnitsOf(w) = 2 /\ ~Udp => 
                /\ Len(new) = 2 /\ new[1] = <<Unit(op, n, NoReport)>>
                /\ new[2] = <<Unit("body", 0, r)>>
        BY SegmentsIs DEF new
      <4> HIDE DEF new
      <4> QED
        BY <4>1, <4>2, <4>3, <4>4, <4>5
    <3> QED
      BY <1>7, <3>2, <3>3, <3>4 DEF v
  <2> QED
    BY <2>2, <2>3
<1> QED
  BY <1>5, <1>6, <1>7

LEMMA PlaceAfter ==
  ASSUME NEW i \in Int, NEW m \in Int, NEW len \in Int, 1 <= i, i <= len - 1, ~(i <= m - 1),
         m <= len, NEW j, j = i - (m - 1), NEW bot, bot = m + 1
  PROVE  j \in 1 .. len - bot + 1 /\ bot + j - 1 = i + 1 /\ i + 1 \in 1 .. len
OBVIOUS

(* A sequence without one of its elements holds only elements of the sequence, each
   where it was or one place further on.                                      *)
Without(q, m) == SubSeq(q, 1, m - 1) \o SubSeq(q, m + 1, Len(q))

LEMMA LeftOut ==
  ASSUME NEW S, NEW q, NEW m, NEW i
  PROVE  q \in Seq(S) /\ m \in DOMAIN q /\ i \in DOMAIN Without(q, m)
         => \/ i \in DOMAIN q /\ Without(q, m)[i] = q[i]
            \/ i + 1 \in DOMAIN q /\ Without(q, m)[i] = q[i + 1]
<1> DEFINE r == Without(q, m)
<1>0. SUFFICES ASSUME q \in Seq(S), m \in DOMAIN q, i \in DOMAIN r
               PROVE  \/ i \in DOMAIN q /\ r[i] = q[i]
                      \/ i + 1 \in DOMAIN q /\ r[i] = q[i + 1]
  OBVIOUS
<1> DEFINE top == m - 1
           bot == m + 1
           len == Len(q)
           a == SubSeq(q, 1, top)
           b == SubSeq(q, bot, len)
<1>1. /\ len \in Nat /\ DOMAIN q = 1 .. len /\ m \in 1 .. len
      /\ \A j \in 1 .. len : q[j] \in S
  BY <1>0, LenProperties, ElementOfSeq
<1>2. /\ top \in Int /\ bot \in Int /\ len \in Int
      /\ (\A j \in 1 .. top : q[j] \in S) /\ \A j \in bot .. len : q[j] \in S
  BY <1>1
<1>3. top = m - 1 /\ bot = m + 1
  OBVIOUS
<1>4. r = a \o b
  BY DEF Without
<1> HIDE DEF top, bot, len, r
<1>5. /\ a \in Seq(S) /\ Len(a) = IF 1 <= top THEN top - 1 + 1 ELSE 0
      /\ \A j \in 1 .. top - 1 + 1 : a[j] = q[1 + j - 1]
  BY <1>2, SubSeqProperties
<1>6. /\ b \in Seq(S) /\ Len(b) = IF bot <= len THEN len - bot + 1 ELSE 0
      /\ \A j \in 1 .. len - bot + 1 : b[j] = q[bot + j - 1]
  BY <1>2, SubSeqProperties
<1> HIDE DEF a, b
<1>7. /\ DOMAIN r = 1 .. Len(a) + Len(b)
      /\ \A j \in 1 .. Len(a) + Len(b) :
           r[j] = IF j <= Len(a) THEN a[j] ELSE b[j - Len(a)]
  <2>1. /\ a \o b \in Seq(S) /\ Len(a \o b) = Len(a) + Len(b)
        /\ \A j \in 1 .. Len(a) + Len(b) :
             (a \o b)[j] = IF j <= Len(a) THEN a[j] ELSE b[j - Len(a)]
    BY <1>5, <1>6, ConcatProperties
  <2> QED
    BY <1>4, <2>1, LenProperties
<1>8. Len(a) = m - 1 /\ Len(b) = len - m
  BY <1>1, <1>3, <1>5, <1>6
<1>9. i \in 1 .. Len(a) + Len(b) /\ i \in Int /\ m \in Int /\ 1 <= i /\ i <= len - 1
  <2>1. i \in 1 .. Len(a) + Len(b)
    BY <1>0, <1>7
  <2>2. (m - 1) + (len - m) = len - 1 /\ m \in Int
    BY <1>1
  <2>3. i \in 1 .. len - 1
    BY <1>8, <2>1, <2>2
  <2> QED
    BY <1>1, <2>1, <2>2, <2>3
<1>10. CASE i <= Len(a)
  <2>1. i \in 1 .. top - 1 + 1 /\ 1 + i - 1 = i /\ i \in 1 .. len
    <3>1. i <= m - 1
      BY <1>8, <1>10
    <3> QED
      BY <1>1, <1>3, <1>9, <3>1
  <2>2. a[i] = q[i]
    BY <1>5, <2>1
  <2> QED
    BY <1>1, <1>7, <1>9, <1>10, <2>1, <2>2
<1>11. CASE ~(i <= Len(a))
  <2>1. PICK j : j = i - (m - 1)
    OBVIOUS
  <2>2. j \in 1 .. len - bot + 1 /\ bot + j - 1 = i + 1 /\ i + 1 \in 1 .. len
    <3>1. ~(i <= m - 1)
      BY <1>8, <1>11
    <3>2. bot = m + 1 /\ m <= len /\ len \in Int
      BY <1>1, <1>3
    <3>3. i \in Int /\ m \in Int /\ 1 <= i /\ i <= len - 1
      BY <1>9
    <3> QED
      BY <2>1, <3>1, <3>2, <3>3, PlaceAfter
  <2>3. b[j] = q[bot + j - 1]
    BY <1>6, <2>2
  <2>4. r[i] = b[j]
    BY <1>7, <1>8, <1>9, <1>11, <2>1
  <2> QED
    BY <1>1, <2>2, <2>3, <2>4
<1> QED
  BY <1>10, <1>11

(* A datagram that is lost or comes twice leaves no other behind. *)
LEMMA DatagramInherits ==
  ASSUME TypeInv, NEW w \in Workers, Lose(w) \/ Duplicate(w), NEW u \in Workers,
         NEW i \in DOMAIN chan'[u]
  PROVE  Inherits(u, i)
<1>1. Udp /\ chan \in Wire /\ chan[w] \in Seq(Segment)
  BY DEF Lose, Duplicate, TypeInv, Wire
<1>2. /\ Len(chan[w]) \in Nat /\ DOMAIN chan[w] = 1 .. Len(chan[w])
      /\ \A j \in 1 .. Len(chan[w]) : chan[w][j] \in Segment
  BY <1>1, LenProperties, ElementOfSeq
<1>3. \A x \in Workers \ {w} : chan'[x] = chan[x]
  BY <1>1 DEF Lose, Duplicate, Wire
<1>4. CASE u # w
  BY <1>3, <1>4, SameInherits
<1>5. CASE u = w /\ Lose(w)
  <2>1. PICK m \in DOMAIN chan[w] :
          chan' = [chan EXCEPT ![w] = SubSeq(chan[w], 1, m - 1)
                                        \o SubSeq(chan[w], m + 1, Len(chan[w]))]
    BY <1>5 DEF Lose
  <2>2. chan'[w] = Without(chan[w], m)
    BY <1>1, <2>1 DEF Wire, Without
  <2>3. \/ i \in DOMAIN chan[w] /\ chan'[w][i] = chan[w][i]
        \/ i + 1 \in DOMAIN chan[w] /\ chan'[w][i] = chan[w][i + 1]
    <3>1. /\ chan[w] \in Seq(Segment) /\ m \in DOMAIN chan[w]
          /\ i \in DOMAIN Without(chan[w], m)
      BY <1>1, <1>5, <2>2
    <3> QED
      BY <2>2, <3>1, LeftOut
  <2> QED
    BY <1>1, <1>2, <1>5, <2>3 DEF Inherits
<1>6. CASE u = w /\ Duplicate(w)
  <2>1. PICK m \in DOMAIN chan[w] : chan' = [chan EXCEPT ![w] = Append(chan[w], chan[w][m])]
    BY <1>6 DEF Duplicate
  <2>2. chan'[w] = Append(chan[w], chan[w][m]) /\ chan[w][m] \in Segment
    BY <1>1, <1>2, <2>1 DEF Wire
  <2>3. /\ DOMAIN chan'[w] = 1 .. Len(chan[w]) + 1
        /\ \A j \in 1 .. Len(chan[w]) : chan'[w][j] = chan[w][j]
        /\ chan'[w][Len(chan[w]) + 1] = chan[w][m]
    BY <1>1, <1>2, <2>2, AppendProperties
  <2> QED
    BY <1>1, <1>2, <1>6, <2>3 DEF Inherits
<1> QED
  BY <1>4, <1>5, <1>6

-----------------------------------------------------------------------------
(* The steps of a worker that receives, as far as its own state is concerned. *)

Stays(w) == pc'[w] = pc[w] /\ loc'[w] = loc[w] /\ report'[w] = report[w]

Becomes(w, i, n, wk, r) ==
  /\ loc'[w].phase = loc[w].phase /\ loc'[w].i = i /\ loc'[w].n = n
  /\ loc'[w].weak = wk /\ loc'[w].round = r

PlainMoves == {<<"init", "b_init">>, <<"start", "b_reset">>, <<"reset", "b_start">>,
               <<"mark", "b_ret">>, <<"ret", "decide">>, <<"ret", "report">>,
               <<"decide", "report">>, <<"decide", "neg">>, <<"report", "finish">>}

(* It moves on, ... *)
Passes(w) == /\ <<pc[w], pc'[w]>> \in PlainMoves
             /\ loc'[w] = loc[w] /\ report'[w] = report[w]

(* ... answers a PING, ... *)
Greets(w) == /\ pc[w] = "hs" /\ pc'[w] \in {"hs", "neg"} /\ report'[w] = report[w]
             /\ \E k \in Nat : /\ Becomes(w, k, loc[w].n, loc[w].weak, loc[w].round)
                               /\ pc'[w] = "neg" => k = 0

(* ... accepts a count, ... *)
Accepts(w) ==
  /\ pc[w] = "neg" /\ pc'[w] = "start"
  /\ \E n \in Nat :
       /\ Becomes(w, loc[w].i, n, loc[w].weak, loc[w].round + 1)
       /\ report'[w] = [report[w] EXCEPT ![Dir(w)].count = n]

(* ... takes a packet of the stream, or leaves the stream, ... *)
Takes(w) == /\ pc[w] = "run" /\ pc'[w] = "run" /\ report'[w] = report[w]
            /\ loc[w].i < loc[w].n
            /\ Becomes(w, loc[w].i + 1, loc[w].n, loc[w].weak, loc[w].round)
Leaves(w) == /\ pc[w] = "run" /\ pc'[w] = "b_end"
             /\ loc'[w] = loc[w] /\ report'[w] = report[w]
             /\ loc[w].i >= loc[w].n \/ timeouts' # 0

(* ... stores what it got, ... *)
Stores(w) == /\ pc[w] = "end" /\ pc'[w] = "b_mark"
             /\ \E wk \in BOOLEAN : Becomes(w, 0, loc[w].n, wk, loc[w].round)
             /\ report'[w] = [report[w] EXCEPT ![Dir(w)].recv = loc[w].i]

(* ... or ends the talk. *)
Closes(w) == /\ pc[w] = "finish" /\ EndTalk(w) /\ report'[w] = report[w]

HearerDoes(w) ==
  Stays(w) \/ Passes(w) \/ Greets(w) \/ Accepts(w) \/ Takes(w) \/ Leaves(w) \/ Stores(w)
  \/ Closes(w)

LEMMA HearerSteps ==
  ASSUME TypeInv, InvRole, NEW w \in Workers, ~Sender(w),
         Acts(w)
  PROVE  HearerDoes(w)
<1>0. /\ loc \in [Workers -> LocalType] /\ loc[w] \in LocalType
      /\ report \in [Workers -> [Dirs -> ReportType]]
      /\ pc[w] \notin SenderLabels
      /\ pc \in [Workers -> LabelSet]
  BY DEF TypeInv, CoreType, InvRole
<1>1. ASSUME Exit(w)
      PROVE  Stays(w)
  BY <1>1 DEF Exit, Stays
<1>2. ASSUME NEW l, Goto(w, l)
      PROVE  pc'[w] = l
  BY <1>0, <1>2 DEF Goto
<1>3. CASE TalkInit(w) \/ SendStart(w) \/ Reset(w) \/ Mark(w) \/ SendReport(w)
  <2>1. UNCHANGED <<loc, report>>
    BY <1>3 DEF TalkInit, SendStart, Reset, Mark, SendReport
  <2>2. \E l : <<pc[w], l>> \in PlainMoves /\ Goto(w, l)
    BY <1>3 DEF TalkInit, SendStart, Reset, Mark, SendReport, At, PlainMoves
  <2> QED
    BY <1>2, <2>1, <2>2 DEF HearerDoes, Passes
<1>4. CASE Return(w) \/ Decide(w)
  <2>1. UNCHANGED <<loc, report>>
    BY <1>4 DEF Return, Decide
  <2>2. \E l : <<pc[w], l>> \in PlainMoves /\ Goto(w, l)
    BY <1>4 DEF Return, Decide, At, PlainMoves
  <2> QED
    BY <1>2, <2>1, <2>2 DEF HearerDoes, Passes
<1>5. CASE SendPing(w) \/ RecvPong(w) \/ SetCount(w) \/ Recount(w)
  BY <1>0, <1>5 DEF SendPing, RecvPong, SetCount, Recount, At, SenderLabels
<1>6. CASE SenderNegotiate(w) \/ RecvStart(w) \/ SendRun(w) \/ RecvEnd(w) \/ RecvReport(w)
           \/ SendFinish(w)
  BY <1>6 DEF SenderNegotiate, RecvStart, SendRun, RecvEnd, RecvReport, SendFinish
<1>7. CASE Handshake(w)
  <2>1. CASE FailReceived(w)
    BY <1>1, <2>1 DEF FailReceived, Fail, HearerDoes
  <2>2. CASE ~FailReceived(w)
    <3> DEFINE more == loc[w].i + 1 < HandshakeIter
               l == IF more THEN "hs" ELSE "neg"
               k == IF more THEN loc[w].i + 1 ELSE 0
    <3>1. pc[w] = "hs" /\ Goto(w, l) /\ loc' = [loc EXCEPT ![w].i = k] /\ UNCHANGED report
      BY <1>7, <2>2 DEF Handshake, At
    <3>2. k \in Nat /\ l \in {"hs", "neg"} /\ (l = "neg" => k = 0)
      BY <1>0 DEF LocalType
    <3> HIDE DEF l, k
    <3>3. Becomes(w, k, loc[w].n, loc[w].weak, loc[w].round)
      BY <1>0, <3>1 DEF Becomes, LocalType
    <3> QED
      BY <1>2, <3>1, <3>2, <3>3 DEF HearerDoes, Greets
  <2> QED
    BY <2>1, <2>2
<1>8. CASE ReceiverNegotiate(w)
  <2>1. CASE FailReceived(w)
    BY <1>1, <2>1 DEF FailReceived, Fail, HearerDoes
  <2>2. CASE ~FailReceived(w)
    <3>1. /\ pc[w] = "neg" /\ Goto(w, "start")
          /\ loc' = [loc EXCEPT ![w].n = Got(w).n, ![w].round = @ + 1]
          /\ report' = [report EXCEPT ![w][Dir(w)].count = Got(w).n]
      BY <1>8, <2>2 DEF ReceiverNegotiate, At
    <3>2. Got(w).n \in Nat
      BY <1>8, GotType DEF ReceiverNegotiate, UnitType, TypeInv
    <3>3. Becomes(w, loc[w].i, Got(w).n, loc[w].weak, loc[w].round + 1)
      BY <1>0, <3>1 DEF Becomes, LocalType
    <3>4. report'[w] = [report[w] EXCEPT ![Dir(w)].count = Got(w).n]
      BY <1>0, <3>1
    <3> QED
      BY <1>2, <3>1, <3>2, <3>3, <3>4 DEF HearerDoes, Accepts
  <2> QED
    BY <2>1, <2>2
<1>9. CASE RecvRun(w)
  <2>1. CASE Exit(w)
    BY <1>1, <2>1 DEF HearerDoes
  <2>2. CASE loc' = [loc EXCEPT ![w].i = @ + 1] /\ UNCHANGED <<pc, report>> /\ loc[w].i < loc[w].n
    <3>1. Becomes(w, loc[w].i + 1, loc[w].n, loc[w].weak, loc[w].round)
      BY <1>0, <2>2 DEF Becomes, LocalType
    <3> QED
      BY <1>9, <2>2, <3>1 DEF HearerDoes, Takes, RecvRun, At
  <2>3. CASE loc[w].i >= loc[w].n /\ Goto(w, "b_end") /\ UNCHANGED <<loc, report>>
    BY <1>2, <1>9, <2>3 DEF HearerDoes, Leaves, RecvRun, At
  <2> QED
    BY <1>9, <2>1, <2>2, <2>3 DEF RecvRun
<1>10. CASE SendEnd(w)
  <2>1. PICK wk \in BOOLEAN : loc' = [loc EXCEPT ![w].weak = wk, ![w].i = 0]
    BY <1>10 DEF SendEnd
  <2>2. Becomes(w, 0, loc[w].n, wk, loc[w].round)
    BY <1>0, <2>1 DEF Becomes, LocalType
  <2>3. report'[w] = [report[w] EXCEPT ![Dir(w)].recv = loc[w].i]
    BY <1>0, <1>10 DEF SendEnd
  <2> QED
    BY <1>2, <1>10, <2>2, <2>3 DEF HearerDoes, Stores, SendEnd, At
<1>11. CASE RecvFinish(w)
  BY <1>11 DEF RecvFinish, At, HearerDoes, Closes
<1>12. CASE RecvReset(w)
  <2>1. Exit(w) \/ (pc[w] = "finish" /\ EndTalk(w) /\ UNCHANGED report)
    BY <1>12 DEF RecvReset, Fail
  <2> QED
    BY <1>1, <2>1 DEF HearerDoes, Closes
<1>13. CASE SendReset(w)
  BY <1>1, <1>13 DEF SendReset, HearerDoes
<1>14. CASE RecvTimeout(w)
  <2>1. timeouts' # 0
    BY <1>14 DEF RecvTimeout, TypeInv, CoreType
  <2>2. \/ pc[w] = "run" /\ Goto(w, "b_end") /\ UNCHANGED <<loc, report>>
        \/ pc[w] = "finish" /\ EndTalk(w) /\ UNCHANGED report
        \/ UNCHANGED <<pc, loc, report>>
    BY <1>14 DEF RecvTimeout
  <2> QED
    BY <1>2, <2>1, <2>2 DEF HearerDoes, Leaves, Closes, Stays
<1> QED
  BY <1>3, <1>4, <1>5, <1>6, <1>7, <1>8, <1>9, <1>10, <1>11, <1>12, <1>13, <1>14 DEF Acts, Step

(* The steps of a worker that sends.  It moves on, ... *)
TalkerMoves == {<<"init", "b_init">>, <<"ping", "pong">>, <<"setcount", "b_count2">>,
                <<"start", "b_reset">>, <<"reset", "b_start">>, <<"run", "b_end">>,
                <<"mark", "b_ret">>, <<"ret", "decide">>, <<"ret", "report">>,
                <<"decide", "report">>, <<"decide", "b_re1">>, <<"recount", "b_re2">>}
Advances(w) == /\ <<pc[w], pc'[w]>> \in TalkerMoves
               /\ loc'[w] = loc[w] /\ report'[w] = report[w]

(* ... gets a PONG, ... *)
Greeted(w) == /\ pc[w] = "pong" /\ pc'[w] \in {"ping", "b_count1"} /\ report'[w] = report[w]
              /\ \E k \in Nat : /\ Becomes(w, k, loc[w].n, loc[w].weak, loc[w].round)
                                /\ pc'[w] = "b_count1" => k = 0

(* ... offers a count, ... *)
Offers(w) ==
  /\ pc[w] = "neg" /\ pc'[w] = "start"
  /\ \E n \in Nat :
       /\ Becomes(w, loc[w].i, n, loc[w].weak, loc[w].round + 1)
       /\ report'[w] = [report[w] EXCEPT ![Dir(w)].count = n]

(* ... gives a packet of the stream, ... *)
Gives(w) == /\ pc[w] = "run" /\ pc'[w] = "run" /\ report'[w] = report[w]
            /\ Becomes(w, loc[w].i + 1, loc[w].n, loc[w].weak, loc[w].round)

(* ... learns of the end of the stream, ... *)
Learns(w) == /\ pc[w] = "end" /\ pc'[w] = "b_mark" /\ report'[w] = report[w]
             /\ RecvEnd(w) /\ ~FailReceived(w)
             /\ Becomes(w, 0, loc[w].n, Got(w).op = "ENDWEAK", loc[w].round)

(* ... takes over the report, ... *)
Adopts(w) == /\ pc[w] = "report" /\ pc'[w] = "finish" /\ loc'[w] = loc[w]
             /\ Readable(w) /\ Got(w).op = "REPORT"
             /\ report'[w] = [report[w] EXCEPT ![Dir(w)] = GotBody(w).report]

(* ... or ends the talk. *)
TalkerDoes(w) ==
  Stays(w) \/ Advances(w) \/ Greeted(w) \/ Offers(w) \/ Gives(w) \/ Learns(w) \/ Adopts(w)
  \/ Closes(w)

LEMMA TalkerSteps ==
  ASSUME TypeInv, InvRole, NEW w \in Workers, Sender(w),
         Acts(w)
  PROVE  TalkerDoes(w)
<1>0. /\ loc \in [Workers -> LocalType] /\ loc[w] \in LocalType
      /\ report \in [Workers -> [Dirs -> ReportType]]
      /\ pc[w] # "hs"
      /\ pc \in [Workers -> LabelSet]
      /\ cnt[w[1]][Dir(w)] \in Nat
  BY PeerType, DirType DEF TypeInv, CoreType, InvRole
<1>1. ASSUME Exit(w)
      PROVE  Stays(w)
  BY <1>1 DEF Exit, Stays
<1>2. ASSUME NEW l, Goto(w, l)
      PROVE  pc'[w] = l
  BY <1>0, <1>2 DEF Goto
<1>3. CASE \/ TalkInit(w) \/ SendPing(w) \/ SetCount(w) \/ Reset(w) \/ Mark(w)
           \/ Return(w) \/ Decide(w) \/ Recount(w)
  <2>1. UNCHANGED <<loc, report>>
    BY <1>3 DEF TalkInit, SendPing, SetCount, Reset, Mark, Return, Decide, Recount
  <2>2. \E l : <<pc[w], l>> \in TalkerMoves /\ Goto(w, l)
    <3>1. CASE TalkInit(w) \/ SendPing(w) \/ SetCount(w) \/ Reset(w) \/ Mark(w) \/ Recount(w)
      BY <3>1 DEF TalkInit, SendPing, SetCount, Reset, Mark, Recount, At, TalkerMoves
    <3>2. CASE Return(w) \/ Decide(w)
      BY <3>2 DEF Return, Decide, At, TalkerMoves
    <3> QED
      BY <1>3, <3>1, <3>2
  <2> QED
    BY <1>2, <2>1, <2>2 DEF TalkerDoes, Advances
<1>4. CASE RecvPong(w)
  <2>1. CASE FailReceived(w)
    BY <1>1, <2>1 DEF FailReceived, Fail, TalkerDoes
  <2>2. CASE ~FailReceived(w)
    <3> DEFINE more == loc[w].i + 1 < HandshakeIter
               l == IF more THEN "ping" ELSE "b_count1"
               k == IF more THEN loc[w].i + 1 ELSE 0
    <3>1. pc[w] = "pong" /\ Goto(w, l) /\ loc' = [loc EXCEPT ![w].i = k] /\ UNCHANGED report
      BY <1>4, <2>2 DEF RecvPong, At
    <3>2. k \in Nat /\ l \in {"ping", "b_count1"} /\ (l = "b_count1" => k = 0)
      BY <1>0 DEF LocalType
    <3> HIDE DEF l, k
    <3>3. Becomes(w, k, loc[w].n, loc[w].weak, loc[w].round)
      BY <1>0, <3>1 DEF Becomes, LocalType
    <3> QED
      BY <1>2, <3>1, <3>2, <3>3 DEF TalkerDoes, Greeted
  <2> QED
    BY <2>1, <2>2
<1>5. CASE Handshake(w)
  BY <1>0, <1>5 DEF Handshake, At
<1>6. CASE ReceiverNegotiate(w) \/ SendStart(w) \/ RecvRun(w) \/ SendEnd(w) \/ SendReport(w)
           \/ RecvFinish(w)
  BY <1>6 DEF ReceiverNegotiate, SendStart, RecvRun, SendEnd, SendReport, RecvFinish
<1>7. CASE SenderNegotiate(w)
  <2>1. CASE ~CountAsserted(w)
    BY <1>1, <1>7, <2>1 DEF SenderNegotiate, TalkerDoes
  <2>2. CASE CountAsserted(w)
    <3> DEFINE n == cnt[w[1]][Dir(w)]
    <3>1. /\ pc[w] = "neg" /\ Goto(w, "start")
          /\ loc' = [loc EXCEPT ![w].n = n, ![w].round = @ + 1]
          /\ report' = [report EXCEPT ![w][Dir(w)].count = n]
      BY <1>7, <2>2 DEF SenderNegotiate, At
    <3>2. n \in Nat
      BY <1>0
    <3> HIDE DEF n
    <3>3. Becomes(w, loc[w].i, n, loc[w].weak, loc[w].round + 1)
      BY <1>0, <3>1 DEF Becomes, LocalType
    <3>4. report'[w] = [report[w] EXCEPT ![Dir(w)].count = n]
      BY <1>0, <3>1
    <3> QED
      BY <1>2, <3>1, <3>2, <3>3, <3>4 DEF TalkerDoes, Offers
  <2> QED
    BY <2>1, <2>2
<1>8. CASE RecvStart(w)
  <2>1. CASE FailReceived(w)
    BY <1>1, <2>1 DEF FailReceived, Fail, TalkerDoes
  <2>2. CASE ~FailReceived(w)
    BY <1>2, <1>8, <2>2 DEF RecvStart, At, TalkerDoes, Advances, TalkerMoves
  <2> QED
    BY <2>1, <2>2
<1>9. CASE SendRun(w)
  <2>1. CASE loc' = [loc EXCEPT ![w].i = @ + 1] /\ UNCHANGED pc
    <3>1. Becomes(w, loc[w].i + 1, loc[w].n, loc[w].weak, loc[w].round)
      BY <1>0, <2>1 DEF Becomes, LocalType
    <3> QED
      BY <1>9, <2>1, <3>1 DEF TalkerDoes, Gives, SendRun, At
  <2>2. CASE UNCHANGED loc /\ Goto(w, "b_end")
    BY <1>2, <1>9, <2>2 DEF SendRun, At, TalkerDoes, Advances, TalkerMoves
  <2> QED
    BY <1>9, <2>1, <2>2 DEF SendRun
<1>10. CASE RecvEnd(w)
  <2>1. CASE FailReceived(w)
    BY <1>1, <2>1 DEF FailReceived, Fail, TalkerDoes
  <2>2. CASE ~FailReceived(w)
    <3> DEFINE wk == Got(w).op = "ENDWEAK"
    <3>1. loc' = [loc EXCEPT ![w].weak = wk, ![w].i = 0]
      BY <1>10, <2>2 DEF RecvEnd
    <3> HIDE DEF wk
    <3>2. Becomes(w, 0, loc[w].n, wk, loc[w].round)
      BY <1>0, <3>1 DEF Becomes, LocalType
    <3>3. Goto(w, "b_mark") /\ pc[w] = "end" /\ UNCHANGED report
      BY <1>10, <2>2 DEF RecvEnd, At
    <3> QED
      BY <1>2, <1>10, <2>2, <3>2, <3>3 DEF TalkerDoes, Learns, wk
  <2> QED
    BY <2>1, <2>2
<1>11. CASE RecvReport(w)
  <2>1. CASE FailReceived(w)
    BY <1>1, <2>1 DEF FailReceived, Fail, TalkerDoes
  <2>2. CASE ~FailReceived(w)
    <3>1. report' = [report EXCEPT ![w][Dir(w)] = GotBody(w).report]
      BY <1>11, <2>2 DEF RecvReport
    <3>2. report'[w] = [report[w] EXCEPT ![Dir(w)] = GotBody(w).report]
      BY <1>0, <3>1
    <3> QED
      BY <1>2, <1>11, <2>2, <3>2 DEF RecvReport, At, TalkerDoes, Adopts
  <2> QED
    BY <2>1, <2>2
<1>12. CASE SendFinish(w)
  BY <1>12 DEF SendFinish, At, TalkerDoes, Closes
<1>13. CASE RecvReset(w)
  <2>1. Exit(w) \/ (pc[w] = "finish" /\ EndTalk(w) /\ UNCHANGED report)
    BY <1>13 DEF RecvReset, Fail
  <2> QED
    BY <1>1, <2>1 DEF TalkerDoes, Closes
<1>14. CASE SendReset(w)
  BY <1>1, <1>14 DEF SendReset, TalkerDoes
<1>15. CASE RecvTimeout(w)
  <2>1. pc[w] # "run" /\ pc[w] # "finish"
    BY <1>15 DEF RecvTimeout, Receiving
  <2>2. UNCHANGED <<pc, loc, report>>
    BY <1>15, <2>1 DEF RecvTimeout
  <2> QED
    BY <2>2 DEF TalkerDoes, Stays
<1> QED
  BY <1>3, <1>4, <1>5, <1>6, <1>7, <1>8, <1>9, <1>10, <1>11, <1>12, <1>13, <1>14, <1>15
  DEF Acts, Step

LEMMA ClosesIs ==
  ASSUME TypeInv, NEW w \in Workers, Closes(w)
  PROVE  /\ report'[w] = report[w] /\ pc[w] = "finish"
         /\ \/ /\ loc[w].phase < Phases /\ pc'[w] = "b_init"
               /\ loc'[w].phase = loc[w].phase + 1
               /\ loc'[w].i = 0 /\ loc'[w].n = loc[w].n /\ loc'[w].weak = loc[w].weak
               /\ loc'[w].round = 0
            \/ loc[w].phase = Phases /\ pc'[w] = "done" /\ loc'[w] = loc[w]
<1>1. loc \in [Workers -> LocalType] /\ loc[w] \in LocalType /\ pc \in [Workers -> LabelSet]
  BY DEF TypeInv, CoreType
<1>2. CASE loc[w].phase < Phases
  <2>1. /\ Goto(w, "b_init")
        /\ loc' = [loc EXCEPT ![w].phase = @ + 1, ![w].i = 0, ![w].round = 0]
    BY <1>2 DEF Closes, EndTalk
  <2>2. pc'[w] = "b_init"
    BY <1>1, <2>1 DEF Goto
  <2> QED
    BY <1>1, <1>2, <2>1, <2>2 DEF Closes, LocalType
<1>3. CASE ~(loc[w].phase < Phases)
  <2>1. Goto(w, "done") /\ UNCHANGED loc
    BY <1>3 DEF Closes, EndTalk
  <2>2. loc[w].phase = Phases
    BY <1>3, PhaseType
  <2> QED
    BY <1>1, <2>1, <2>2 DEF Closes, Goto
<1> QED
  BY <1>2, <1>3

-----------------------------------------------------------------------------
(* The reports. *)

(* Worker w has exchanged the report of its talk p. *)
Past(w, p) == \/ loc[w].phase > p
              \/ loc[w].phase = p /\ pc[w] \in {"finish", "done"}

Good(r) == r.recv <= r.count /\ (timeouts = 0 => r.recv = r.count)

RoundLabels == {"start", "b_reset", "reset", "b_start", "run", "b_end", "b_end2", "end"}
AfterLabels == {"b_mark", "mark", "b_ret", "ret", "decide"}

(* The receiver's own report: the count is that of its round, and what it stores
   is what it got of it.                                                      *)
HearerOf(z, d, p) ==
  /\ loc[z].phase < p => report[z][d] = NoReport
  /\ loc[z].phase = p =>
       /\ pc[z] \in RoundLabels => report[z][d].count = loc[z].n /\ loc[z].i <= loc[z].n
       /\ pc[z] \in {"b_end", "b_end2", "end"} /\ timeouts = 0 => loc[z].i = loc[z].n
       /\ pc[z] \in {"neg"} \cup AfterLabels => loc[z].i = 0
       /\ pc[z] \in AfterLabels \cup {"report"} => Good(report[z][d])
  /\ Past(z, p) => Good(report[z][d])

(* Segment i of q is a header whose body carries the report r. *)
Carried(q, i, r) == IF Udp THEN Len(q[i]) = 2 /\ q[i][2].report = r
                    ELSE Len(q[i]) = 1 /\ i + 1 \in DOMAIN q /\ q[i + 1][1].report = r

(* A report on its way is the receiver's, which does not change any more, ... *)
WireOf(y, z, d, p) ==
  \A i \in DOMAIN chan[y] : chan[y][i][1].op = "REPORT" =>
    Past(z, p) /\ Carried(chan[y], i, report[z][d])

(* ... and the sender has taken it over. *)
TalkerOf(y, z, d, p) ==
  /\ loc[y].phase < p => report[y][d] = NoReport
  /\ Past(y, p) => Past(z, p) /\ report[y][d] = report[z][d]

PairOf(y, z, d, p) == HearerOf(z, d, p) /\ WireOf(y, z, d, p) /\ TalkerOf(y, z, d, p)
InvReports == \A c \in Conns, d \in Dirs :
                PairOf(Talker(d, c), Hearer(d, c), d, TalkOf(d, c))

(* What a step of w may do to its reports and to its place in the test. *)
OwnReport(w) ==
  /\ \A e \in Dirs : e # Dir(w) => report'[w][e] = report[w][e]
  /\ pc[w] \in {"finish", "done"} =>
       /\ report'[w] = report[w]
       /\ (loc'[w].phase = loc[w].phase /\ pc'[w] \in {"finish", "done"}) \/
            loc'[w].phase > loc[w].phase
  /\ \/ loc'[w].phase = loc[w].phase
     \/ pc[w] = "finish" /\ pc'[w] = "b_init" /\ loc'[w].phase = loc[w].phase + 1
  /\ pc'[w] \in {"finish", "done"} => pc[w] \in {"report", "finish", "done"}

LEMMA OwnReportIs ==
  ASSUME TypeInv, InvRole, NEW w \in Workers, Acts(w)
  PROVE  OwnReport(w)
<1>1. /\ report[w] \in [Dirs -> ReportType] /\ loc[w] \in LocalType /\ loc[w].phase \in Nat
      /\ Dir(w) \in Dirs
  BY DirType DEF TypeInv, CoreType, LocalType
<1>2. Sender(w) => TalkerDoes(w)
  BY TalkerSteps
<1>3. ~Sender(w) => HearerDoes(w)
  BY HearerSteps
<1>4. CASE Stays(w) \/ Passes(w) \/ Advances(w)
  <2>1. loc'[w] = loc[w] /\ report'[w] = report[w]
    BY <1>4 DEF Stays, Passes, Advances
  <2>2. pc'[w] = pc[w] \/ <<pc[w], pc'[w]>> \in PlainMoves \cup TalkerMoves
    BY <1>4 DEF Stays, Passes, Advances
  <2> QED
    BY <2>1, <2>2 DEF OwnReport, PlainMoves, TalkerMoves
<1>5. CASE Greets(w) \/ Takes(w) \/ Leaves(w) \/ Greeted(w) \/ Gives(w) \/ Learns(w)
  BY <1>5 DEF Greets, Takes, Leaves, Greeted, Gives, Learns, Becomes, OwnReport
<1>6. CASE Accepts(w) \/ Offers(w)
  BY <1>1, <1>6 DEF Accepts, Offers, Becomes, OwnReport
<1>7. CASE Stores(w)
  BY <1>1, <1>7 DEF Stores, Becomes, OwnReport
<1>8. CASE Adopts(w)
  BY <1>1, <1>8 DEF Adopts, OwnReport
<1>9. CASE Closes(w)
  BY <1>1, <1>9, ClosesIs DEF OwnReport
<1> QED
  BY <1>2, <1>3, <1>4, <1>5, <1>6, <1>7, <1>8, <1>9 DEF TalkerDoes, HearerDoes

LEMMA TimeoutsGrow ==
  ASSUME TypeInv, NEW w \in Workers, Acts(w)
  PROVE  timeouts' = timeouts \/ timeouts' # 0
<1>1. CASE RecvTimeout(w)
  BY <1>1 DEF RecvTimeout, TypeInv, CoreType
<1>2. ASSUME Exit(w) \/ FailReceived(w) \/ Fail(w, chan)
      PROVE  timeouts' = timeouts
  BY <1>2 DEF FailReceived, Fail, Exit, faults
<1>3. CASE \/ TalkInit(w) \/ SendPing(w) \/ RecvPong(w) \/ Handshake(w) \/ SetCount(w)
           \/ SenderNegotiate(w) \/ ReceiverNegotiate(w) \/ SendStart(w) \/ RecvStart(w)
           \/ Reset(w) \/ SendRun(w)
  BY <1>2, <1>3 DEF TalkInit, SendPing, RecvPong, Handshake, SetCount, SenderNegotiate,
     ReceiverNegotiate, SendStart, RecvStart, Reset, SendRun, faults
<1>4. CASE \/ RecvRun(w) \/ SendEnd(w) \/ RecvEnd(w) \/ Mark(w) \/ Return(w) \/ Decide(w)
           \/ Recount(w) \/ SendReport(w) \/ RecvReport(w) \/ SendFinish(w) \/ RecvFinish(w)
           \/ RecvReset(w) \/ SendReset(w)
  BY <1>2, <1>4 DEF RecvRun, SendEnd, RecvEnd, Mark, Return, Decide, Recount, SendReport,
     RecvReport, SendFinish, RecvFinish, RecvReset, SendReset, faults
<1> QED
  BY <1>1, <1>3, <1>4 DEF Acts, Step

(* Once the report is exchanged it stays as it is. *)
LEMMA PastStays ==
  ASSUME TypeInv, TypeInv', InvRole, NEW v \in Workers, Acts(v), NEW w \in Workers,
         NEW d \in Dirs, NEW p \in {1, 2}, Dir(w) = d <=> loc[w].phase = p, Past(w, p)
  PROVE  Past(w, p)' /\ report'[w][d] = report[w][d]
<1>1. loc[w].phase \in Nat /\ loc'[w].phase \in Nat
  BY DEF TypeInv, CoreType, LocalType
<1>2. CASE v # w
  BY <1>2, StepAlone DEF Alone, Past
<1>3. CASE v = w
  <2>1. OwnReport(w)
    BY <1>3, OwnReportIs
  <2>2. CASE loc[w].phase > p
    BY <1>1, <2>1, <2>2 DEF OwnReport, Past
  <2>3. CASE loc[w].phase = p /\ pc[w] \in {"finish", "done"}
    BY <1>1, <2>1, <2>3 DEF OwnReport, Past
  <2> QED
    BY <2>2, <2>3 DEF Past
<1> QED
  BY <1>2, <1>3

(* The step with which it is exchanged. *)
LEMMA PastBegins ==
  ASSUME TypeInv, TypeInv', InvRole, NEW v \in Workers, Acts(v), NEW w \in Workers,
         NEW p \in {1, 2}, ~Past(w, p), Past(w, p)'
  PROVE  /\ v = w /\ pc[w] = "report" /\ loc[w].phase = p /\ loc'[w].phase = p
         /\ pc'[w] \in {"finish", "done"}
<1>1. loc[w].phase \in {1, 2} /\ loc'[w].phase \in {1, 2}
  <2>1. loc[w].phase \in {1, 2}
    BY PhaseType
  <2>2. loc'[w] \in LocalType /\ Phases \in {1, 2}
    BY DEF TypeInv, CoreType, Phases
  <2> QED
    BY <2>1, <2>2 DEF LocalType
<1>2. v = w
  BY StepAlone DEF Alone, Past
<1>3. OwnReport(w)
  BY <1>2, OwnReportIs
<1> QED
  BY <1>1, <1>2, <1>3 DEF OwnReport, Past

LEMMA HearerKept ==
  ASSUME TypeInv, TypeInv', InvRole, NEW v \in Workers, Acts(v),
         NEW y, NEW z, NEW d \in Dirs, NEW p, Pair(y, z, d, p), HearerOf(z, d, p)
  PROVE  HearerOf(z, d, p)'
<1>1. /\ z \in Workers /\ p \in {1, 2} /\ loc[z].phase \in {1, 2}
      /\ ~Sender(z) <=> loc[z].phase = p
      /\ Dir(z) = d <=> loc[z].phase = p
  BY DEF Pair
<1>3. HearerOf(z, d, p)
  OBVIOUS
<1>4. timeouts' = 0 => timeouts = 0
  BY TimeoutsGrow
<1>5. /\ loc[z] \in LocalType /\ loc'[z] \in LocalType /\ report[z] \in [Dirs -> ReportType]
      /\ report'[z] \in [Dirs -> ReportType] /\ report[z][d] \in ReportType
      /\ timeouts \in Nat
  BY <1>1 DEF TypeInv, CoreType
<1>6. CASE v # z
  <2>1. pc'[z] = pc[z] /\ loc'[z] = loc[z] /\ report'[z] = report[z]
    BY <1>1, <1>6, StepAlone DEF Alone
  <2> QED
    BY <1>3, <1>4, <2>1 DEF HearerOf, Past, Good
<1>7. CASE v = z
  <2>1. OwnReport(z)
    BY <1>1, <1>7, OwnReportIs
  <2>2. CASE loc[z].phase # p
    <3>1. report'[z][d] = report[z][d]
      BY <1>1, <2>1, <2>2 DEF OwnReport
    <3>2. CASE loc'[z].phase = loc[z].phase
      BY <1>1, <1>3, <1>4, <2>2, <3>1, <3>2 DEF HearerOf, Past, Good
    <3>3. CASE loc'[z].phase = loc[z].phase + 1 /\ pc'[z] = "b_init"
      <4>1. loc'[z].phase \in {1, 2}
        BY <1>5 DEF LocalType, Phases
      <4>2. loc[z].phase = 1 /\ loc'[z].phase = 2 /\ p = 2
        BY <1>1, <2>2, <3>3, <4>1
      <4> QED
        BY <3>3, <4>2 DEF HearerOf, Past, RoundLabels, AfterLabels
    <3> QED
      BY <2>1, <3>2, <3>3 DEF OwnReport
  <2>3. CASE loc[z].phase = p
    <3>1. HearerDoes(z) /\ Dir(z) = d
      BY <1>1, <1>7, <2>3, HearerSteps
    <3>2. /\ loc[z].i \in Nat /\ loc[z].n \in Nat /\ loc[z].phase \in Nat
          /\ report[z][d].count \in Nat /\ report[z][d].recv \in Nat
      BY <1>5 DEF LocalType, ReportType
    <3>3. /\ pc[z] \in RoundLabels => report[z][d].count = loc[z].n /\ loc[z].i <= loc[z].n
          /\ pc[z] \in {"b_end", "b_end2", "end"} /\ timeouts = 0 => loc[z].i = loc[z].n
          /\ pc[z] \in {"neg"} \cup AfterLabels => loc[z].i = 0
          /\ pc[z] \in AfterLabels \cup {"report"} => Good(report[z][d])
          /\ pc[z] \in {"finish", "done"} => Good(report[z][d])
      BY <1>3, <2>3 DEF HearerOf, Past
    <3>4. CASE Stays(z)
      BY <1>3, <1>4, <3>4 DEF Stays, HearerOf, Past, Good
    <3>5. CASE Passes(z)
      <4>1. loc'[z] = loc[z] /\ report'[z] = report[z] /\ <<pc[z], pc'[z]>> \in PlainMoves
        BY <3>5 DEF Passes
      <4>2. Good(report[z][d]) => Good(report[z][d])'
        BY <1>4, <4>1 DEF Good
      <4>3. loc'[z].phase = p /\ ~(p > p) /\ ~(p < p)
        BY <1>1, <2>3, <4>1
      <4> QED
        BY <3>3, <4>1, <4>2, <4>3 DEF HearerOf, Past, RoundLabels, AfterLabels, PlainMoves
    <3>6. CASE Greets(z)
      BY <1>1, <2>3, <3>6 DEF Greets, Becomes, HearerOf, Past, RoundLabels, AfterLabels
    <3>7. CASE Accepts(z)
      <4>1. PICK n \in Nat : /\ Becomes(z, loc[z].i, n, loc[z].weak, loc[z].round + 1)
                             /\ report'[z] = [report[z] EXCEPT ![d].count = n]
        BY <3>1, <3>7 DEF Accepts
      <4>2. report'[z][d].count = n
        BY <1>5, <4>1 DEF ReportType
      <4>3. loc[z].i = 0 /\ pc'[z] = "start"
        BY <3>3, <3>7 DEF Accepts
      <4> QED
        BY <1>1, <2>3, <4>1, <4>2, <4>3 DEF Becomes, HearerOf, Past, RoundLabels, AfterLabels
    <3>8. CASE Takes(z)
      <4>1. /\ pc[z] = "run" /\ pc'[z] = "run" /\ report'[z] = report[z] /\ loc[z].i < loc[z].n
            /\ loc'[z].phase = loc[z].phase /\ loc'[z].i = loc[z].i + 1 /\ loc'[z].n = loc[z].n
        BY <3>8 DEF Takes, Becomes
      <4>2. report'[z][d].count = loc[z].n
        BY <3>3, <4>1 DEF RoundLabels
      <4>3. loc'[z].i <= loc'[z].n
        BY <3>2, <4>1
      <4> QED
        BY <1>1, <2>3, <4>1, <4>2, <4>3 DEF HearerOf, Past, AfterLabels
    <3>9. CASE Leaves(z)
      <4>1. /\ pc[z] = "run" /\ pc'[z] = "b_end" /\ report'[z] = report[z] /\ loc'[z] = loc[z]
            /\ loc[z].i >= loc[z].n \/ timeouts' # 0
        BY <3>9 DEF Leaves
      <4>2. report[z][d].count = loc[z].n /\ loc[z].i <= loc[z].n
        BY <3>3, <4>1 DEF RoundLabels
      <4>3. timeouts' = 0 => loc[z].i = loc[z].n
        BY <3>2, <4>1, <4>2
      <4> QED
        BY <1>1, <2>3, <4>1, <4>2, <4>3 DEF HearerOf, Past, AfterLabels
    <3>10. CASE Stores(z)
      <4>1. /\ pc[z] = "end" /\ pc'[z] = "b_mark" /\ loc'[z].phase = loc[z].phase
            /\ loc'[z].i = 0 /\ report'[z] = [report[z] EXCEPT ![d].recv = loc[z].i]
        BY <3>1, <3>10 DEF Stores, Becomes
      <4>2. report'[z][d].recv = loc[z].i /\ report'[z][d].count = report[z][d].count
        BY <1>5, <4>1 DEF ReportType
      <4>3. report[z][d].count = loc[z].n /\ loc[z].i <= loc[z].n
        BY <3>3, <4>1 DEF RoundLabels
      <4>4. timeouts' = 0 => loc[z].i = loc[z].n
        BY <1>4, <3>3, <4>1
      <4>5. Good(report[z][d])'
        BY <4>2, <4>3, <4>4 DEF Good
      <4> QED
        BY <1>1, <2>3, <4>1, <4>5 DEF HearerOf, Past, RoundLabels
    <3>11. CASE Closes(z)
      <4>1. /\ report'[z] = report[z] /\ pc[z] = "finish"
            /\ \/ loc'[z].phase = p + 1 /\ pc'[z] = "b_init"
               \/ loc'[z].phase = p /\ pc'[z] = "done"
        BY <1>1, <2>3, <3>11, ClosesIs
      <4>2. Good(report[z][d])'
        BY <1>4, <3>3, <4>1 DEF Good
      <4> QED
        BY <1>1, <4>1, <4>2 DEF HearerOf, Past, RoundLabels, AfterLabels
    <3> QED
      BY <3>1, <3>4, <3>5, <3>6, <3>7, <3>8, <3>9, <3>10, <3>11 DEF HearerDoes
  <2> QED
    BY <2>2, <2>3
<1> QED
  BY <1>6, <1>7

(* A report that was on its way still is, and is the same. *)
LEMMA CarriedOn ==
  ASSUME TypeInv, NEW y \in Workers, NEW i \in DOMAIN chan'[y], NEW j \in DOMAIN chan[y],
         chan'[y][i] = chan[y][j],
         ~Udp /\ j + 1 \in DOMAIN chan[y] =>
           i + 1 \in DOMAIN chan'[y] /\ chan'[y][i + 1] = chan[y][j + 1],
         NEW r, Carried(chan[y], j, r)
  PROVE  Carried(chan'[y], i, r)
BY DEF Carried

LEMMA WireKept ==
  ASSUME TypeInv, TypeInv', InvRole, NEW v \in Workers, Acts(v),
         NEW y, NEW z, NEW d \in Dirs, NEW p, Pair(y, z, d, p), WireOf(y, z, d, p)
  PROVE  WireOf(y, z, d, p)'
<1>1. /\ y \in Workers /\ z \in Workers /\ p \in {1, 2} /\ y # z /\ Peer(z) = y
      /\ ~Sender(z) <=> loc[z].phase = p
      /\ Dir(z) = d <=> loc[z].phase = p
  BY DEF Pair
<1>3. WireOf(y, z, d, p)
  OBVIOUS
<1>4. ASSUME NEW i \in DOMAIN chan'[y], chan'[y][i][1].op = "REPORT", Inherits(y, i)
      PROVE  Past(z, p)' /\ Carried(chan'[y], i, report'[z][d])
  <2>1. PICK j \in DOMAIN chan[y] :
          /\ chan'[y][i] = chan[y][j]
          /\ ~Udp /\ j + 1 \in DOMAIN chan[y] =>
               i + 1 \in DOMAIN chan'[y] /\ chan'[y][i + 1] = chan[y][j + 1]
    BY <1>4 DEF Inherits
  <2>2. Past(z, p) /\ Carried(chan[y], j, report[z][d])
    BY <1>3, <1>4, <2>1 DEF WireOf
  <2>3. Past(z, p)' /\ report'[z][d] = report[z][d]
    BY <1>1, <2>2, PastStays
  <2> QED
    BY <1>1, <2>1, <2>2, <2>3, CarriedOn
<1>5. CASE SendReport(v) /\ v = z
  <2>1. /\ pc[z] = "report" /\ ~Sender(z) /\ loc[z].phase = p /\ Dir(z) = d
        /\ Send(z, "REPORT", 0, report[z][d]) /\ Goto(z, "finish") /\ UNCHANGED <<loc, report>>
    BY <1>1, <1>5 DEF SendReport, At
  <2>2. ~Past(z, p)
    BY <1>1, <2>1 DEF Past
  <2>3. Past(z, p)'
    BY <1>1, <2>1, GotoIs DEF Past
  <2> DEFINE r == report[z][d]
             new == Segments(Packet(z, "REPORT", 0, r))
  <2>4. r \in ReportType /\ "REPORT" \in Ops /\ chan \in Wire /\ UnitsOf(z) = 2
    BY <1>1, <2>1 DEF TypeInv, CoreType, Ops, UnitsOf, HandshakeLabels
  <2>5. chan' = Put(chan, z, Packet(z, "REPORT", 0, r))
    BY <2>1 DEF Send
  <2>6. IsPut(chan, z, new, chan')
    BY <1>1, <2>4, <2>5, PutIs
  <2>7. /\ Udp => Len(new) = 1 /\ Len(new[1]) = 2 /\ new[1][2].report = r
        /\ ~Udp => /\ Len(new) = 2 /\ Len(new[1]) = 1
                   /\ new[2][1].op = "body" /\ new[2][1].report = r
    <3> DEFINE head == Unit("REPORT", 0, NoReport)
               body == Unit("body", 0, r)
    <3>1. /\ Udp => Len(new) = 1 /\ new[1] = <<head, body>>
          /\ ~Udp => Len(new) = 2 /\ new[1] = <<head>> /\ new[2] = <<body>>
      BY <2>4, SegmentsIs
    <3>2. body.op = "body" /\ body.report = r
      BY DEF Unit
    <3> HIDE DEF head, body, new, r
    <3>3. /\ Len(<<head, body>>) = 2 /\ <<head, body>>[2] = body /\ Len(<<head>>) = 1
          /\ <<body>>[1] = body
      OBVIOUS
    <3> QED
      BY <3>1, <3>2, <3>3
  <2> HIDE DEF new, r
  <2>9. /\ DOMAIN chan'[y] = 1 .. Len(chan'[y]) /\ DOMAIN chan[y] = 1 .. Len(chan[y])
        /\ Len(chan'[y]) = Len(chan[y]) + Len(new) /\ Len(chan[y]) \in Nat
        /\ \A i \in DOMAIN chan[y] : chan'[y][i] = chan[y][i]
        /\ \A i \in 1 .. Len(new) : chan'[y][Len(chan[y]) + i] = new[i]
    BY <1>1, <2>6 DEF IsPut
  <2>10. ASSUME NEW i \in DOMAIN chan'[y], chan'[y][i][1].op = "REPORT"
         PROVE  Carried(chan'[y], i, r)
    <3>1. i \notin DOMAIN chan[y]
      BY <1>3, <2>2, <2>9, <2>10 DEF WireOf
    <3>2. i \in Nat /\ i > Len(chan[y]) /\ i <= Len(chan[y]) + Len(new)
      BY <2>9, <3>1
    <3>3. CASE Udp
      <4>0. Len(new) = 1 /\ Len(chan[y]) \in Nat
        BY <2>7, <2>9, <3>3
      <4>1. i = Len(chan[y]) + 1 /\ chan'[y][i] = new[1]
        <5>1. i = Len(chan[y]) + 1 /\ 1 \in 1 .. Len(new)
          BY <3>2, <4>0
        <5> QED
          BY <2>9, <5>1
      <4> QED
        BY <2>7, <3>3, <4>1 DEF Carried
    <3>4. CASE ~Udp
      <4>0. Len(new) = 2 /\ Len(chan[y]) \in Nat
        BY <2>7, <2>9, <3>4
      <4>1. chan'[y][Len(chan[y]) + 1] = new[1] /\ chan'[y][Len(chan[y]) + 2] = new[2]
        <5>1. 1 \in 1 .. Len(new) /\ 2 \in 1 .. Len(new)
          BY <4>0
        <5> QED
          BY <2>9, <5>1
      <4>2. i # Len(chan[y]) + 2
        BY <2>7, <2>10, <3>4, <4>1
      <4>3. i = Len(chan[y]) + 1 /\ i + 1 = Len(chan[y]) + 2 /\ i + 1 \in DOMAIN chan'[y]
        <5>1. i = Len(chan[y]) + 1
          BY <3>2, <4>0, <4>2
        <5>2. i + 1 = Len(chan[y]) + 2 /\ i + 1 \in 1 .. Len(chan[y]) + 2
          BY <4>0, <5>1
        <5> QED
          BY <2>9, <4>0, <5>1, <5>2
      <4> QED
        BY <2>7, <3>4, <4>1, <4>3 DEF Carried
    <3> QED
      BY <3>3, <3>4
  <2>11. report'[z][d] = r
    BY <2>1 DEF r
  <2> QED
    BY <2>3, <2>10, <2>11 DEF WireOf
<1>6. CASE ~(SendReport(v) /\ v = z)
  <2>1. \A i \in DOMAIN chan'[y] : chan'[y][i][1].op = "REPORT" => Inherits(y, i)
    <3>1. CASE UNCHANGED chan \/ Listens(v)
      BY <1>1, <3>1, ListensInherits
    <3>2. ASSUME NEW op \in Ops, NEW n \in Nat, NEW r \in ReportType, Speaks(v, op, n, r),
                 Says(v, op)
          PROVE  \A i \in DOMAIN chan'[y] : chan'[y][i][1].op = "REPORT" => Inherits(y, i)
      <4>1. Peer(v) = y => v = z
        BY <1>1, PeerOfPeer DEF Pair
      <4>2. Peer(v) = y => op # "REPORT"
        BY <1>6, <3>2, <4>1 DEF Says
      <4> QED
        BY <1>1, <3>2, <4>2, SpeaksInherits
    <3> QED
      BY <3>1, <3>2, WireStep
  <2> QED
    BY <1>4, <2>1 DEF WireOf
<1> QED
  BY <1>5, <1>6

LEMMA TalkerKept ==
  ASSUME TypeInv, TypeInv', InvRole, NEW v \in Workers, Acts(v),
         NEW y, NEW z, NEW d \in Dirs, NEW p, Pair(y, z, d, p), PairOf(y, z, d, p)
  PROVE  TalkerOf(y, z, d, p)'
<1>1. /\ y \in Workers /\ z \in Workers /\ p \in {1, 2} /\ y # z
      /\ Dir(z) = d <=> loc[z].phase = p
      /\ Dir(y) = d <=> loc[y].phase = p
      /\ Sender(y) <=> loc[y].phase = p
      /\ loc[y].phase \in {1, 2}
  BY DEF Pair
<1>3. WireOf(y, z, d, p) /\ TalkerOf(y, z, d, p)
  BY DEF PairOf
<1>4. loc'[y].phase < p => report'[y][d] = NoReport
  <2>1. CASE v = y
    <3>1. OwnReport(y)
      BY <1>1, <2>1, OwnReportIs
    <3> QED
      BY <1>1, <1>3, <3>1 DEF OwnReport, TalkerOf
  <2>2. CASE v # y
    BY <1>1, <1>3, <2>2, StepAlone DEF Alone, TalkerOf
  <2> QED
    BY <2>1, <2>2
<1>5. ASSUME Past(y, p)'
      PROVE  Past(z, p)' /\ report'[y][d] = report'[z][d]
  <2>1. CASE Past(y, p)
    <3>1. Past(z, p) /\ report[y][d] = report[z][d]
      BY <1>3, <2>1 DEF TalkerOf
    <3>2. report'[y][d] = report[y][d]
      BY <1>1, <2>1, PastStays
    <3>3. Past(z, p)' /\ report'[z][d] = report[z][d]
      BY <1>1, <3>1, PastStays
    <3> QED
      BY <3>1, <3>2, <3>3
  <2>2. CASE ~Past(y, p)
    <3>1. v = y /\ pc[y] = "report" /\ loc[y].phase = p /\ pc'[y] \in {"finish", "done"}
      BY <1>1, <1>5, <2>2, PastBegins
    <3>2. TalkerDoes(y)
      BY <1>1, <3>1, TalkerSteps
    <3>3. Adopts(y)
      BY <3>1, <3>2
      DEF TalkerDoes, Stays, Advances, TalkerMoves, Greeted, Offers, Gives, Learns, Closes
    <3>4. /\ Readable(y) /\ Got(y).op = "REPORT" /\ UnitsOf(y) = 2
          /\ report'[y] = [report[y] EXCEPT ![d] = GotBody(y).report]
      BY <1>1, <3>1, <3>3 DEF Adopts, UnitsOf, HandshakeLabels
    <3>5. 1 \in DOMAIN chan[y]
      <4>1. Needed(y) \in Nat \ {0}
        BY <1>1, GotType DEF TypeInv
      <4>2. chan[y] \in Seq(Segment) /\ Len(chan[y]) \in Nat /\ DOMAIN chan[y] = 1 .. Len(chan[y])
        BY <1>1, LenProperties DEF TypeInv, Wire
      <4> QED
        BY <3>4, <4>1, <4>2 DEF Readable
    <3>6. Past(z, p) /\ Carried(chan[y], 1, report[z][d])
      BY <1>3, <3>4, <3>5 DEF WireOf, Got
    <3>7. GotBody(y).report = report[z][d]
      BY <3>6 DEF Carried, GotBody
    <3>8. Past(z, p)' /\ report'[z][d] = report[z][d]
      BY <1>1, <3>6, PastStays
    <3>9. report'[y][d] = GotBody(y).report
      BY <1>1, <3>4 DEF TypeInv, CoreType
    <3> QED
      BY <3>7, <3>8, <3>9
  <2> QED
    BY <2>1, <2>2
<1> QED
  BY <1>4, <1>5 DEF TalkerOf

LEMMA NextCases ==
  ASSUME [Next]_vars
  PROVE  \/ \E w \in Workers : Acts(w)
         \/ \E s \in Sides, b \in 0 .. 2 : BarrierWait(s, b)
         \/ \E w \in Workers : Lose(w) \/ Duplicate(w)
         \/ (\E s \in Sides : Complete(s)) /\
              UNCHANGED <<pc, loc, report, weak, imWeak, cnt, chan, timeouts>>
         \/ /\ UNCHANGED <<pc, loc, report, weak, imWeak, cnt, chan, timeouts>>
            /\ UNCHANGED alive \/ \E s \in Sides : alive' = [alive EXCEPT ![s] = "failed"]
<1>1. CASE Progress
  <2>1. ASSUME NEW s \in Sides, Complete(s)
        PROVE  UNCHANGED <<pc, loc, report, weak, imWeak, cnt, chan, timeouts>>
    BY <2>1 DEF Complete, shared, faults
  <2> QED
    BY <1>1, <2>1 DEF Progress, Acts
<1>2. CASE Environment
  <2>1. ASSUME NEW w \in Workers, Spin(w)
        PROVE  UNCHANGED <<alive, pc, loc, report, weak, imWeak, cnt, chan, timeouts>>
    BY <2>1 DEF Spin, vars, shared, faults
  <2>2. ASSUME NEW s \in Sides, Crash(s)
        PROVE  /\ UNCHANGED <<pc, loc, report, weak, imWeak, cnt, chan, timeouts>>
               /\ alive' = [alive EXCEPT ![s] = "failed"]
    BY <2>2 DEF Crash, shared, faults
  <2> QED
    BY <1>2, <2>1, <2>2 DEF Environment, Acts
<1>3. CASE Ended \/ UNCHANGED vars
  BY <1>3 DEF Ended, vars, shared, faults
<1> QED
  BY <1>1, <1>2, <1>3 DEF Next

LEMMA BarrierLabels ==
  ASSUME TypeInv, NEW s \in Sides, NEW b \in 0 .. 2, BarrierWait(s, b), NEW w \in Workers
  PROVE  \/ pc'[w] = pc[w]
         \/ /\ w[1] = s /\ pc[w] \in GlobalLabels \cup DirLabels
            /\ \E serial \in BOOLEAN : pc'[w] = AfterBarrier(w, serial)
<1>1. PICK serial \in WaitingAt(s, b) :
        pc' = [v \in Workers |-> IF v \in WaitingAt(s, b)
                                 THEN AfterBarrier(v, v = serial) ELSE pc[v]]
  BY DEF BarrierWait
<1>2. CASE w \in WaitingAt(s, b)
  BY <1>1, <1>2 DEF WaitingAt
<1>3. CASE w \notin WaitingAt(s, b)
  BY <1>1, <1>3
<1> QED
  BY <1>2, <1>3

LEMMA BarrierReports ==
  ASSUME TypeInv, InvRole, NEW s \in Sides, NEW b \in 0 .. 2, BarrierWait(s, b),
         NEW y, NEW z, NEW d \in Dirs, NEW p, Pair(y, z, d, p), PairOf(y, z, d, p)
  PROVE  PairOf(y, z, d, p)'
<1>1. UNCHANGED <<loc, report, chan, timeouts>>
  BY DEF BarrierWait, faults
<1>2. /\ y \in Workers /\ z \in Workers /\ p \in {1, 2}
      /\ loc[z].phase \in {1, 2} /\ loc[y].phase \in {1, 2}
      /\ ~Sender(z) <=> loc[z].phase = p
  BY DEF Pair
<1>3. ASSUME NEW w \in Workers
      PROVE  pc'[w] \in {"finish", "done"} <=> pc[w] \in {"finish", "done"}
  BY BarrierLabels DEF AfterBarrier, GlobalLabels, DirLabels
<1>4. Past(y, p)' <=> Past(y, p)
  BY <1>1, <1>2, <1>3 DEF Past
<1>5. Past(z, p)' <=> Past(z, p)
  BY <1>1, <1>2, <1>3 DEF Past
<1>6. WireOf(y, z, d, p)' /\ TalkerOf(y, z, d, p)'
  BY <1>1, <1>4, <1>5 DEF WireOf, TalkerOf, PairOf
<1>7. HearerOf(z, d, p)'
  <2>1. \A r : Good(r)' <=> Good(r)
    BY <1>1 DEF Good
  <2>2. CASE loc[z].phase # p \/ pc'[z] = pc[z]
    BY <1>1, <1>5, <2>1, <2>2 DEF PairOf, HearerOf
  <2>3. CASE loc[z].phase = p /\ pc'[z] # pc[z]
    <3>1. pc[z] \notin SenderLabels
      BY <1>2, <2>3 DEF InvRole
    <3>2. <<pc[z], pc'[z]>> \in {<<"b_init", "ping">>, <<"b_init", "hs">>, <<"b_reset", "reset">>,
            <<"b_start", "run">>, <<"b_end", "b_end2">>, <<"b_end", "end">>, <<"b_end2", "end">>,
            <<"b_mark", "mark">>, <<"b_ret", "ret">>}
      BY <1>2, <2>3, <3>1, BarrierLabels DEF AfterBarrier, GlobalLabels, DirLabels, SenderLabels
    <3>3. ~(p < p) /\ ~(p > p)
      BY <1>2
    <3>4. /\ pc[z] \in RoundLabels => report[z][d].count = loc[z].n /\ loc[z].i <= loc[z].n
          /\ pc[z] \in {"b_end", "b_end2", "end"} /\ timeouts = 0 => loc[z].i = loc[z].n
          /\ pc[z] \in {"neg"} \cup AfterLabels => loc[z].i = 0
          /\ pc[z] \in AfterLabels \cup {"report"} => Good(report[z][d])
      BY <2>3 DEF PairOf, HearerOf
    <3> QED
      BY <1>1, <2>1, <2>3, <3>2, <3>3, <3>4 DEF HearerOf, Past, RoundLabels, AfterLabels
  <2> QED
    BY <2>2, <2>3
<1> QED
  BY <1>6, <1>7 DEF PairOf

LEMMA ReportsInit == Init => InvReports
<1> SUFFICES ASSUME Init, NEW c \in Conns, NEW d \in Dirs
             PROVE  PairOf(Talker(d, c), Hearer(d, c), d, TalkOf(d, c))
  BY DEF InvReports
<1> DEFINE y == Talker(d, c)
           z == Hearer(d, c)
           p == TalkOf(d, c)
<1>1. y \in Workers /\ z \in Workers /\ p \in {1, 2}
  BY TypeInit, PairIs DEF Pair
<1> HIDE DEF y, z, p
<1>2. /\ pc[y] = "init" /\ pc[z] = "init" /\ loc[y].phase = 1 /\ loc[z].phase = 1
      /\ report[y][d] = NoReport /\ report[z][d] = NoReport /\ chan[y] = <<>>
  BY <1>1 DEF Init
<1>3. ~Past(y, p) /\ ~Past(z, p)
  BY <1>1, <1>2 DEF Past
<1>4. HearerOf(z, d, p)
  BY <1>1, <1>2, <1>3 DEF HearerOf, RoundLabels, AfterLabels
<1>5. TalkerOf(y, z, d, p)
  BY <1>1, <1>2, <1>3 DEF TalkerOf
<1>6. WireOf(y, z, d, p)
  BY <1>2 DEF WireOf
<1> QED
  BY <1>4, <1>5, <1>6 DEF PairOf, y, z, p

LEMMA ReportsNext ==
  ASSUME TypeInv, TypeInv', InvRole, InvReports, [Next]_vars
  PROVE  InvReports'
<1>1. ASSUME NEW c \in Conns, NEW d \in Dirs
      PROVE  PairOf(Talker(d, c), Hearer(d, c), d, TalkOf(d, c))'
  <2> DEFINE y == Talker(d, c)
             z == Hearer(d, c)
             p == TalkOf(d, c)
  <2>1. Pair(y, z, d, p) /\ PairOf(y, z, d, p)
    BY PairIs DEF InvReports
  <2>2. ASSUME NEW Y, NEW Z, NEW P, Pair(Y, Z, d, P), PairOf(Y, Z, d, P)
        PROVE  PairOf(Y, Z, d, P)'
    <3>1. ASSUME NEW v \in Workers, Acts(v)
          PROVE  PairOf(Y, Z, d, P)'
      <4>1. HearerOf(Z, d, P)'
        BY <2>2, <3>1, HearerKept DEF PairOf
      <4>2. WireOf(Y, Z, d, P)'
        BY <2>2, <3>1, WireKept DEF PairOf
      <4>3. TalkerOf(Y, Z, d, P)'
        BY <2>2, <3>1, TalkerKept
      <4> QED
        BY <4>1, <4>2, <4>3 DEF PairOf
    <3>2. ASSUME NEW s \in Sides, NEW b \in 0 .. 2, BarrierWait(s, b)
          PROVE  PairOf(Y, Z, d, P)'
      BY <2>2, <3>2, BarrierReports
    <3>3. ASSUME NEW w \in Workers, Lose(w) \/ Duplicate(w)
          PROVE  PairOf(Y, Z, d, P)'
      <4>1. UNCHANGED <<pc, loc, report, timeouts>>
        BY <3>3 DEF Lose, Duplicate
      <4>2. \A i \in DOMAIN chan'[Y] : Inherits(Y, i)
        BY <2>2, <3>3, DatagramInherits DEF Pair
      <4>3. WireOf(Y, Z, d, P)'
        <5> SUFFICES ASSUME NEW i \in DOMAIN chan'[Y], chan'[Y][i][1].op = "REPORT"
                     PROVE  Past(Z, P)' /\ Carried(chan'[Y], i, report'[Z][d])
          BY DEF WireOf
        <5>1. PICK j \in DOMAIN chan[Y] :
                /\ chan'[Y][i] = chan[Y][j]
                /\ ~Udp /\ j + 1 \in DOMAIN chan[Y] =>
                     i + 1 \in DOMAIN chan'[Y] /\ chan'[Y][i + 1] = chan[Y][j + 1]
          BY <4>2 DEF Inherits
        <5>2. Past(Z, P) /\ Carried(chan[Y], j, report[Z][d])
          BY <2>2, <5>1 DEF PairOf, WireOf
        <5>3. Past(Z, P)' /\ report'[Z][d] = report[Z][d]
          BY <4>1, <5>2 DEF Past
        <5> QED
          BY <2>2, <5>1, <5>2, <5>3, CarriedOn DEF Pair
      <4>4. HearerOf(Z, d, P)' /\ TalkerOf(Y, Z, d, P)'
        BY <2>2, <4>1 DEF PairOf, HearerOf, TalkerOf, Past, Good
      <4> QED
        BY <4>3, <4>4 DEF PairOf
    <3>4. ASSUME UNCHANGED <<pc, loc, report, chan, timeouts>>
          PROVE  PairOf(Y, Z, d, P)'
      BY <2>2, <3>4 DEF PairOf, HearerOf, WireOf, TalkerOf, Past, Good
    <3> QED
      BY <3>1, <3>2, <3>3, <3>4, NextCases
  <2> HIDE DEF y, z, p
  <2>3. PairOf(y, z, d, p)'
    BY <2>1, <2>2
  <2> QED
    BY <2>3 DEF y, z, p
<1> QED
  BY <1>1 DEF InvReports

-----------------------------------------------------------------------------
(* A process that has completed its test has nothing left to do. *)
InvDone == /\ \A s \in Sides : alive[s] = "completed" => \A c \in Conns : pc[<<s, c>>] = "done"
           /\ \A w \in Workers : pc[w] = "done" => loc[w].phase = Phases

LEMMA ActsRunning ==
  ASSUME TypeInv, NEW v \in Workers, Acts(v)
  PROVE  /\ Running(v[1])
         /\ UNCHANGED alive \/ alive' = [alive EXCEPT ![v[1]] = "failed"]
<1>1. ASSUME Exit(v) \/ FailReceived(v) \/ Fail(v, chan)
      PROVE  alive' = [alive EXCEPT ![v[1]] = "failed"]
  BY <1>1 DEF FailReceived, Fail, Exit
<1>2. CASE RecvTimeout(v)
  BY <1>2 DEF RecvTimeout
<1>3. CASE \/ TalkInit(v) \/ SendPing(v) \/ RecvPong(v) \/ Handshake(v) \/ SetCount(v)
           \/ SenderNegotiate(v) \/ ReceiverNegotiate(v) \/ SendStart(v) \/ RecvStart(v)
           \/ Reset(v) \/ SendRun(v)
  BY <1>1, <1>3 DEF TalkInit, SendPing, RecvPong, Handshake, SetCount, SenderNegotiate,
     ReceiverNegotiate, SendStart, RecvStart, Reset, SendRun, At
<1>4. CASE \/ RecvRun(v) \/ SendEnd(v) \/ RecvEnd(v) \/ Mark(v) \/ Return(v) \/ Decide(v)
           \/ Recount(v) \/ SendReport(v) \/ RecvReport(v) \/ SendFinish(v) \/ RecvFinish(v)
           \/ RecvReset(v) \/ SendReset(v)
  BY <1>1, <1>4 DEF RecvRun, SendEnd, RecvEnd, Mark, Return, Decide, Recount, SendReport,
     RecvReport, SendFinish, RecvFinish, RecvReset, SendReset, At
<1> QED
  BY <1>2, <1>3, <1>4 DEF Acts, Step

LEMMA DoneNext ==
  ASSUME TypeInv, TypeInv', InvRole, InvDone, [Next]_vars
  PROVE  InvDone'
<1>0. /\ alive \in [Sides -> {"running", "failed", "completed"}] /\ pc \in [Workers -> LabelSet]
      /\ \A s \in Sides, c \in Conns : <<s, c>> \in Workers /\ <<s, c>>[1] = s
  BY DEF TypeInv, CoreType, Workers
<1>1. ASSUME NEW v \in Workers, Acts(v)
      PROVE  InvDone'
  <2>1. /\ alive[v[1]] = "running" /\ v[1] \in Sides
        /\ UNCHANGED alive \/ alive' = [alive EXCEPT ![v[1]] = "failed"]
    BY <1>1, ActsRunning, PeerType DEF Running
  <2>2. Alone(v)
    BY <1>1, StepAlone
  <2>3. \A s \in Sides : alive'[s] = "completed" => alive[s] = "completed" /\ s # v[1]
    BY <1>0, <2>1
  <2>4. pc'[v] = "done" => loc'[v].phase = Phases
    <3>1. ASSUME Stays(v) \/ Closes(v)
          PROVE  pc'[v] = "done" => loc'[v].phase = Phases
      BY <1>1, <3>1, ClosesIs DEF Stays, InvDone
    <3>2. CASE Sender(v)
      <4>1. TalkerDoes(v)
        BY <1>1, <3>2, TalkerSteps
      <4> QED
        BY <3>1, <4>1 DEF TalkerDoes, Advances, TalkerMoves, Greeted, Offers, Gives, Learns,
                          Adopts
    <3>3. CASE ~Sender(v)
      <4>1. HearerDoes(v)
        BY <1>1, <3>3, HearerSteps
      <4> QED
        BY <3>1, <4>1
        DEF HearerDoes, Passes, PlainMoves, Greets, Accepts, Takes, Leaves, Stores
    <3> QED
      BY <3>2, <3>3
  <2> QED
    BY <1>0, <2>2, <2>3, <2>4 DEF InvDone, Alone
<1>2. ASSUME NEW s \in Sides, NEW b \in 0 .. 2, BarrierWait(s, b)
      PROVE  InvDone'
  <2>1. UNCHANGED <<alive, loc>> /\ alive[s] = "running"
    BY <1>2 DEF BarrierWait, Running
  <2>2. \A w \in Workers : pc[w] = "done" <=> pc'[w] = "done"
    <3> SUFFICES ASSUME NEW w \in Workers
                 PROVE  pc[w] = "done" <=> pc'[w] = "done"
      OBVIOUS
    <3> QED
      BY <1>2, BarrierLabels DEF AfterBarrier, GlobalLabels, DirLabels
  <2> QED
    BY <1>0, <2>1, <2>2 DEF InvDone
<1>3. ASSUME NEW s \in Sides, Complete(s)
      PROVE  InvDone'
  BY <1>0, <1>3 DEF Complete, InvDone
<1>4. ASSUME UNCHANGED <<pc, loc>>,
             UNCHANGED alive \/ \E s \in Sides : alive' = [alive EXCEPT ![s] = "failed"]
      PROVE  InvDone'
  BY <1>0, <1>4 DEF InvDone
<1>5. ASSUME NEW w \in Workers, Lose(w) \/ Duplicate(w)
      PROVE  InvDone'
  BY <1>4, <1>5 DEF Lose, Duplicate
<1> QED
  BY <1>1, <1>2, <1>3, <1>4, <1>5, NextCases

LEMMA ReportsSuffice == TypeInv /\ InvReports /\ InvDone => ReportAgreement
<1> SUFFICES ASSUME TypeInv, InvReports, InvDone, NEW c \in Conns, NEW d \in Dirs,
                    alive[SendingSide(d)] = "completed"
             PROVE  LET s == SendingSide(d)  sent == report[<<s, c>>][d] IN
                    /\ report[<<Other(s), c>>][d] = sent
                    /\ sent.recv <= sent.count
                    /\ timeouts = 0 => sent.recv = sent.count
  BY DEF ReportAgreement
<1> DEFINE y == Talker(d, c)
           z == Hearer(d, c)
           p == TalkOf(d, c)
<1>1. Pair(y, z, d, p) /\ PairOf(y, z, d, p)
  BY PairIs DEF InvReports
<1>2. SendingSide(d) \in Sides
  BY DEF Dirs, SendingSide, Sides
<1>3. pc[y] = "done"
  BY <1>2 DEF InvDone, Talker
<1> HIDE DEF y, z, p
<1>4. y \in Workers /\ z \in Workers /\ p \in {1, 2}
  BY <1>1 DEF Pair
<1>5. loc[y].phase = Phases /\ Phases \in {1, 2} /\ loc[z].phase \in 1 .. Phases
  BY <1>3, <1>4, PhaseType DEF InvDone
<1>6. report[z][d] = report[y][d] /\ Good(report[y][d])
  <2>1. CASE p <= Phases
    <3>1. Past(y, p)
      BY <1>3, <1>4, <1>5, <2>1 DEF Past
    <3> QED
      BY <1>1, <3>1 DEF PairOf, TalkerOf, HearerOf
  <2>2. CASE p > Phases
    <3>1. report[y][d] = NoReport /\ report[z][d] = NoReport
      BY <1>1, <1>4, <1>5, <2>2 DEF PairOf, TalkerOf, HearerOf
    <3> QED
      BY <3>1 DEF Good, NoReport
  <2> QED
    BY <1>4, <1>5, <2>1, <2>2
<1> QED
  BY <1>6 DEF Good, y, z, Talker, Hearer

LEMMA ReportsInvariance == Spec => [](InvReports /\ InvDone)
<1>1. Init => InvDone
  BY DEF Init, InvDone, Workers
<1>2. Inv /\ Inv' /\ InvReports /\ InvDone /\ [Next]_vars => (InvReports /\ InvDone)'
  BY ReportsNext, DoneNext DEF Inv, Together
<1> QED
  BY <1>1, <1>2, ReportsInit, Invariance, PTL DEF Spec

(* A process that completes a test reports, for every connection on which it sent,
   what the receiver's worker collected: the report that
   _talk_receiver_report_exchange() sent and _talk_sender_report_exchange() took
   over, of the last count both had negotiated; no more packets were received than
   sent, and all of them if no receive timed out.
   For any number of connections and packets, over TCP and UDP, and whatever
   datagrams are lost or come twice, receives time out and processes crash.   *)
THEOREM ReportsAgree == Spec => []ReportAgreement
<1>1. Inv /\ InvReports /\ InvDone => ReportAgreement
  BY ReportsSuffice DEF Inv
<1> QED
  BY <1>1, Invariance, ReportsInvariance, PTL

-----------------------------------------------------------------------------
(* The rounds of a talk. *)

(* The moves of a worker that begin no round, end no stream and end no talk. *)
RoundMoves ==
  {<<"init", "b_init">>, <<"ping", "pong">>, <<"pong", "ping">>, <<"pong", "b_count1">>,
   <<"setcount", "b_count2">>, <<"hs", "neg">>, <<"start", "b_reset">>, <<"reset", "b_start">>,
   <<"run", "b_end">>, <<"mark", "b_ret">>, <<"ret", "decide">>, <<"ret", "report">>,
   <<"decide", "report">>, <<"decide", "b_re1">>, <<"decide", "neg">>,
   <<"recount", "b_re2">>, <<"report", "finish">>, <<"finish", "done">>}
GoesOn(v) == /\ pc'[v] = pc[v] \/ <<pc[v], pc'[v]>> \in RoundMoves
             /\ loc'[v].phase = loc[v].phase /\ loc'[v].round = loc[v].round
             /\ loc'[v].weak = loc[v].weak
Begins(v) == /\ pc[v] = "neg" /\ pc'[v] = "start" /\ loc'[v].phase = loc[v].phase
             /\ loc'[v].round = loc[v].round + 1 /\ loc'[v].weak = loc[v].weak
Stops(v) == /\ pc[v] = "end" /\ pc'[v] = "b_mark" /\ loc'[v].phase = loc[v].phase
            /\ loc'[v].round = loc[v].round
Turns(v) == /\ pc[v] = "finish" /\ pc'[v] = "b_init" /\ loc'[v].phase = loc[v].phase + 1
            /\ loc'[v].round = 0 /\ loc'[v].weak = loc[v].weak

LEMMA RoundStep ==
  ASSUME TypeInv, InvRole, NEW v \in Workers, Acts(v)
  PROVE  GoesOn(v) \/ Begins(v) \/ Stops(v) \/ Turns(v)
<1>1. ASSUME Stays(v) \/ Passes(v) \/ Advances(v)
      PROVE  GoesOn(v)
  BY <1>1 DEF Stays, Passes, Advances, PlainMoves, TalkerMoves, GoesOn, RoundMoves
<1>2. ASSUME Greets(v) \/ Takes(v) \/ Leaves(v) \/ Greeted(v) \/ Gives(v) \/ Adopts(v)
      PROVE  GoesOn(v)
  BY <1>2 DEF Greets, Takes, Leaves, Greeted, Gives, Adopts, Becomes, GoesOn, RoundMoves
<1>3. ASSUME Accepts(v) \/ Offers(v)
      PROVE  Begins(v)
  BY <1>3 DEF Accepts, Offers, Becomes, Begins
<1>4. ASSUME Stores(v) \/ Learns(v)
      PROVE  Stops(v)
  BY <1>4 DEF Stores, Learns, Becomes, Stops
<1>5. ASSUME Closes(v)
      PROVE  GoesOn(v) \/ Turns(v)
  BY <1>5, ClosesIs DEF GoesOn, Turns, RoundMoves
<1>6. CASE Sender(v)
  BY <1>1, <1>2, <1>3, <1>4, <1>5, <1>6, TalkerSteps DEF TalkerDoes
<1>7. CASE ~Sender(v)
  BY <1>1, <1>2, <1>3, <1>4, <1>5, <1>7, HearerSteps DEF HearerDoes
<1> QED
  BY <1>6, <1>7

(* What the workers of a pair say to each other when they begin a round, ... *)
Starting(w) == Readable(w) /\ Consume(w) /\ Got(w).op = "START"
Counting(w) == Readable(w) /\ Consume(w) /\ Got(w).op = "COUNT"
Ends == {"END", "ENDWEAK"}
Stopping(w) == /\ Readable(w) /\ Consume(w) /\ Got(w).op \in Ends
               /\ loc'[w].weak = (Got(w).op = "ENDWEAK")

LEMMA EventSteps ==
  ASSUME TypeInv, NEW w \in Workers, Acts(w)
  PROVE  /\ pc[w] = "neg" /\ pc'[w] = "start" => 
              (Sender(w) /\ SenderNegotiate(w)) \/ (~Sender(w) /\ Counting(w))
         /\ pc[w] = "start" /\ pc'[w] = "b_reset" =>
              (Sender(w) /\ Starting(w)) \/ (~Sender(w) /\ SendStart(w))
         /\ pc[w] = "end" /\ pc'[w] = "b_mark" =>
              (Sender(w) /\ Stopping(w)) \/ (~Sender(w) /\ SendEnd(w))
<1>0. loc \in [Workers -> LocalType] /\ pc \in [Workers -> LabelSet]
  BY DEF TypeInv, CoreType
<1>1. ASSUME Exit(w) \/ FailReceived(w) \/ Fail(w, chan)
      PROVE  pc'[w] = pc[w]
  BY <1>1 DEF FailReceived, Fail, Exit
<1>2. CASE pc[w] = "neg" /\ pc'[w] = "start"
  <2>1. SenderNegotiate(w) \/ ReceiverNegotiate(w) \/ RecvReset(w) \/
          RecvTimeout(w) \/ SendReset(w)
    BY <1>2 DEF Acts, Step, TalkInit, SendPing, RecvPong, Handshake, SetCount, SendStart,
                RecvStart,
       Reset, SendRun, RecvRun, SendEnd, RecvEnd, Mark, Return, Decide, Recount, SendReport,
       RecvReport, SendFinish, RecvFinish, At
  <2>2. CASE RecvReset(w) \/ RecvTimeout(w) \/ SendReset(w)
    BY <1>1, <1>2, <2>2 DEF RecvReset, RecvTimeout, SendReset
  <2>3. CASE SenderNegotiate(w)
    BY <1>2, <2>3 DEF SenderNegotiate
  <2>4. CASE ReceiverNegotiate(w)
    BY <1>1, <1>2, <2>4 DEF ReceiverNegotiate, Counting
  <2> QED
    BY <1>2, <2>1, <2>2, <2>3, <2>4
<1>3. CASE pc[w] = "start" /\ pc'[w] = "b_reset"
  <2>1. SendStart(w) \/ RecvStart(w) \/ RecvReset(w) \/ RecvTimeout(w) \/ SendReset(w)
    BY <1>3 DEF Acts, Step, TalkInit, SendPing, RecvPong, Handshake, SetCount, SenderNegotiate,
       ReceiverNegotiate,
       Reset, SendRun, RecvRun, SendEnd, RecvEnd, Mark, Return, Decide, Recount, SendReport,
       RecvReport, SendFinish, RecvFinish, At
  <2>2. CASE RecvReset(w) \/ RecvTimeout(w) \/ SendReset(w)
    BY <1>1, <1>3, <2>2 DEF RecvReset, RecvTimeout, SendReset
  <2>3. CASE SendStart(w)
    BY <1>3, <2>3 DEF SendStart
  <2>4. CASE RecvStart(w)
    BY <1>1, <1>3, <2>4 DEF RecvStart, Starting
  <2> QED
    BY <1>3, <2>1, <2>2, <2>3, <2>4
<1>4. CASE pc[w] = "end" /\ pc'[w] = "b_mark"
  <2>1. SendEnd(w) \/ RecvEnd(w) \/ RecvReset(w) \/ RecvTimeout(w) \/ SendReset(w)
    BY <1>4 DEF Acts, Step, TalkInit, SendPing, RecvPong, Handshake, SetCount, SenderNegotiate,
       ReceiverNegotiate, SendStart, RecvStart,
       Reset, SendRun, RecvRun, Mark, Return, Decide, Recount, SendReport,
       RecvReport, SendFinish, RecvFinish, At
  <2>2. CASE RecvReset(w) \/ RecvTimeout(w) \/ SendReset(w)
    BY <1>1, <1>4, <2>2 DEF RecvReset, RecvTimeout, SendReset
  <2>3. CASE SendEnd(w)
    BY <1>4, <2>3 DEF SendEnd
  <2>4. CASE RecvEnd(w)
    <3>1. CASE FailReceived(w)
      BY <1>1, <1>4, <3>1
    <3>2. CASE ~FailReceived(w)
      <4> DEFINE wk == Got(w).op = "ENDWEAK"
      <4>1. /\ Sender(w) /\ Readable(w) /\ Consume(w) /\ Got(w).op \in Ends
            /\ loc' = [loc EXCEPT ![w].weak = wk, ![w].i = 0]
        BY <2>4, <3>2 DEF RecvEnd, Ends
      <4> HIDE DEF wk
      <4>2. loc'[w].weak = wk
        BY <1>0, <4>1 DEF LocalType
      <4>3. loc'[w].weak = (Got(w).op = "ENDWEAK")
        BY ONLY <4>2, Zenon DEF wk
      <4>4. Stopping(w)
        BY <4>1, <4>3, Zenon DEF Stopping
      <4> QED
        BY <1>4, <4>1, <4>4
    <3> QED
      BY <3>1, <3>2
  <2> QED
    BY <1>4, <2>1, <2>2, <2>3, <2>4
<1> QED
  BY <1>2, <1>3, <1>4

(* The rounds of w that have begun for all of its side. *)
Base(w) == IF pc[w] \in {"start", "b_reset"} THEN loc[w].round - 1 ELSE loc[w].round
PreLabels == {"init", "b_init", "ping", "pong", "hs", "b_count1", "setcount", "b_count2"}

RoundOf(w) == /\ pc[w] \in PreLabels => loc[w].round = 0
              /\ pc[w] \notin PreLabels \cup {"neg"} => loc[w].round >= 1

(* The workers of a side are in the same round: it begins for all of them when
   they meet before the stream.                                               *)
InvBase ==
  /\ \A w \in Workers : RoundOf(w)
  /\ \A w, u \in Workers : w[1] = u[1] /\ loc[w].phase = loc[u].phase => Base(w) = Base(u)
  /\ \A w, u \in Workers : w[1] = u[1] /\ loc[w].phase > loc[u].phase => Base(u) >= 1

LEMMA BaseType ==
  ASSUME TypeInv, NEW w \in Workers
  PROVE  /\ loc[w].phase \in {1, 2} /\ loc[w].round \in Nat /\ loc[w].weak \in BOOLEAN
         /\ pc[w] \in LabelSet
         /\ RoundOf(w) => Base(w) \in Nat
<1>1. /\ loc[w] \in LocalType /\ pc[w] \in LabelSet /\ loc[w].phase \in 1 .. Phases
      /\ Phases \in {1, 2}
  BY PhaseType DEF TypeInv, CoreType
<1>2. loc[w].round \in Nat /\ loc[w].weak \in BOOLEAN /\ loc[w].phase \in {1, 2}
  BY <1>1 DEF LocalType
<1> QED
  BY <1>1, <1>2 DEF RoundOf, Base, PreLabels

(* What a step of a worker does to its round. *)
LEMMA BaseStep ==
  ASSUME TypeInv, InvRole, NEW v \in Workers, RoundOf(v), Acts(v)
  PROVE  /\ RoundOf(v)'
         /\ \/ loc'[v].phase = loc[v].phase /\ Base(v)' = Base(v)
            \/ Turns(v) /\ Base(v)' = 0 /\ Base(v) >= 1
<1>1. loc[v].round \in Nat /\ loc[v].phase \in {1, 2}
  BY BaseType
<1>2. CASE GoesOn(v)
  <2>1. CASE pc'[v] = pc[v]
    BY <1>2, <2>1 DEF GoesOn, RoundOf, Base
  <2>2. CASE <<pc[v], pc'[v]>> \in RoundMoves
    BY <1>2, <2>2 DEF GoesOn, RoundMoves, RoundOf, Base, PreLabels
  <2> QED
    BY <1>2, <2>1, <2>2 DEF GoesOn
<1>3. CASE Begins(v)
  BY <1>1, <1>3 DEF Begins, RoundOf, Base, PreLabels
<1>4. CASE Stops(v)
  BY <1>1, <1>4 DEF Stops, RoundOf, Base, PreLabels
<1>5. CASE Turns(v)
  BY <1>1, <1>5 DEF Turns, RoundOf, Base, PreLabels
<1> QED
  BY <1>2, <1>3, <1>4, <1>5, RoundStep

(* The moves of a worker that a barrier lets go. *)
BarrierPairs ==
  {<<"b_init", "ping">>, <<"b_init", "hs">>, <<"b_count1", "setcount">>,
   <<"b_count1", "b_count2">>, <<"b_count2", "neg">>, <<"b_reset", "reset">>,
   <<"b_start", "run">>, <<"b_end", "b_end2">>, <<"b_end", "end">>, <<"b_end2", "end">>,
   <<"b_mark", "mark">>, <<"b_ret", "ret">>, <<"b_re1", "recount">>, <<"b_re1", "b_re2">>,
   <<"b_re2", "neg">>}

(* What a barrier does to the round of a worker. *)
LEMMA BaseBarrier ==
  ASSUME TypeInv, NEW s \in Sides, NEW b \in 0 .. 2, BarrierWait(s, b), NEW v \in Workers,
         RoundOf(v)
  PROVE  /\ RoundOf(v)' /\ loc' = loc
         /\ pc'[v] = pc[v] \/ <<pc[v], pc'[v]>> \in BarrierPairs
         /\ \/ Base(v)' = Base(v) /\ ~(pc[v] = "b_reset" /\ pc'[v] = "reset")
            \/ pc[v] = "b_reset" /\ pc'[v] = "reset" /\ Base(v)' = Base(v) + 1
<1>1. loc[v].round \in Nat
  BY BaseType
<1>2. loc' = loc
  BY DEF BarrierWait
<1>3. CASE pc'[v] = pc[v]
  BY <1>2, <1>3 DEF RoundOf, Base
<1>4. CASE pc'[v] # pc[v]
  <2>1. /\ pc[v] \in GlobalLabels \cup DirLabels
        /\ \E serial \in BOOLEAN : pc'[v] = AfterBarrier(v, serial)
    BY <1>4, BarrierLabels
  <2>2. <<pc[v], pc'[v]>> \in BarrierPairs
    BY <2>1 DEF AfterBarrier, GlobalLabels, DirLabels, BarrierPairs
  <2> QED
    BY <1>1, <1>2, <2>1, <2>2 DEF BarrierPairs, RoundOf, Base, PreLabels
<1> QED
  BY <1>3, <1>4

LEMMA BaseNext ==
  ASSUME TypeInv, TypeInv', Together, InvBase, [Next]_vars
  PROVE  InvBase'
<1>0. /\ \A w \in Workers : RoundOf(w) /\ Base(w) \in Nat /\
           loc[w].phase \in {1, 2} /\ w[1] \in Sides
      /\ InvRole
  BY BaseType, PeerType DEF InvBase, Together
<1>1. ASSUME NEW v \in Workers, Acts(v)
      PROVE  InvBase'
  <2>1. /\ RoundOf(v)'
        /\ \/ loc'[v].phase = loc[v].phase /\ Base(v)' = Base(v)
           \/ Turns(v) /\ Base(v)' = 0 /\ Base(v) >= 1
    BY <1>0, <1>1, BaseStep
  <2>2. \A u \in Workers \ {v} : pc'[u] = pc[u] /\ loc'[u] = loc[u] /\ Base(u)' = Base(u)
    BY <1>1, StepAlone DEF Alone, Base
  <2>3. \A u \in Workers : RoundOf(u)'
    BY <1>0, <2>1, <2>2 DEF RoundOf
  <2>4. CASE loc'[v].phase = loc[v].phase /\ Base(v)' = Base(v)
    <3>1. \A u \in Workers : loc'[u].phase = loc[u].phase /\ Base(u)' = Base(u)
      BY <2>2, <2>4
    <3> QED
      BY <2>3, <3>1 DEF InvBase
  <2>5. CASE Turns(v) /\ Base(v)' = 0 /\ Base(v) >= 1
    <3>1. loc[v].phase = 1 /\ loc'[v].phase = 2
      <4>1. loc'[v].phase = loc[v].phase + 1 /\ loc'[v].phase \in {1, 2}
        <5>1. loc'[v] \in LocalType /\ Phases \in {1, 2}
          BY DEF TypeInv, CoreType, Phases
        <5> QED
          BY <2>5, <5>1 DEF Turns, LocalType
      <4> QED
        BY <1>0, <4>1
    <3>2. ASSUME NEW u \in Workers, u # v, u[1] = v[1], loc'[u].phase = 2
          PROVE  Base(u)' = 0
      <4>1. loc[u].phase = 2
        BY <2>2, <3>2
      <4>2. pc[u] = "b_init"
        BY <3>1, <3>2, <4>1 DEF Together, InvPhase
      <4> QED
        BY <1>0, <2>2, <3>2, <4>2 DEF RoundOf, Base, PreLabels
    <3>3. ASSUME NEW u \in Workers, u[1] = v[1], loc[u].phase = 1
          PROVE  Base(u) >= 1
      BY <2>5, <3>1, <3>3 DEF InvBase
    <3>4. ASSUME NEW w \in Workers, NEW u \in Workers, w[1] = u[1], loc'[w].phase = loc'[u].phase
          PROVE  Base(w)' = Base(u)'
      <4>1. CASE w = v \/ u = v
        BY <2>5, <3>1, <3>2, <3>4, <4>1
      <4>2. CASE w # v /\ u # v
        BY <2>2, <3>4, <4>2 DEF InvBase
      <4> QED
        BY <4>1, <4>2
    <3>5. ASSUME NEW w \in Workers, NEW u \in Workers, w[1] = u[1], loc'[w].phase > loc'[u].phase
          PROVE  Base(u)' >= 1
      <4>1. u # v
        <5>1. CASE u = v
          <6>1. w # v
            BY <3>5, <5>1, <3>1
          <6>2. loc'[w].phase \in {1, 2}
            BY <1>0, <2>2, <6>1
          <6> QED
            BY <3>1, <3>5, <5>1, <6>2
        <5> QED
          BY <5>1
      <4>2. CASE w = v
        <5>1. loc[u].phase = 1
          BY <1>0, <2>2, <3>1, <3>5, <4>1, <4>2
        <5> QED
          BY <2>2, <3>3, <3>5, <4>1, <4>2, <5>1
      <4>3. CASE w # v
        BY <2>2, <3>5, <4>1, <4>3 DEF InvBase
      <4> QED
        BY <4>2, <4>3
    <3> QED
      BY <2>3, <3>4, <3>5 DEF InvBase
  <2> QED
    BY <2>1, <2>4, <2>5
<1>2. ASSUME NEW s \in Sides, NEW b \in 0 .. 2, BarrierWait(s, b)
      PROVE  InvBase'
  <2>1. \A v \in Workers :
          /\ RoundOf(v)' /\ loc' = loc
          /\ \/ Base(v)' = Base(v) /\ ~(pc[v] = "b_reset" /\ pc'[v] = "reset")
             \/ pc[v] = "b_reset" /\ pc'[v] = "reset" /\ Base(v)' = Base(v) + 1
    BY <1>0, <1>2, BaseBarrier
  <2>2. ASSUME NEW w \in Workers, NEW u \in Workers, w[1] = u[1],
               pc[w] = "b_reset" /\ pc'[w] = "reset"
        PROVE  pc[u] = "b_reset" /\ pc'[u] = "reset" /\ loc[u].phase = loc[w].phase
    <3>1. w \in WaitingAt(s, b)
      BY <1>2, <2>2 DEF BarrierWait
    <3>2. u \in Mates(w) /\ Mates(w) \subseteq WaitingAt(s, b)
      BY <1>2, <2>2, <3>1, WhoMeets DEF Mates, GlobalLabels
    <3>3. pc[u] = "b_reset" /\ loc[u].phase = loc[w].phase /\ u \in WaitingAt(s, b)
      BY <1>2, <2>2, <3>1, <3>2, WhoMeets
    <3>4. pc'[u] # pc[u]
      BY <1>2, <3>3 DEF BarrierWait, AfterBarrier
    <3> QED
      BY <1>0, <1>2, <3>3, <3>4, BaseBarrier DEF BarrierPairs
  <2>3. ASSUME NEW w \in Workers, NEW u \in Workers, w[1] = u[1], loc[w].phase = loc[u].phase
        PROVE  Base(w)' = Base(u)'
    <3>1. Base(w) = Base(u)
      BY <2>3 DEF InvBase
    <3> QED
      BY <2>1, <2>2, <2>3, <3>1
  <2>4. ASSUME NEW w \in Workers, NEW u \in Workers, w[1] = u[1], loc[w].phase > loc[u].phase
        PROVE  Base(u)' >= 1
    <3>1. Base(u) >= 1 /\ Base(u) \in Nat
      BY <1>0, <2>4 DEF InvBase
    <3> QED
      BY <2>1, <3>1
  <2> QED
    BY <2>1, <2>3, <2>4 DEF InvBase
<1>3. ASSUME UNCHANGED <<pc, loc>>
      PROVE  InvBase'
  BY <1>3 DEF InvBase, RoundOf, Base
<1>4. ASSUME NEW w \in Workers, Lose(w) \/ Duplicate(w)
      PROVE  InvBase'
  BY <1>3, <1>4 DEF Lose, Duplicate
<1> QED
  BY <1>1, <1>2, <1>3, <1>4, NextCases

-----------------------------------------------------------------------------
(* The verdict of a side. *)

WeakOf(S) == {u \in S : loc[u].weak}
AllWeak(w) == \A u \in Team(w) : loc[u].weak

(* All the streams of a direction of side s were weak: another round. *)
RestartFlags(s) == \E w \in Workers : w[1] = s /\ AllWeak(w)

(* Worker w goes for another round, or closes the talk. *)
Going(w) == pc[w] \in {"b_re1", "recount", "b_re2", "neg", "start", "b_reset"} /\ Base(w) >= 1
Closed(w) == pc[w] \in {"report", "finish", "done"} \/ (pc[w] = "b_init" /\ loc[w].phase > 1)

(* The marks stay exact until the next round is prepared, ... *)
MarksOf(w) == Stage(w) = "between" /\ Base(w) >= 1 =>
                /\ imWeak[w[1]][Dir(w)] = Cardinality(WeakOf(Team(w)))
                /\ weak[w[1]] = Cardinality(WeakOf(Mates(w)))

(* ... so that all the workers of a side come to the same verdict. *)
VerdictOf(w) == /\ Going(w) => RestartFlags(w[1])
                /\ Closed(w) => ~RestartFlags(w[1])
InvVerdict == \A w \in Workers : MarksOf(w) /\ VerdictOf(w)

LEMMA BetweenStage ==
  ASSUME NEW w, pc[w] \in {"ret", "decide", "b_re1", "recount", "b_re2", "neg", "start",
           "b_reset", "report", "finish", "done"} \/ (pc[w] = "b_init" /\ loc[w].phase # 1)
  PROVE  Stage(w) = "between"
BY DEF Stage, Section

(* The teams of a side, and how many they are. *)
LEMMA TeamIs ==
  ASSUME NEW w \in Workers
  PROVE  /\ w[1] \in Sides /\ w[2] \in Conns
         /\ ~Async => Team(w) = {w[1]} \X Conns
         /\ Async /\ w[2] \in ReverseConns => Team(w) = {w[1]} \X ReverseConns
         /\ Async /\ w[2] \notin ReverseConns => Team(w) = {w[1]} \X (Conns \ ReverseConns)
         /\ Mates(w) = {w[1]} \X Conns
<1>1. w[1] \in Sides /\ w[2] \in Conns
  BY DEF Workers
<1>2. \A u \in Workers : u = <<u[1], u[2]>> /\ u[1] \in Sides /\ u[2] \in Conns
  BY DEF Workers
<1>3. \A c \in Conns : <<w[1], c>> \in Workers /\ <<w[1], c>>[1] = w[1] /\ <<w[1], c>>[2] = c
  BY <1>1 DEF Workers
<1>4. ReverseConns \subseteq Conns
  BY TalkAssumption
<1>5. ASSUME NEW S \in SUBSET Conns, NEW T \in SUBSET Workers,
             \A u \in Workers : u \in T <=> u[1] = w[1] /\ u[2] \in S
      PROVE  T = {w[1]} \X S
  <2>1. \A u \in T : u \in {w[1]} \X S
    BY <1>2, <1>5
  <2>2. \A u \in {w[1]} \X S : u \in T
    BY <1>3, <1>5
  <2> QED
    BY <2>1, <2>2
<1>6. ~Async => Team(w) = {w[1]} \X Conns
  <2>1. ~Async => \A u \in Workers : u \in Team(w) <=> u[1] = w[1] /\ u[2] \in Conns
    BY <1>2 DEF Team
  <2> QED
    BY <1>5, <2>1 DEF Team
<1>7. Async /\ w[2] \in ReverseConns => Team(w) = {w[1]} \X ReverseConns
  <2>1. Async /\ w[2] \in ReverseConns =>
          \A u \in Workers : u \in Team(w) <=> u[1] = w[1] /\ u[2] \in ReverseConns
    BY DEF Team
  <2> QED
    BY <1>4, <1>5, <2>1 DEF Team
<1>8. Async /\ w[2] \notin ReverseConns => Team(w) = {w[1]} \X (Conns \ ReverseConns)
  <2>1. Async /\ w[2] \notin ReverseConns =>
          \A u \in Workers : u \in Team(w) <=> u[1] = w[1] /\ u[2] \in Conns \ ReverseConns
    BY <1>2 DEF Team
  <2> QED
    BY <1>5, <2>1 DEF Team
<1>9. Mates(w) = {w[1]} \X Conns
  <2>1. \A u \in Workers : u \in Mates(w) <=> u[1] = w[1] /\ u[2] \in Conns
    BY <1>2 DEF Mates
  <2> QED
    BY <1>5, <2>1 DEF Mates
<1> QED
  BY <1>1, <1>6, <1>7, <1>8, <1>9

LEMMA HalfOf ==
  ASSUME Async
  PROVE  /\ Cardinality(ReverseConns) = workerCount \div 2
         /\ Cardinality(Conns \ ReverseConns) = workerCount \div 2
         /\ ReverseConns # {} /\ Conns \ ReverseConns # {}
<1> DEFINE r == Cardinality(ReverseConns)
           t == Cardinality(Conns \ ReverseConns)
           n == Cardinality(Conns)
<1>1. /\ IsFiniteSet(Conns) /\ ReverseConns \subseteq Conns /\ 2 * r = n /\ Conns # {}
  BY TalkAssumption
<1>2. IsFiniteSet(ReverseConns) /\ r \in Nat /\ n \in Nat
  BY <1>1, FS_Subset, FS_CardinalityType
<1>3. IsFiniteSet(Conns \ ReverseConns) /\ t \in Nat
  BY <1>1, FS_Subset, FS_CardinalityType
<1>4. t = n - r
  <2>1. Conns \cap ReverseConns = ReverseConns
    BY <1>1
  <2> QED
    BY <1>1, <2>1, FS_Difference
<1>5. n # 0
  BY <1>1, FS_EmptySet
<1> HIDE DEF r, t, n
<1>6. r = n \div 2 /\ t = r /\ r # 0
  BY <1>1, <1>2, <1>3, <1>4, <1>5
<1>7. ReverseConns # {} /\ Conns \ ReverseConns # {}
  BY <1>6, FS_EmptySet DEF r, t
<1> QED
  BY <1>6, <1>7 DEF r, t, n, workerCount

(* All of a team is weak when as many are as the code compares with. *)
LEMMA TeamCounted ==
  ASSUME NEW w \in Workers
  PROVE  AllWeak(w) <=> Cardinality(WeakOf(Team(w))) = workerCount \div (IF Async THEN 2 ELSE 1)
<1>1. PICK S \in SUBSET Conns : /\ Team(w) = {w[1]} \X S
                                /\ Cardinality(S) = workerCount \div (IF Async THEN 2 ELSE 1)
  <2>1. CASE ~Async
    <3>1. Cardinality(Conns) \in Nat
      BY TalkAssumption, FS_CardinalityType
    <3>2. Cardinality(Conns) = workerCount \div 1
      BY <3>1 DEF workerCount
    <3> QED
      BY <2>1, <3>2, TeamIs
  <2>2. CASE Async
    BY <2>2, TeamIs, HalfOf, TalkAssumption
  <2> QED
    BY <2>1, <2>2
<1>2. w[1] \in Sides
  BY TeamIs
<1>3. WeakOf(Team(w)) \in SUBSET ({w[1]} \X S)
  BY <1>1 DEF WeakOf
<1>4. ASSUME AllWeak(w)
      PROVE  Cardinality(WeakOf(Team(w))) = Cardinality(S)
  <2>1. WeakOf(Team(w)) = {w[1]} \X S
    BY <1>1, <1>4 DEF AllWeak, WeakOf
  <2> QED
    BY <1>2, <2>1, MatesFinite
<1>5. ASSUME Cardinality(WeakOf(Team(w))) = Cardinality(S)
      PROVE  AllWeak(w)
  <2>1. WeakOf(Team(w)) = {w[1]} \X S
    BY <1>2, <1>3, <1>5, AllOfThem
  <2> QED
    BY <1>1, <2>1 DEF AllWeak, WeakOf
<1> QED
  BY <1>1, <1>4, <1>5

(* The predicate that decides on another round is the abstract one. *)
LEMMA RestartIs ==
  ASSUME TypeInv, Together, InvBase, InvVerdict, NEW w \in Workers, pc[w] = "decide"
  PROVE  NeedsRestart(w) <=> RestartFlags(w[1])
<1>1. Stage(w) = "between" /\ Base(w) >= 1
  BY BetweenStage DEF InvBase, RoundOf, Base, PreLabels
<1>2. CASE ~Async
  <2>1. imWeak[w[1]][Dir(w)] = Cardinality(WeakOf(Team(w)))
    BY <1>1 DEF InvVerdict, MarksOf
  <2>2. workerCount \div 1 = workerCount
    <3>1. workerCount \in Nat
      BY TalkAssumption, FS_CardinalityType DEF workerCount
    <3> QED
      BY <3>1
  <2>3. NeedsRestart(w) <=> AllWeak(w)
    BY <1>2, <2>1, <2>2, TeamCounted DEF NeedsRestart
  <2>4. ASSUME NEW u \in Workers, u[1] = w[1]
        PROVE  Team(u) = Team(w)
    BY <1>2, <2>4, TeamIs
  <2> QED
    BY <2>3, <2>4 DEF RestartFlags, AllWeak
<1>3. CASE Async
  <2>1. ASSUME NEW u \in Workers, u[1] = w[1]
        PROVE  imWeak[w[1]][Dir(u)] = workerCount \div 2 <=> AllWeak(u)
    <3>1. loc[u].phase = 1 /\ loc[w].phase = 1
      BY <1>3, PhaseType
    <3>2. Stage(u) = "between" /\ Base(u) = Base(w)
      BY <1>1, <2>1, <3>1 DEF Together, InvStage, InvBase
    <3>3. imWeak[u[1]][Dir(u)] = Cardinality(WeakOf(Team(u)))
      BY <1>1, <3>2 DEF InvVerdict, MarksOf
    <3> QED
      BY <1>3, <2>1, <3>3, TeamCounted
  <2>2. ASSUME NEW d \in Dirs
        PROVE  \E u \in Workers : u[1] = w[1] /\ Dir(u) = d
    <3>1. PICK c \in Conns : c \in ReverseConns <=> d = 1
      BY <1>3, <2>2, HalfOf, TalkAssumption
    <3> DEFINE u == <<w[1], c>>
    <3>2. u \in Workers /\ u[1] = w[1] /\ u[2] = c
      BY TeamIs DEF Workers
    <3> HIDE DEF u
    <3>3. loc[u].phase = 1
      BY <1>3, <3>2, PhaseType
    <3>4. Dir(u) \in {0, 1} /\ (Dir(u) = 1 <=> (u[2] \in ReverseConns <=> loc[u].phase = 1))
      BY DirIs
    <3>5. Dir(u) = d
      BY <3>1, <3>2, <3>3, <3>4 DEF Dirs
    <3> QED
      BY <3>2, <3>5
  <2>3. \A u \in Workers : Dir(u) \in Dirs
    BY DirType
  <2> QED
    BY <1>3, <2>1, <2>2, <2>3 DEF NeedsRestart, RestartFlags
<1> QED
  BY <1>2, <1>3

LEMMA NobodyWeak ==
  ASSUME NEW w \in Workers, Cardinality(WeakOf(Mates(w))) = 0
  PROVE  ~RestartFlags(w[1])
<1>1. IsFiniteSet(WeakOf(Mates(w)))
  BY MatesAreFinite DEF WeakOf
<1>2. WeakOf(Mates(w)) = {}
  BY <1>1, FS_EmptySet
<1>3. ASSUME NEW u \in Workers, u[1] = w[1], AllWeak(u)
      PROVE  FALSE
  BY <1>2, <1>3, TeamsAndMates DEF AllWeak, WeakOf, Mates
<1> QED
  BY <1>3 DEF RestartFlags

-----------------------------------------------------------------------------
(* The flags of a side change only at the end of a stream. *)
FlagsKept(s) == \A u \in Workers : u[1] = s => loc'[u].weak = loc[u].weak

LEMMA FlagsSame ==
  ASSUME NEW s, FlagsKept(s)
  PROVE  RestartFlags(s)' <=> RestartFlags(s)
<1>1. \A w \in Workers : w[1] = s => Team(w) \subseteq Workers /\ \A u \in Team(w) : u[1] = s
  BY DEF Team
<1>2. \A w \in Workers : Team(w)' = Team(w)
  BY DEF Team
<1>3. \A w \in Workers : w[1] = s => (AllWeak(w)' <=> AllWeak(w))
  BY <1>1, <1>2 DEF AllWeak, FlagsKept
<1> QED
  BY <1>3 DEF RestartFlags

LEMMA WeakSame ==
  ASSUME NEW w \in Workers, FlagsKept(w[1])
  PROVE  WeakOf(Team(w))' = WeakOf(Team(w)) /\ WeakOf(Mates(w))' = WeakOf(Mates(w))
<1>1. Team(w) \subseteq Workers /\ \A u \in Team(w) : u[1] = w[1]
  BY DEF Team
<1>2. Mates(w) \subseteq Workers /\ \A u \in Mates(w) : u[1] = w[1]
  BY DEF Mates
<1>3. Team(w)' = Team(w) /\ Mates(w)' = Mates(w)
  BY DEF Team, Mates
<1> QED
  BY <1>1, <1>2, <1>3 DEF WeakOf, FlagsKept

(* Between two rounds nobody touches the flags, nor the marks. *)
LEMMA BetweenKept ==
  ASSUME TypeInv, Together, [Next]_vars, NEW w \in Workers, Stage(w) = "between"
  PROVE  /\ FlagsKept(w[1])
         /\ weak'[w[1]] = weak[w[1]] /\ imWeak'[w[1]] = imWeak[w[1]]
<1>0. /\ \A u \in Workers : u[1] = w[1] => Stage(u) = "between"
      /\ w[1] \in Sides /\ InvRole
      /\ weak \in [Sides -> Nat] /\ imWeak \in [Sides -> [Dirs -> Nat]]
  BY PeerType DEF Together, InvStage, TypeInv, CoreType
<1>1. CASE Quiet
  BY <1>1 DEF Quiet, MarksKept, Kept, FlagsKept
<1>2. ASSUME NEW v \in Workers, Kinds(v)
      PROVE  /\ FlagsKept(w[1])
             /\ weak'[w[1]] = weak[w[1]] /\ imWeak'[w[1]] = imWeak[w[1]]
  <2>1. CASE Move(v)
    BY <2>1 DEF Move, MarksKept, Kept, FlagsKept
  <2>2. CASE Turn(v)
    BY <2>2 DEF Turn, MarksKept, Kept, FlagsKept
  <2>3. CASE Judge(v)
    <3>1. v[1] # w[1]
      BY <1>0, <2>3, StageOf DEF Judge
    <3> QED
      BY <2>3, <3>1 DEF Judge, MarksKept, Kept, FlagsKept
  <2>4. CASE TalkInit(v) \/ Reset(v) \/ Mark(v)
    <3>1. v[1] # w[1] /\ v[1] \in Sides
      BY <1>0, <2>4, StageOf, PeerType DEF TalkInit, Reset, Mark, At
    <3>2. UNCHANGED loc
      BY <2>4 DEF TalkInit, Reset, Mark
    <3>3. weak'[w[1]] = weak[w[1]] /\ imWeak'[w[1]] = imWeak[w[1]]
      BY <1>0, <2>4, <3>1 DEF TalkInit, Reset, Mark
    <3> QED
      BY <3>2, <3>3 DEF FlagsKept
  <2> QED
    BY <1>2, <2>1, <2>2, <2>3, <2>4 DEF Kinds
<1>3. ASSUME NEW s \in Sides, NEW b \in 0 .. 2, BarrierWait(s, b)
      PROVE  /\ FlagsKept(w[1])
             /\ weak'[w[1]] = weak[w[1]] /\ imWeak'[w[1]] = imWeak[w[1]]
  BY <1>3 DEF BarrierWait, shared, FlagsKept
<1> QED
  BY <1>0, <1>1, <1>2, <1>3, NextKinds

LateLabels == {"neg", "start", "b_reset", "b_re2", "report", "finish", "done"}

(* How a worker comes to where the verdict counts. *)
CameFrom(w) ==
  /\ pc'[w] \in LateLabels =>
       /\ loc'[w].phase = loc[w].phase /\ Base(w)' = Base(w)
       /\ \/ pc[w] \in {"ret", "decide", "b_re1", "recount"} \cup LateLabels
          \/ pc[w] \in {"hs", "b_count2"} /\ pc'[w] = "neg" /\ Base(w)' = 0
  /\ Going(w)' => \/ Going(w)
                  \/ pc[w] = "decide" /\ Decide(w) /\ pc'[w] # "report"
  /\ Closed(w)' => \/ Closed(w)
                   \/ pc[w] = "decide" /\ Decide(w) /\ pc'[w] = "report"
                   \/ pc[w] = "ret" /\ Return(w) /\ pc'[w] = "report"

LEMMA DecideSteps ==
  ASSUME TypeInv, NEW w \in Workers, Acts(w)
  PROVE  /\ pc[w] = "decide" /\ pc'[w] # "decide" => Decide(w)
         /\ pc[w] = "ret" /\ pc'[w] # "ret" => Return(w)
<1>1. pc[w] \in {"decide", "ret"} =>
        Decide(w) \/ Return(w) \/ RecvReset(w) \/ RecvTimeout(w) \/ SendReset(w)
  BY DEF Acts, Step, TalkInit, SendPing, RecvPong, Handshake, SetCount, SenderNegotiate,
     ReceiverNegotiate, SendStart, RecvStart,
     Reset, SendRun, RecvRun, SendEnd, RecvEnd, Mark, Recount, SendReport,
     RecvReport, SendFinish, RecvFinish, At
<1>2. pc[w] \in {"decide", "ret"} => ~Receiving(w) /\ ~Sending(w)
  BY DEF Receiving, Sending
<1> QED
  BY <1>1, <1>2 DEF Decide, Return, RecvReset, RecvTimeout, SendReset, At

LEMMA CameFromSame ==
  ASSUME NEW w, pc'[w] = pc[w], loc'[w] = loc[w]
  PROVE  CameFrom(w)
BY DEF CameFrom, Going, Closed, Base

LEMMA CameFromIs ==
  ASSUME TypeInv, Together, InvBase, [Next]_vars, NEW w \in Workers
  PROVE  CameFrom(w)
<1>0. InvRole /\ RoundOf(w) /\ loc[w].round \in Nat /\ loc[w].phase \in {1, 2}
  BY BaseType DEF Together, InvBase
<1>1. ASSUME NEW v \in Workers, Acts(v)
      PROVE  CameFrom(w)
  <2>1. CASE v # w
    BY <1>1, <2>1, StepAlone, CameFromSame DEF Alone
  <2>2. CASE v = w
    <3>1. /\ \/ loc'[w].phase = loc[w].phase /\ Base(w)' = Base(w)
             \/ Turns(w) /\ Base(w)' = 0 /\ Base(w) >= 1
      BY <1>0, <1>1, <2>2, BaseStep
    <3>2. /\ pc[w] = "decide" /\ pc'[w] # "decide" => Decide(w)
          /\ pc[w] = "ret" /\ pc'[w] # "ret" => Return(w)
      BY <1>1, <2>2, DecideSteps
    <3>3. CASE GoesOn(w)
      <4>1. loc'[w].phase = loc[w].phase /\ loc'[w].round = loc[w].round
        BY <3>3 DEF GoesOn
      <4>2. Base(w)' = Base(w)
        BY <3>1, <3>3, <4>1, <1>0 DEF GoesOn, Turns
      <4>3. CASE pc'[w] = pc[w]
        BY <4>1, <4>2, <4>3 DEF CameFrom, Going, Closed
      <4>4. CASE <<pc[w], pc'[w]>> \in RoundMoves
        <5>1. pc'[w] = "neg" /\ pc[w] = "hs" => Base(w)' = 0
          BY <1>0, <4>2 DEF RoundOf, Base, PreLabels
        <5>2. /\ pc'[w] \in LateLabels =>
                   \/ pc[w] \in {"ret", "decide", "b_re1", "recount"} \cup LateLabels
                   \/ pc[w] \in {"hs", "b_count2"} /\ pc'[w] = "neg" /\ Base(w)' = 0
          BY <4>4, <5>1 DEF RoundMoves, LateLabels
        <5>3. Going(w)' => Going(w) \/ (pc[w] = "decide" /\ Decide(w) /\ pc'[w] # "report")
          <6> SUFFICES ASSUME Going(w)'
                       PROVE  Going(w) \/ (pc[w] = "decide" /\ Decide(w) /\ pc'[w] # "report")
            OBVIOUS
          <6>1. /\ pc'[w] \in {"b_re1", "recount", "b_re2", "neg", "start", "b_reset"}
                /\ Base(w)' >= 1 /\ Base(w)' # 0
            BY DEF Going
          <6> QED
            BY <3>2, <4>2, <4>4, <5>1, <6>1 DEF Going, RoundMoves
        <5>4. Closed(w)' => \/ Closed(w)
                            \/ pc[w] = "decide" /\ Decide(w) /\ pc'[w] = "report"
                            \/ pc[w] = "ret" /\ Return(w) /\ pc'[w] = "report"
          <6>1. pc'[w] = "b_init" => loc'[w].phase = 1
            BY <1>0, <4>1, <4>4 DEF RoundMoves, InvRole
          <6> QED
            BY <3>2, <4>1, <4>4, <6>1 DEF Closed, RoundMoves
        <5> QED
          BY <4>1, <4>2, <5>2, <5>3, <5>4 DEF CameFrom
      <4> QED
        BY <3>3, <4>3, <4>4 DEF GoesOn
    <3>4. CASE Begins(w)
      BY <1>0, <3>4 DEF Begins, CameFrom, Going, Closed, Base, LateLabels
    <3>5. CASE Stops(w)
      BY <1>0, <3>5 DEF Stops, CameFrom, Going, Closed, Base, LateLabels
    <3>6. CASE Turns(w)
      BY <1>0, <3>6 DEF Turns, CameFrom, Going, Closed, Base, LateLabels
    <3> QED
      BY <1>0, <1>1, <2>2, <3>3, <3>4, <3>5, <3>6, RoundStep
  <2> QED
    BY <2>1, <2>2
<1>2. ASSUME NEW s \in Sides, NEW b \in 0 .. 2, BarrierWait(s, b)
      PROVE  CameFrom(w)
  <2>1. /\ loc' = loc
        /\ pc'[w] = pc[w] \/ <<pc[w], pc'[w]>> \in BarrierPairs
    BY <1>0, <1>2, BaseBarrier
  <2>2. CASE pc'[w] = pc[w]
    BY <2>1, <2>2, CameFromSame
  <2>3. CASE <<pc[w], pc'[w]>> \in BarrierPairs
    <3>1. pc[w] = "b_count2" => loc[w].round = 0
      BY <1>0 DEF RoundOf, PreLabels
    <3> QED
      BY <1>0, <2>1, <2>3, <3>1 DEF BarrierPairs, CameFrom, Going, Closed, Base, LateLabels
  <2> QED
    BY <2>1, <2>2, <2>3
<1>3. ASSUME UNCHANGED <<pc, loc>>
      PROVE  CameFrom(w)
  BY <1>3, CameFromSame
<1>4. ASSUME NEW v \in Workers, Lose(v) \/ Duplicate(v)
      PROVE  CameFrom(w)
  BY <1>3, <1>4 DEF Lose, Duplicate
<1> QED
  BY <1>1, <1>2, <1>3, <1>4, NextCases

LEMMA VerdictNext ==
  ASSUME TypeInv, TypeInv', Together, Together', MarkInv', InvBase, InvBase', InvVerdict,
         [Next]_vars,
         NEW w \in Workers
  PROVE  MarksOf(w)' /\ VerdictOf(w)'
<1>0. CameFrom(w) /\ RoundOf(w) /\ RoundOf(w)' /\ InvRole
  BY CameFromIs DEF InvBase, Together
<1>1. ASSUME Stage(w) = "between"
      PROVE  /\ FlagsKept(w[1])
             /\ weak'[w[1]] = weak[w[1]] /\ imWeak'[w[1]] = imWeak[w[1]]
             /\ RestartFlags(w[1])' <=> RestartFlags(w[1])
  BY <1>1, BetweenKept, FlagsSame
<1>2. MarksOf(w)'
  <2> SUFFICES ASSUME Stage(w)' = "between", Base(w)' >= 1
               PROVE  /\ imWeak'[w[1]][Dir(w)'] = Cardinality(WeakOf(Team(w))')
                      /\ weak'[w[1]] = Cardinality(WeakOf(Mates(w))')
    BY DEF MarksOf
  <2>1. pc'[w] \notin PreLabels /\ ~(Base(w)' = 0)
    BY <1>0 DEF RoundOf, Base, PreLabels
  <2>2. CASE pc'[w] \in {"ret", "decide", "b_re1", "recount"}
    BY <2>2 DEF MarkInv, InvMarks, WeakOf
  <2>3. CASE pc'[w] \in LateLabels
    <3>1. /\ pc[w] \in {"ret", "decide", "b_re1", "recount"} \cup LateLabels
          /\ loc'[w].phase = loc[w].phase /\ Base(w)' = Base(w)
      BY <1>0, <2>1, <2>3 DEF CameFrom
    <3>2. Stage(w) = "between"
      BY <3>1, BetweenStage DEF LateLabels
    <3>3. /\ imWeak[w[1]][Dir(w)] = Cardinality(WeakOf(Team(w)))
          /\ weak[w[1]] = Cardinality(WeakOf(Mates(w)))
      BY <3>1, <3>2 DEF InvVerdict, MarksOf
    <3>4. Dir(w)' = Dir(w)
      BY <3>1 DEF Dir
    <3>5. WeakOf(Team(w))' = WeakOf(Team(w)) /\ WeakOf(Mates(w))' = WeakOf(Mates(w))
      BY <1>1, <3>2, WeakSame
    <3> QED
      BY <1>1, <3>2, <3>3, <3>4, <3>5
  <2>4. pc'[w] \in {"ret", "decide", "b_re1", "recount"} \cup LateLabels
    <3>1. pc'[w] \in LabelSet
      BY DEF TypeInv, CoreType
    <3> QED
      BY <2>1, <3>1 DEF LabelSet, PreLabels, LateLabels, HandshakeLabels, GlobalLabels, DirLabels,
         Stage, Section
  <2> QED
    BY <2>2, <2>3, <2>4
<1>3. VerdictOf(w)'
  <2>1. ASSUME Going(w)'
        PROVE  RestartFlags(w[1])'
    <3>1. CASE Going(w)
      <4>1. Stage(w) = "between"
        BY <3>1, BetweenStage DEF Going
      <4> QED
        BY <1>1, <3>1, <4>1 DEF InvVerdict, VerdictOf
    <3>2. CASE pc[w] = "decide" /\ Decide(w) /\ pc'[w] # "report"
      <4>1. Stage(w) = "between"
        BY <3>2, BetweenStage
      <4>2. NeedsRestart(w)
        BY <3>2 DEF Decide, Goto, TypeInv, CoreType
      <4> QED
        BY <1>1, <3>2, <4>1, <4>2, RestartIs
    <3> QED
      BY <1>0, <2>1, <3>1, <3>2 DEF CameFrom
  <2>2. ASSUME Closed(w)'
        PROVE  ~RestartFlags(w[1])'
    <3>1. CASE Closed(w)
      <4>1. Stage(w) = "between"
        <5>1. loc[w].phase \in {1, 2}
          BY BaseType
        <5> QED
          BY <3>1, <5>1, BetweenStage DEF Closed
      <4> QED
        BY <1>1, <3>1, <4>1 DEF InvVerdict, VerdictOf
    <3>2. CASE pc[w] = "decide" /\ Decide(w) /\ pc'[w] = "report"
      <4>1. Stage(w) = "between"
        BY <3>2, BetweenStage
      <4>2. ~NeedsRestart(w)
        BY <3>2 DEF Decide, Goto, TypeInv, CoreType
      <4> QED
        BY <1>1, <3>2, <4>1, <4>2, RestartIs
    <3>3. CASE pc[w] = "ret" /\ Return(w) /\ pc'[w] = "report"
      <4>1. Stage(w) = "between" /\ Base(w) >= 1
        BY <1>0, <3>3, BetweenStage DEF RoundOf, Base, PreLabels
      <4>2. ~(weak[w[1]] > 0) /\ weak[w[1]] \in Nat
        BY <3>3, PeerType DEF Return, Goto, TypeInv, CoreType
      <4>3. Cardinality(WeakOf(Mates(w))) = 0
        BY <4>1, <4>2 DEF InvVerdict, MarksOf
      <4> QED
        BY <1>1, <4>1, <4>3, NobodyWeak
    <3> QED
      BY <1>0, <2>2, <3>1, <3>2, <3>3 DEF CameFrom
  <2> QED
    BY <2>1, <2>2 DEF VerdictOf
<1> QED
  BY <1>2, <1>3

LEMMA VerdictInit == Init => InvBase /\ InvVerdict
<1> SUFFICES ASSUME Init
             PROVE  InvBase /\ InvVerdict
  OBVIOUS
<1>1. \A w \in Workers : pc[w] = "init" /\ loc[w].phase = 1 /\ loc[w].round = 0 /\ ~loc[w].weak
  BY DEF Init
<1>2. InvBase
  BY <1>1 DEF InvBase, RoundOf, Base, PreLabels
<1>3. InvVerdict
  BY <1>1 DEF InvVerdict, MarksOf, VerdictOf, Going, Closed, Base
<1> QED
  BY <1>2, <1>3

-----------------------------------------------------------------------------
(* What a pair has on the wire, over TCP. *)

Has(q, ops) == \E i \in DOMAIN q : q[i][1].op \in ops
Once(q, ops) == \A i, j \in DOMAIN q : q[i][1].op \in ops /\ q[j][1].op \in ops => i = j

(* Segment i of u after a step of v was there before, k places further back, or
   is the body or, at place f, the header of what v sent.                     *)
Old(u, k, i) == i + k \in DOMAIN chan[u] /\ chan'[u][i] = chan[u][i + k]
Fresh(u, v, k, f) ==
  \A i \in DOMAIN chan'[u] :
    \/ Old(u, k, i)
    \/ u = Peer(v) /\ chan'[u][i][1].op = "body"
    \/ u = Peer(v) /\ i = f /\ Says(v, chan'[u][i][1].op)

LEMMA SameFresh ==
  ASSUME TypeInv, NEW u \in Workers, NEW v, chan'[u] = chan[u]
  PROVE  Fresh(u, v, 0, 0)
<1>1. DOMAIN chan[u] = 1 .. Len(chan[u]) /\ Len(chan[u]) \in Nat
  BY LenProperties DEF TypeInv, Wire
<1> QED
  BY <1>1 DEF Fresh, Old

LEMMA DropFresh ==
  ASSUME TypeInv, NEW u \in Workers, NEW v, NEW k \in Nat, chan'[u] = Drop(chan, u, k)[u]
  PROVE  Fresh(u, v, k, 0)
<1>1. \A i \in DOMAIN Drop(chan, u, k)[u] :
        i + k \in DOMAIN chan[u] /\ Drop(chan, u, k)[u][i] = chan[u][i + k]
  BY DropIs DEF TypeInv
<1> QED
  BY <1>1 DEF Fresh, Old

LEMMA TcpWire ==
  ASSUME ~Udp, TypeInv, NEW v \in Workers, Acts(v), NEW u \in Workers
  PROVE  \E k \in Nat, f \in Nat : Fresh(u, v, k, f)
<1>0. Peer(v) \in Workers /\ Peer(v) # v /\ chan \in Wire
  BY PeerType DEF TypeInv
<1>1. CASE UNCHANGED chan
  BY <1>1, SameFresh
<1>2. CASE Listens(v)
  <2>1. PICK k \in Nat : chan' = Drop(chan, v, k)
    BY <1>2 DEF Listens
  <2>2. CASE u = v
    BY <2>1, <2>2, DropFresh
  <2>3. CASE u # v
    <3>1. chan'[u] = chan[u]
      BY <1>0, <2>1, <2>3, DropIs
    <3> QED
      BY <3>1, SameFresh
  <2> QED
    BY <2>2, <2>3
<1>3. ASSUME NEW op \in Ops, NEW n \in Nat, NEW r \in ReportType, Speaks(v, op, n, r), Says(v, op)
      PROVE  \E k \in Nat, f \in Nat : Fresh(u, v, k, f)
  <2>1. PICK k \in Nat : chan' = Put(Drop(chan, v, k), v, Packet(v, op, n, r))
    BY <1>3 DEF Speaks
  <2> DEFINE mid == Drop(chan, v, k)
             new == Segments(Packet(v, op, n, r))
  <2>2. mid \in Wire /\ mid[v] = Drop(chan, v, k)[v] /\ \A x \in Workers \ {v} : mid[x] = chan[x]
    BY <1>0, DropIs, DropType
  <2>3. IsPut(mid, v, new, chan')
    BY <2>1, <2>2, PutIs
  <2>4. \A j \in 1 .. Len(new) : new[j][1].op = "body" \/ (j = 1 /\ new[j][1].op = op)
    <3>1. UnitsOf(v) \in {1, 2}
      BY DEF UnitsOf
    <3>2. Unit(op, n, NoReport).op = op /\ Unit("body", 0, r).op = "body"
      BY DEF Unit
    <3>3. /\ UnitsOf(v) = 1 => Len(new) = 1 /\ new[1] = <<Unit(op, n, NoReport)>>
          /\ UnitsOf(v) = 2 => /\ Len(new) = 2 /\ new[1] = <<Unit(op, n, NoReport)>>
                               /\ new[2] = <<Unit("body", 0, r)>>
      BY SegmentsIs
    <3> HIDE DEF new
    <3> QED
      BY <3>1, <3>2, <3>3
  <2> HIDE DEF mid, new
  <2>5. CASE u = v
    <3>1. chan'[v] = Drop(chan, v, k)[v]
      BY <1>0, <2>2, <2>3 DEF IsPut
    <3> QED
      BY <2>5, <3>1, DropFresh
  <2>6. CASE u # v /\ u # Peer(v)
    <3>1. chan'[u] = chan[u]
      BY <2>2, <2>3, <2>6 DEF IsPut
    <3> QED
      BY <3>1, SameFresh
  <2>7. CASE u = Peer(v)
    <3>0. mid[u] = chan[u]
      BY <1>0, <2>2, <2>7
    <3>1. /\ DOMAIN chan'[u] = 1 .. Len(chan'[u])
          /\ DOMAIN chan[u] = 1 .. Len(chan[u])
          /\ Len(new) \in {1, 2} /\ Len(chan'[u]) = Len(chan[u]) + Len(new)
          /\ Len(chan[u]) \in Nat
          /\ \A i \in DOMAIN chan[u] : i \in DOMAIN chan'[u] /\ chan'[u][i] = chan[u][i]
          /\ \A i \in 1 .. Len(new) : chan'[u][Len(chan[u]) + i] = new[i]
      BY <2>3, <2>7, <3>0 DEF IsPut
    <3>2. ASSUME NEW i \in DOMAIN chan'[u]
          PROVE  \/ Old(u, 0, i)
                 \/ chan'[u][i][1].op = "body"
                 \/ i = Len(chan[u]) + 1 /\ Says(v, chan'[u][i][1].op)
      <4>1. i \in Nat /\ i >= 1 /\ i <= Len(chan[u]) + Len(new)
        BY <3>1
      <4>2. CASE i <= Len(chan[u])
        <5>1. i \in DOMAIN chan[u] /\ i + 0 = i
          BY <3>1, <4>1, <4>2
        <5> QED
          BY <3>1, <5>1 DEF Old
      <4>3. CASE ~(i <= Len(chan[u]))
        <5>1. PICK j \in 1 .. Len(new) : i = Len(chan[u]) + j
          <6>1. i - Len(chan[u]) \in 1 .. Len(new) /\ i = Len(chan[u]) + (i - Len(chan[u]))
            BY <3>1, <4>1, <4>3
          <6> QED
            BY <6>1
        <5>2. chan'[u][i] = new[j]
          BY <3>1, <5>1
        <5> QED
          BY <1>3, <2>4, <5>1, <5>2
      <4> QED
        BY <4>2, <4>3
    <3>3. Fresh(u, v, 0, Len(chan[u]) + 1)
      BY <2>7, <3>2 DEF Fresh
    <3> DEFINE f == Len(chan[u]) + 1
    <3>4. 0 \in Nat /\ f \in Nat
      BY <3>1
    <3>5. Fresh(u, v, 0, f)
      BY <3>3
    <3> HIDE DEF f
    <3> QED
      BY <3>4, <3>5
  <2> QED
    BY <2>5, <2>6, <2>7
<1> QED
  BY <1>1, <1>2, <1>3, WireStep

(* Nothing of ops was sent to u. *)
LEMMA NoNews ==
  ASSUME ~Udp, TypeInv, TypeInv', NEW v \in Workers, Acts(v), NEW u \in Workers,
         NEW ops, "body" \notin ops, \A op \in ops : u = Peer(v) => ~Says(v, op)
  PROVE  /\ \A i \in DOMAIN chan'[u] : chan'[u][i][1].op \in ops =>
              \E j \in DOMAIN chan[u] : chan[u][j] = chan'[u][i]
         /\ Has(chan[u], ops)' => Has(chan[u], ops)
         /\ Once(chan[u], ops) => Once(chan[u], ops)'
<1>1. PICK k \in Nat, f \in Nat : Fresh(u, v, k, f)
  BY TcpWire
<1>2. \A i \in DOMAIN chan'[u] : i \in Nat
  BY LenProperties DEF TypeInv, Wire
<1>3. ASSUME NEW i \in DOMAIN chan'[u], chan'[u][i][1].op \in ops
      PROVE  i + k \in DOMAIN chan[u] /\ chan'[u][i] = chan[u][i + k]
  BY <1>1, <1>3 DEF Fresh, Old
<1>4. Has(chan[u], ops)' => Has(chan[u], ops)
  <2>1. ASSUME NEW i \in DOMAIN chan'[u], chan'[u][i][1].op \in ops
        PROVE  \E j \in DOMAIN chan[u] : chan[u][j][1].op \in ops
    BY <1>3, <2>1
  <2> QED
    BY <2>1 DEF Has
<1>5. ASSUME Once(chan[u], ops), NEW i \in DOMAIN chan'[u], NEW j \in DOMAIN chan'[u],
             chan'[u][i][1].op \in ops, chan'[u][j][1].op \in ops
      PROVE  i = j
  <2>1. i + k = j + k
    BY <1>3, <1>5 DEF Once
  <2> QED
    BY <1>2, <1>5, <2>1
<1>6. Once(chan[u], ops) => Once(chan[u], ops)'
  BY <1>5 DEF Once
<1> QED
  BY <1>3, <1>4, <1>6

(* Nothing of ops was on its way: one at most is now. *)
LEMMA News ==
  ASSUME ~Udp, TypeInv, TypeInv', NEW v \in Workers, Acts(v), NEW u \in Workers,
         NEW ops, "body" \notin ops, ~Has(chan[u], ops)
  PROVE  Once(chan[u], ops)'
<1>1. PICK k \in Nat, f \in Nat : Fresh(u, v, k, f)
  BY TcpWire
<1>2. ASSUME NEW i \in DOMAIN chan'[u], chan'[u][i][1].op \in ops
      PROVE  i = f
  BY <1>1, <1>2 DEF Fresh, Old, Has
<1> QED
  BY <1>2 DEF Once

(* The one that was on its way has been read. *)
LEMMA Taken ==
  ASSUME ~Udp, TypeInv, TypeInv', NEW u \in Workers, Readable(u), Consume(u),
         NEW ops, Got(u).op \in ops, Once(chan[u], ops)
  PROVE  Has(chan[u], ops) /\ ~Has(chan[u], ops)' /\ 1 \in DOMAIN chan[u]
<1> DEFINE k == Needed(u)
<1>0. k \in Nat /\ k >= 1 /\ Len(chan[u]) >= k
  BY DEF Needed, UnitsOf, Readable
<1>1. chan'[u] = Drop(chan, u, k)[u]
  BY DEF Consume
<1> HIDE DEF k
<1>2. /\ DOMAIN chan[u] = 1 .. Len(chan[u]) /\ Len(chan[u]) \in Nat
      /\ DOMAIN chan'[u] = 1 .. Len(chan'[u]) /\ Len(chan'[u]) \in Nat
      /\ \A i \in DOMAIN chan'[u] : i + k \in DOMAIN chan[u] /\ chan'[u][i] = chan[u][i + k]
  BY <1>0, <1>1, DropIs DEF TypeInv
<1>3. 1 \in DOMAIN chan[u] /\ chan[u][1][1].op \in ops
  BY <1>0, <1>2 DEF Got
<1>4. ASSUME NEW i \in DOMAIN chan'[u], chan'[u][i][1].op \in ops
      PROVE  FALSE
  <2>1. i + k \in DOMAIN chan[u] /\ chan[u][i + k][1].op \in ops
    BY <1>2, <1>4
  <2>2. i + k = 1
    BY <1>3, <2>1 DEF Once
  <2>3. i \in Nat /\ i >= 1
    BY <1>2
  <2> QED
    BY <1>0, <2>2, <2>3
<1> QED
  BY <1>3, <1>4 DEF Has

-----------------------------------------------------------------------------
(* The rounds of a pair. *)

In(w, p) == loc[w].phase = p
Over(w, p) == loc[w].phase > p

(* The rounds of talk p that w has begun, those whose stream it has been allowed
   to start, and those whose stream has ended for it.                         *)
Rnd(w, p) == IF In(w, p) THEN loc[w].round ELSE 0
Starts(w, p) == IF ~In(w, p) THEN 0
                ELSE IF pc[w] = "start" THEN loc[w].round - 1 ELSE loc[w].round
Stopped(w, p) == IF ~In(w, p) THEN 0
                 ELSE IF pc[w] \in RoundLabels THEN loc[w].round - 1 ELSE loc[w].round

(* Those whose rounds are the rounds of w in talk p: when w has left the talk
   already, the workers of its side that have not.                            *)
Rep(w, p) == IF Over(w, p) THEN {u \in Mates(w) : In(u, p)} ELSE {w}

SameNums(m, u, p) == /\ Rnd(u, p)' = Rnd(m, p) /\ Starts(u, p)' = Starts(m, p)
                     /\ Stopped(u, p)' = Stopped(m, p)

LEMMA NumType ==
  ASSUME TypeInv, InvBase, NEW w \in Workers, NEW p
  PROVE  /\ Rnd(w, p) \in Nat /\ Starts(w, p) \in Nat /\ Stopped(w, p) \in Nat
         /\ Starts(w, p) <= Rnd(w, p) /\ Rnd(w, p) <= Starts(w, p) + 1
         /\ Stopped(w, p) <= Rnd(w, p) /\ Rnd(w, p) <= Stopped(w, p) + 1
<1>1. loc[w].round \in Nat /\ RoundOf(w)
  BY BaseType DEF InvBase
<1>2. pc[w] \in RoundLabels \cup {"start"} => loc[w].round >= 1
  BY <1>1 DEF RoundOf, RoundLabels, PreLabels
<1>3. (IF pc[w] = "start" THEN loc[w].round - 1 ELSE loc[w].round) \in Nat
  BY <1>1, <1>2
<1> QED
  BY <1>1, <1>2 DEF Rnd, Starts, Stopped, RoundLabels

Settled(w) == pc[w] \in {"ret", "decide", "report", "finish", "done"}

(* Whoever leaves a talk leaves workers behind that will begin no round of it. *)
LEMMA OverWaits ==
  ASSUME TypeInv, Together, InvBase, InvVerdict, NEW w \in Workers, NEW u \in Workers,
         u[1] = w[1], NEW p \in {1, 2}, In(u, p), Over(w, p) \/ (In(w, p) /\ pc[w] = "finish")
  PROVE  Settled(u) /\ Base(u) >= 1 /\ (Over(w, p) => pc[w] = "b_init")
<1>0. /\ RoundOf(w) /\ RoundOf(u) /\ loc[w].phase \in {1, 2} /\ loc[u].phase \in {1, 2}
      /\ pc[u] \in LabelSet
  BY BaseType DEF InvBase
<1>1. Over(w, p) => pc[w] = "b_init"
  BY DEF Over, In, Together, InvPhase
<1>2. Closed(w) /\ Stage(w) = "between"
  <2>1. CASE Over(w, p)
    <3>1. pc[w] = "b_init" /\ loc[w].phase > 1 /\ loc[w].phase # 1
      BY <1>0, <1>1, <2>1 DEF Over
    <3> QED
      BY <3>1, BetweenStage DEF Closed
  <2>2. CASE pc[w] = "finish"
    BY <2>2, BetweenStage DEF Closed
  <2> QED
    BY <2>1, <2>2
<1>3. Base(u) >= 1
  <2>1. CASE Over(w, p)
    BY <2>1 DEF Over, In, InvBase
  <2>2. CASE In(w, p) /\ pc[w] = "finish"
    <3>1. Base(w) = Base(u)
      BY <2>2 DEF In, InvBase
    <3> QED
      BY <1>0, <2>2, <3>1 DEF RoundOf, Base, PreLabels
  <2> QED
    BY <2>1, <2>2
<1>4. Stage(u) = "between"
  BY <1>2 DEF Together, InvStage
<1>5. ~Going(u)
  BY <1>2 DEF InvVerdict, VerdictOf
<1>6. pc[u] \notin PreLabels
  BY <1>0, <1>3 DEF RoundOf, Base, PreLabels
<1>7. pc[u] \notin {"reset", "b_start", "run", "b_end", "b_end2", "end", "b_mark",
                    "mark", "b_ret"}
  BY <1>4, StageOf
<1> QED
  BY <1>0, <1>1, <1>3, <1>5, <1>6, <1>7 DEF LabelSet, HandshakeLabels, GlobalLabels, DirLabels,
     PreLabels, Going, Settled

LEMMA SettledNums ==
  ASSUME NEW u, NEW p, In(u, p), Settled(u)
  PROVE  Rnd(u, p) = Base(u) /\ Starts(u, p) = Base(u) /\ Stopped(u, p) = Base(u)
BY DEF Rnd, Starts, Stopped, Base, Settled, RoundLabels

(* The steps by which the numbers of a worker change. *)
Event(v) == Begins(v) \/ Stops(v) \/ (GoesOn(v) /\ pc[v] = "start" /\ pc'[v] = "b_reset")

LEMMA GoesOnNums ==
  ASSUME TypeInv, NEW v \in Workers, GoesOn(v), ~Event(v), NEW p
  PROVE  SameNums(v, v, p)
<1>1. /\ loc'[v].phase = loc[v].phase /\ loc'[v].round = loc[v].round
      /\ pc[v] = "start" <=> pc'[v] = "start"
      /\ pc[v] \in RoundLabels <=> pc'[v] \in RoundLabels
  BY DEF GoesOn, Event, RoundMoves, RoundLabels
<1> QED
  BY <1>1 DEF SameNums, Rnd, Starts, Stopped, In

LEMMA RepKept ==
  ASSUME TypeInv, TypeInv', Together, InvBase, InvVerdict, NEW v \in Workers, Acts(v),
         NEW w \in Workers, NEW p \in {1, 2}, ~(v = w /\ In(w, p) /\ Event(w)),
         NEW u \in Rep(w, p)'
  PROVE  \E m \in Rep(w, p) :
           /\ SameNums(m, u, p)
           /\ loc'[w].weak = loc[w].weak \/ Stopped(m, p) = 0
<1>0. /\ loc[w].phase \in {1, 2} /\ loc[v].phase \in {1, 2} /\ InvRole /\ RoundOf(w)
      /\ \A x \in Workers \ {v} : pc'[x] = pc[x] /\ loc'[x] = loc[x]
      /\ \A x \in Workers \ {v} : SameNums(x, x, p)
  BY StepAlone, BaseType DEF Alone, SameNums, Rnd, Starts, Stopped, In, Together, InvBase
<1>1. \A x \in Workers : loc'[x].phase \in {1, 2}
  <2>1. \A x \in Workers : loc'[x] \in LocalType /\ Phases \in {1, 2}
    BY DEF TypeInv, CoreType, Phases
  <2> QED
    BY <2>1 DEF LocalType
<1>2. GoesOn(v) \/ Begins(v) \/ Stops(v) \/ Turns(v)
  BY <1>0, RoundStep
<1>3. CASE Over(w, p)
  <2>1. p = 1 /\ loc[w].phase = 2
    BY <1>0, <1>3 DEF Over
  <2>2. loc'[w].phase = 2
    <3>1. CASE v = w
      BY <1>1, <1>2, <2>1, <3>1 DEF GoesOn, Begins, Stops, Turns
    <3>2. CASE v # w
      BY <1>0, <2>1, <3>2
    <3> QED
      BY <3>1, <3>2
  <2>3. u \in Workers /\ u[1] = w[1] /\ loc'[u].phase = 1
    BY <2>1, <2>2 DEF Rep, Over, In, Mates
  <2>4. loc[u].phase = 1
    <3>1. CASE v = u
      BY <1>0, <1>2, <2>3, <3>1 DEF GoesOn, Begins, Stops, Turns
    <3>2. CASE v # u
      BY <1>0, <2>3, <3>2
    <3> QED
      BY <3>1, <3>2
  <2>5. u \in Rep(w, p)
    BY <1>3, <2>1, <2>3, <2>4 DEF Rep, In, Mates
  <2>6. Settled(u) /\ pc[w] = "b_init"
    BY <1>3, <2>1, <2>3, <2>4, OverWaits DEF In
  <2>7. SameNums(u, u, p)
    <3>1. CASE v = u
      <4>1. GoesOn(v) /\ ~Event(v)
        <5>1. ~Turns(v)
          BY <2>3, <2>4, <3>1 DEF Turns
        <5> QED
          BY <1>2, <2>6, <3>1, <5>1 DEF Settled, Begins, Stops, Event
      <4> QED
        BY <3>1, <4>1, GoesOnNums
    <3>2. CASE v # u
      BY <1>0, <2>3, <3>2
    <3> QED
      BY <3>1, <3>2
  <2>8. loc'[w].weak = loc[w].weak
    BY <1>0, <1>2, <2>6 DEF GoesOn, Begins, Stops, Turns
  <2> QED
    BY <2>5, <2>7, <2>8
<1>4. CASE ~Over(w, p)
  <2>1. Rep(w, p) = {w}
    BY <1>4 DEF Rep
  <2>2. CASE v # w
    <3>1. u = w /\ loc'[w] = loc[w] /\ SameNums(w, w, p)
      BY <1>0, <1>4, <2>2 DEF Rep, Over
    <3> QED
      BY <2>1, <3>1
  <2>3. CASE v = w /\ ~In(w, p)
    <3>1. loc[w].phase = 1 /\ p = 2
      BY <1>0, <1>4, <2>3 DEF Over, In
    <3>2. u = w
      BY <1>1, <3>1 DEF Rep, Over
    <3>3. /\ Rnd(w, p) = 0 /\ Starts(w, p) = 0 /\ Stopped(w, p) = 0
      BY <2>3 DEF Rnd, Starts, Stopped
    <3>4. /\ Rnd(w, p)' = 0 /\ Starts(w, p)' = 0 /\ Stopped(w, p)' = 0
      <4>1. CASE Turns(w)
        BY <4>1 DEF Turns, Rnd, Starts, Stopped, RoundLabels
      <4>2. CASE ~Turns(w)
        <5>1. loc'[w].phase = 1
          BY <1>2, <2>3, <3>1, <4>2 DEF GoesOn, Begins, Stops
        <5> QED
          BY <3>1, <5>1 DEF Rnd, Starts, Stopped, In
      <4> QED
        BY <4>1, <4>2
    <3> QED
      BY <2>1, <3>2, <3>3, <3>4 DEF SameNums
  <2>4. CASE v = w /\ In(w, p) /\ GoesOn(w)
    <3>1. SameNums(w, w, p) /\ loc'[w].weak = loc[w].weak
      BY <2>4, GoesOnNums DEF GoesOn
    <3>2. u = w
      BY <1>4, <2>4 DEF GoesOn, Rep, Over
    <3> QED
      BY <2>1, <3>1, <3>2
  <2>5. CASE v = w /\ In(w, p) /\ Turns(w)
    <3>1. /\ loc[w].phase = p /\ loc'[w].phase = p + 1 /\ pc[w] = "finish"
          /\ loc'[w].weak = loc[w].weak
      BY <2>5 DEF Turns, In
    <3>2. u \in Workers /\ u[1] = w[1] /\ loc'[u].phase = p
      BY <3>1 DEF Rep, Over, In, Mates
    <3>3. u # w /\ In(u, p)
      BY <1>0, <2>5, <3>1, <3>2 DEF In
    <3>4. Settled(u) /\ Settled(w) /\ Base(u) = Base(w)
      BY <2>5, <3>1, <3>2, <3>3, OverWaits DEF Settled, In, InvBase
    <3>5. SameNums(u, u, p)
      BY <1>0, <2>5, <3>2, <3>3
    <3>6. SameNums(w, u, p)
      BY <2>5, <3>3, <3>4, <3>5, SettledNums DEF SameNums
    <3> QED
      BY <2>1, <3>1, <3>6
  <2> QED
    BY <1>2, <2>2, <2>3, <2>4, <2>5 DEF Event
<1> QED
  BY <1>3, <1>4

(* The end of a stream on its way to y says whether it was weak for z. *)
Told(y, z) == \A i \in DOMAIN chan[y] :
                chan[y][i][1].op \in Ends => (chan[y][i][1].op = "ENDWEAK" <=> loc[z].weak)

(* The receiver begins a round after the sender, the sender starts its stream,
   and learns of its end, after the receiver; what is on its way is what the one
   is behind.  When both have ended the same stream they agree about it.      *)
Level(y, z, m, k, p) ==
  /\ Rnd(k, p) <= Rnd(m, p) /\ (Has(chan[z], {"COUNT"}) => Rnd(k, p) < Rnd(m, p))
  /\ Starts(m, p) <= Starts(k, p) /\ (Has(chan[y], {"START"}) => Starts(m, p) < Starts(k, p))
  /\ Stopped(m, p) <= Stopped(k, p)
  /\ Has(chan[y], Ends) => Stopped(m, p) < Stopped(k, p) /\ Told(y, z)
  /\ Stopped(m, p) = Stopped(k, p) /\ Stopped(k, p) >= 1 => (loc[y].weak <=> loc[z].weak)

Single(y, z, p) == /\ ~Over(z, p) => Once(chan[z], {"COUNT"})
                   /\ ~Over(y, p) => Once(chan[y], {"START"}) /\ Once(chan[y], Ends)
PairsOf(y, z, p) == /\ Single(y, z, p)
                    /\ \A m \in Rep(y, p), k \in Rep(z, p) : Level(y, z, m, k, p)
InvPairs == \A c \in Conns, d \in Dirs : PairsOf(Talker(d, c), Hearer(d, c), TalkOf(d, c))

LEMMA SaysEvent ==
  ASSUME TypeInv, NEW v \in Workers
  PROVE  /\ Says(v, "COUNT") => Sender(v) /\ pc[v] = "neg" /\ pc'[v] = "start"
         /\ Says(v, "START") => ~Sender(v) /\ pc[v] = "start" /\ pc'[v] = "b_reset"
         /\ \A op \in Ends : Says(v, op) => ~Sender(v) /\ pc[v] = "end" /\ pc'[v] = "b_mark"
<1>1. pc \in [Workers -> LabelSet]
  BY DEF TypeInv, CoreType
<1>2. Says(v, "COUNT") => Sender(v) /\ pc[v] = "neg" /\ pc'[v] = "start"
  BY <1>1 DEF Says, SenderNegotiate, At, Goto
<1>3. Says(v, "START") => ~Sender(v) /\ pc[v] = "start" /\ pc'[v] = "b_reset"
  BY <1>1 DEF Says, SendStart, At, Goto
<1>4. \A op \in Ends : Says(v, op) => ~Sender(v) /\ pc[v] = "end" /\ pc'[v] = "b_mark"
  BY <1>1 DEF Says, SendEnd, At, Goto, Ends
<1> QED
  BY <1>2, <1>3, <1>4

(* Nothing new on the way: what was told stays told. *)
LEMMA StillTold ==
  ASSUME NEW y, NEW z, Told(y, z), loc'[z].weak = loc[z].weak,
         \A i \in DOMAIN chan'[y] : chan'[y][i][1].op \in Ends =>
              \E j \in DOMAIN chan[y] : chan[y][j] = chan'[y][i]
  PROVE  Told(y, z)'
<1> SUFFICES ASSUME NEW i \in DOMAIN chan'[y], chan'[y][i][1].op \in Ends
             PROVE  chan'[y][i][1].op = "ENDWEAK" <=> loc'[z].weak
  BY DEF Told
<1>1. PICK j \in DOMAIN chan[y] : chan[y][j] = chan'[y][i]
  OBVIOUS
<1> QED
  BY <1>1 DEF Told

LEMMA EndTold ==
  ASSUME ~Udp, TypeInv, TypeInv', NEW y, NEW z \in Workers, SendEnd(z), y = Peer(z),
         ~Has(chan[y], Ends)
  PROVE  Told(y, z)'
<1>0. loc \in [Workers -> LocalType] /\ chan \in Wire
  BY DEF TypeInv, CoreType
<1>1. PICK wk \in BOOLEAN :
        /\ Send(z, IF wk THEN "ENDWEAK" ELSE "END", 0, NoReport)
        /\ loc' = [loc EXCEPT ![z].weak = wk, ![z].i = 0]
  BY DEF SendEnd
<1> DEFINE op == IF wk THEN "ENDWEAK" ELSE "END"
           new == Segments(Packet(z, op, 0, NoReport))
<1>2. op \in Ops /\ op \in Ends /\ (op = "ENDWEAK" <=> wk)
  BY DEF Ops, Ends
<1>3. loc'[z].weak = wk
  BY <1>0, <1>1 DEF LocalType
<1>4. chan' = Put(chan, z, Packet(z, op, 0, NoReport))
  BY <1>1 DEF Send
<1> HIDE DEF op
<1>5. IsPut(chan, z, new, chan')
  BY <1>0, <1>2, <1>4, PutIs, NoReportType
<1>6. \A j \in 1 .. Len(new) : new[j][1].op = "body" \/ new[j][1].op = op
  <2>1. UnitsOf(z) \in {1, 2}
    BY DEF UnitsOf
  <2>2. Unit(op, 0, NoReport).op = op /\ Unit("body", 0, NoReport).op = "body"
    BY DEF Unit
  <2>3. /\ UnitsOf(z) = 1 => Len(new) = 1 /\ new[1] = <<Unit(op, 0, NoReport)>>
        /\ UnitsOf(z) = 2 => /\ Len(new) = 2 /\ new[1] = <<Unit(op, 0, NoReport)>>
                             /\ new[2] = <<Unit("body", 0, NoReport)>>
    BY <1>2, SegmentsIs, NoReportType
  <2> HIDE DEF new
  <2> QED
    BY <2>1, <2>2, <2>3
<1> HIDE DEF new
<1>7. /\ DOMAIN chan'[y] = 1 .. Len(chan'[y])
      /\ DOMAIN chan[y] = 1 .. Len(chan[y])
      /\ Len(new) \in {1, 2} /\ Len(chan'[y]) = Len(chan[y]) + Len(new) /\ Len(chan[y]) \in Nat
      /\ \A i \in DOMAIN chan[y] : i \in DOMAIN chan'[y] /\ chan'[y][i] = chan[y][i]
      /\ \A i \in 1 .. Len(new) : chan'[y][Len(chan[y]) + i] = new[i]
  BY <1>5 DEF IsPut
<1>8. ASSUME NEW i \in DOMAIN chan'[y], chan'[y][i][1].op \in Ends
      PROVE  chan'[y][i][1].op = op
  <2>1. i \in Nat /\ i >= 1 /\ i <= Len(chan[y]) + Len(new)
    BY <1>7
  <2>2. CASE i <= Len(chan[y])
    <3>1. i \in DOMAIN chan[y]
      BY <1>7, <2>1, <2>2
    <3> QED
      BY <1>7, <1>8, <3>1 DEF Has
  <2>3. CASE ~(i <= Len(chan[y]))
    <3>1. PICK j \in 1 .. Len(new) : i = Len(chan[y]) + j
      <4>1. i - Len(chan[y]) \in 1 .. Len(new) /\ i = Len(chan[y]) + (i - Len(chan[y]))
        BY <1>7, <2>1, <2>3
      <4> QED
        BY <4>1
    <3>2. chan'[y][i] = new[j]
      BY <1>7, <3>1
    <3> QED
      BY <1>6, <1>8, <3>1, <3>2 DEF Ends
  <2> QED
    BY <2>2, <2>3
<1> QED
  BY <1>2, <1>3, <1>8 DEF Told

(* Who sends what to the workers of a pair. *)
Still(u, ops) == /\ \A i \in DOMAIN chan'[u] : chan'[u][i][1].op \in ops =>
                      \E j \in DOMAIN chan[u] : chan[u][j] = chan'[u][i]
                 /\ Has(chan[u], ops)' => Has(chan[u], ops)
                 /\ Once(chan[u], ops) => Once(chan[u], ops)'

LEMMA PairStill ==
  ASSUME ~Udp, TypeInv, TypeInv', NEW v \in Workers, Acts(v),
         NEW y, NEW z, NEW d, NEW p, Pair(y, z, d, p)
  PROVE  /\ ~(v = y /\ In(y, p) /\ pc[v] = "neg" /\ pc'[v] = "start") => Still(z, {"COUNT"})
         /\ ~(v = z /\ In(z, p) /\ pc[v] = "start" /\ pc'[v] = "b_reset") => Still(y, {"START"})
         /\ ~(v = z /\ In(z, p) /\ pc[v] = "end" /\ pc'[v] = "b_mark") => Still(y, Ends)
<1>0. /\ y \in Workers /\ z \in Workers /\ Peer(y) = z /\ Peer(z) = y
      /\ Sender(y) <=> In(y, p)
      /\ ~Sender(z) <=> In(z, p)
  BY DEF Pair, In
<1>1. (z = Peer(v) => v = y) /\ (y = Peer(v) => v = z)
  BY <1>0, PeerOfPeer
<1>2. /\ Says(v, "COUNT") => Sender(v) /\ pc[v] = "neg" /\ pc'[v] = "start"
      /\ Says(v, "START") => ~Sender(v) /\ pc[v] = "start" /\ pc'[v] = "b_reset"
      /\ \A op \in Ends : Says(v, op) => ~Sender(v) /\ pc[v] = "end" /\ pc'[v] = "b_mark"
  BY SaysEvent
<1>3. ASSUME ~(v = y /\ In(y, p) /\ pc[v] = "neg" /\ pc'[v] = "start")
      PROVE  Still(z, {"COUNT"})
  <2>1. "body" \notin {"COUNT"} /\ \A op \in {"COUNT"} : z = Peer(v) => ~Says(v, op)
    BY <1>0, <1>1, <1>2, <1>3
  <2> QED
    BY <1>0, <2>1, NoNews DEF Still
<1>4. ASSUME ~(v = z /\ In(z, p) /\ pc[v] = "start" /\ pc'[v] = "b_reset")
      PROVE  Still(y, {"START"})
  <2>1. "body" \notin {"START"} /\ \A op \in {"START"} : y = Peer(v) => ~Says(v, op)
    BY <1>0, <1>1, <1>2, <1>4
  <2> QED
    BY <1>0, <2>1, NoNews DEF Still
<1>5. ASSUME ~(v = z /\ In(z, p) /\ pc[v] = "end" /\ pc'[v] = "b_mark")
      PROVE  Still(y, Ends)
  <2>1. "body" \notin Ends /\ \A op \in Ends : y = Peer(v) => ~Says(v, op)
    BY <1>0, <1>1, <1>2, <1>5 DEF Ends
  <2> QED
    BY <1>0, <2>1, NoNews DEF Still
<1> QED
  BY <1>3, <1>4, <1>5

(* A step changes the numbers of one worker of a pair at most. *)
LEMMA PairsQuiet ==
  ASSUME ~Udp, TypeInv, TypeInv', Together, InvBase, InvVerdict, NEW v \in Workers, Acts(v),
         NEW y, NEW z, NEW d, NEW p, Pair(y, z, d, p), PairsOf(y, z, p),
         ~(v = y /\ In(y, p) /\ Event(y)), ~(v = z /\ In(z, p) /\ Event(z))
  PROVE  PairsOf(y, z, p)'
<1>0. y \in Workers /\ z \in Workers /\ p \in {1, 2} /\ InvRole
  BY DEF Pair, Together
<1>1. /\ ~Over(y, p)' => ~Over(y, p)
      /\ ~Over(z, p)' => ~Over(z, p)
  <2>1. ASSUME NEW w \in Workers, Over(w, p)
        PROVE  Over(w, p)'
    <3>1. CASE w = v
      <4>1. loc[w].phase \in {1, 2}
        BY BaseType
      <4>2. loc'[w].phase = loc[w].phase \/ loc'[w].phase = loc[w].phase + 1
        BY <1>0, <3>1, RoundStep DEF GoesOn, Begins, Stops, Turns
      <4> QED
        BY <1>0, <2>1, <4>1, <4>2 DEF Over
    <3>2. CASE w # v
      BY <2>1, <3>2, StepAlone DEF Alone, Over
    <3> QED
      BY <3>1, <3>2
  <2> QED
    BY <1>0, <2>1
<1>2. GoesOn(v) \/ Begins(v) \/ Stops(v) \/ Turns(v)
  BY <1>0, RoundStep
<1>3. Still(z, {"COUNT"}) /\ Still(y, {"START"}) /\ Still(y, Ends)
  <2>1. pc[v] = "neg" /\ pc'[v] = "start" => Event(v)
    BY <1>2 DEF Event, GoesOn, Stops, Turns, RoundMoves
  <2>2. pc[v] = "start" /\ pc'[v] = "b_reset" => Event(v)
    BY <1>2 DEF Event, Begins, Stops, Turns
  <2>3. pc[v] = "end" /\ pc'[v] = "b_mark" => Event(v)
    BY <1>2 DEF Event, GoesOn, Begins, Turns, RoundMoves
  <2> QED
    BY <2>1, <2>2, <2>3, PairStill
<1>4. Single(y, z, p)'
  BY <1>1, <1>3 DEF Single, PairsOf, Still
<1>5. ASSUME NEW m \in Rep(y, p)', NEW k \in Rep(z, p)'
      PROVE  Level(y, z, m, k, p)'
  <2>1. PICK M \in Rep(y, p) : /\ SameNums(M, m, p)
                               /\ loc'[y].weak = loc[y].weak \/ Stopped(M, p) = 0
    BY <1>0, RepKept
  <2>2. PICK K \in Rep(z, p) : /\ SameNums(K, k, p)
                               /\ loc'[z].weak = loc[z].weak \/ Stopped(K, p) = 0
    BY <1>0, RepKept
  <2>3. Level(y, z, M, K, p)
    BY DEF PairsOf
  <2>4. /\ Rnd(m, p)' = Rnd(M, p) /\ Starts(m, p)' = Starts(M, p)
        /\ Stopped(m, p)' = Stopped(M, p)
        /\ Rnd(k, p)' = Rnd(K, p) /\ Starts(k, p)' = Starts(K, p)
        /\ Stopped(k, p)' = Stopped(K, p)
    BY <2>1, <2>2 DEF SameNums
  <2>5. M \in Workers /\ K \in Workers
    BY <1>0 DEF Rep, Mates
  <2>6. Stopped(M, p) \in Nat /\ Stopped(K, p) \in Nat
    BY <2>5, NumType
  <2>7. /\ Rnd(k, p)' <= Rnd(m, p)' /\ (Has(chan[z], {"COUNT"})' => Rnd(k, p)' < Rnd(m, p)')
        /\ Starts(m, p)' <= Starts(k, p)'
        /\ (Has(chan[y], {"START"})' => Starts(m, p)' < Starts(k, p)')
        /\ Stopped(m, p)' <= Stopped(k, p)'
    BY <1>3, <2>3, <2>4 DEF Level, Still
  <2>8. ASSUME Has(chan[y], Ends)'
        PROVE  Stopped(m, p)' < Stopped(k, p)' /\ Told(y, z)'
    <3>1. Stopped(M, p) < Stopped(K, p) /\ Told(y, z)
      BY <1>3, <2>3, <2>8 DEF Level, Still
    <3>2. loc'[z].weak = loc[z].weak
      BY <2>2, <2>6, <3>1
    <3>3. Told(y, z)'
      BY <1>3, <3>1, <3>2, StillTold DEF Still
    <3> QED
      BY <2>4, <3>1, <3>3
  <2>9. ASSUME Stopped(m, p)' = Stopped(k, p)', Stopped(k, p)' >= 1
        PROVE  loc'[y].weak <=> loc'[z].weak
    <3>1. /\ Stopped(M, p) = Stopped(K, p) /\ Stopped(K, p) >= 1 /\ Stopped(K, p) # 0
          /\ Stopped(M, p) # 0
      BY <2>4, <2>6, <2>9
    <3>2. loc[y].weak <=> loc[z].weak
      BY <2>3, <3>1 DEF Level
    <3> QED
      BY <2>1, <2>2, <3>1, <3>2
  <2> QED
    BY <2>7, <2>8, <2>9 DEF Level
<1> QED
  BY <1>4, <1>5 DEF PairsOf

(* What an event does to the numbers. *)
LEMMA EventNums ==
  ASSUME TypeInv, InvBase, NEW w \in Workers, NEW p, In(w, p), Event(w)
  PROVE  /\ In(w, p)' /\ Rep(w, p) = {w} /\ Rep(w, p)' = {w} /\ ~Over(w, p) /\ ~Over(w, p)'
         /\ Begins(w) => /\ Rnd(w, p)' = Rnd(w, p) + 1 /\ Starts(w, p)' = Starts(w, p)
                         /\ Stopped(w, p)' = Stopped(w, p) /\ Stopped(w, p) = Rnd(w, p)
                         /\ loc'[w].weak = loc[w].weak
         /\ Stops(w) => /\ Rnd(w, p)' = Rnd(w, p) /\ Starts(w, p)' = Starts(w, p)
                        /\ Stopped(w, p)' = Stopped(w, p) + 1 /\ Stopped(w, p) + 1 = Rnd(w, p)
         /\ GoesOn(w) => /\ Rnd(w, p)' = Rnd(w, p) /\ Starts(w, p)' = Starts(w, p) + 1
                         /\ Stopped(w, p)' = Stopped(w, p) /\ Starts(w, p) + 1 = Rnd(w, p)
                         /\ loc'[w].weak = loc[w].weak
<1>1. loc[w].round \in Nat /\ loc[w].phase \in {1, 2} /\ loc[w].phase = p
  BY BaseType DEF In
<1>2. loc'[w].phase = p
  BY <1>1 DEF Event, Begins, Stops, GoesOn
<1>3. /\ In(w, p)' /\ Rep(w, p) = {w} /\ Rep(w, p)' = {w} /\ ~Over(w, p) /\ ~Over(w, p)'
  BY <1>1, <1>2 DEF In, Rep, Over
<1>4. CASE Begins(w)
  BY <1>1, <1>2, <1>3, <1>4 DEF Begins, Stops, GoesOn, RoundMoves, Rnd, Starts, Stopped,
                                RoundLabels, In
<1>5. CASE Stops(w)
  BY <1>1, <1>2, <1>3, <1>5 DEF Begins, Stops, GoesOn, RoundMoves, Rnd, Starts, Stopped,
                                RoundLabels, In
<1>6. CASE GoesOn(w) /\ pc[w] = "start" /\ pc'[w] = "b_reset"
  BY <1>1, <1>2, <1>3, <1>6 DEF Begins, Stops, GoesOn, Rnd, Starts, Stopped, RoundLabels, In
<1> QED
  BY <1>4, <1>5, <1>6 DEF Event

LEMMA TalkerEvent ==
  ASSUME ~Udp, TypeInv, TypeInv', Together, InvBase, InvVerdict,
         NEW y, NEW z, NEW d, NEW p, Pair(y, z, d, p), PairsOf(y, z, p),
         Acts(y), In(y, p), Event(y)
  PROVE  PairsOf(y, z, p)'
<1>0. /\ y \in Workers /\ z \in Workers /\ y # z /\ p \in {1, 2} /\ InvRole /\ Sender(y)
  BY DEF Pair, Together, In
<1>1. pc'[z] = pc[z] /\ loc'[z] = loc[z] /\ (Over(z, p)' <=> Over(z, p))
  BY <1>0, StepAlone DEF Alone, Over
<1>2. /\ In(y, p)' /\ Rep(y, p) = {y} /\ Rep(y, p)' = {y} /\ ~Over(y, p) /\ ~Over(y, p)'
  BY <1>0, EventNums
<1>3. ASSUME NEW k \in Rep(z, p)'
      PROVE  \E K \in Rep(z, p) : SameNums(K, k, p)
  BY <1>0, <1>3, RepKept
<1>4. ASSUME NEW k \in Rep(z, p)
      PROVE  /\ Level(y, z, y, k, p) /\ Rnd(k, p) \in Nat /\ Starts(k, p) \in Nat
             /\ Stopped(k, p) \in Nat
  <2>1. k \in Workers
    BY <1>0, <1>4 DEF Rep, Mates
  <2> QED
    BY <1>2, <1>4, <2>1, NumType DEF PairsOf
<1>5. /\ Rnd(y, p) \in Nat /\ Starts(y, p) \in Nat /\ Stopped(y, p) \in Nat
  BY <1>0, NumType
<1>6. Single(y, z, p)
  BY DEF PairsOf
<1>7. Told(y, z) /\ Still(y, Ends) => Told(y, z)'
  BY <1>1, StillTold DEF Still
<1>8. CASE Begins(y)
  <2>1. /\ Rnd(y, p)' = Rnd(y, p) + 1 /\ Starts(y, p)' = Starts(y, p)
        /\ Stopped(y, p)' = Stopped(y, p) /\ Stopped(y, p) = Rnd(y, p)
        /\ loc'[y].weak = loc[y].weak
    BY <1>0, <1>8, EventNums
  <2>2. Still(y, {"START"}) /\ Still(y, Ends)
    BY <1>0, PairStill
  <2>3. ASSUME ~Over(z, p)
        PROVE  Once(chan[z], {"COUNT"})'
    <3>1. z \in Rep(z, p)
      BY <2>3 DEF Rep
    <3>2. Stopped(y, p) <= Stopped(z, p) /\ (Has(chan[z], {"COUNT"}) => Rnd(z, p) < Rnd(y, p))
      BY <1>4, <3>1 DEF Level
    <3>3. Stopped(z, p) <= Rnd(z, p) /\ Rnd(z, p) \in Nat /\ Stopped(z, p) \in Nat
      BY <1>0, NumType
    <3>4. ~Has(chan[z], {"COUNT"})
      BY <1>5, <2>1, <3>2, <3>3
    <3> QED
      BY <1>0, <3>4, News
  <2>4. Single(y, z, p)'
    BY <1>1, <1>2, <1>6, <2>2, <2>3 DEF Single, Still
  <2>5. ASSUME NEW k \in Rep(z, p)'
        PROVE  Level(y, z, y, k, p)'
    <3>1. PICK K \in Rep(z, p) : SameNums(K, k, p)
      BY <1>3, <2>5
    <3>2. Level(y, z, y, K, p) /\ Rnd(K, p) \in Nat
      BY <1>4
    <3>3. Rnd(K, p) < Rnd(y, p) + 1
      BY <1>5, <3>2 DEF Level
    <3> QED
      BY <1>1, <1>7, <2>1, <2>2, <3>1, <3>2, <3>3, <1>5 DEF Level, Still, SameNums
  <2> QED
    BY <1>2, <2>4, <2>5 DEF PairsOf
<1>9. CASE GoesOn(y) /\ pc[y] = "start" /\ pc'[y] = "b_reset"
  <2>1. /\ Rnd(y, p)' = Rnd(y, p) /\ Starts(y, p)' = Starts(y, p) + 1
        /\ Stopped(y, p)' = Stopped(y, p) /\ loc'[y].weak = loc[y].weak
    BY <1>0, <1>9, EventNums
  <2>2. Still(z, {"COUNT"}) /\ Still(y, Ends) /\ Still(y, {"START"})
    BY <1>0, <1>9, PairStill
  <2>3. Starting(y)
    BY <1>0, <1>9, EventSteps
  <2>4. Has(chan[y], {"START"}) /\ ~Has(chan[y], {"START"})'
    BY <1>0, <1>2, <1>6, <2>3, Taken DEF Starting, Single
  <2>5. Single(y, z, p)'
    BY <1>1, <1>2, <1>6, <2>2 DEF Single, Still
  <2>6. ASSUME NEW k \in Rep(z, p)'
        PROVE  Level(y, z, y, k, p)'
    <3>1. PICK K \in Rep(z, p) : SameNums(K, k, p)
      BY <1>3, <2>6
    <3>2. Level(y, z, y, K, p) /\ Starts(K, p) \in Nat
      BY <1>4
    <3>3. Starts(y, p) + 1 <= Starts(K, p)
      BY <1>5, <2>4, <3>2 DEF Level
    <3> QED
      BY <1>1, <1>7, <2>1, <2>2, <2>4, <3>1, <3>2, <3>3 DEF Level, Still, SameNums
  <2> QED
    BY <1>2, <2>5, <2>6 DEF PairsOf
<1>10. CASE Stops(y)
  <2>1. /\ Rnd(y, p)' = Rnd(y, p) /\ Starts(y, p)' = Starts(y, p)
        /\ Stopped(y, p)' = Stopped(y, p) + 1
    BY <1>0, <1>10, EventNums
  <2>2. Still(z, {"COUNT"}) /\ Still(y, Ends) /\ Still(y, {"START"})
    BY <1>0, <1>10, PairStill DEF Stops
  <2>3. Stopping(y)
    BY <1>0, <1>10, EventSteps DEF Stops
  <2>4. Has(chan[y], Ends) /\ ~Has(chan[y], Ends)' /\ 1 \in DOMAIN chan[y]
    BY <1>0, <1>2, <1>6, <2>3, Taken DEF Stopping, Single
  <2>5. Single(y, z, p)'
    BY <1>1, <1>2, <1>6, <2>2 DEF Single, Still
  <2>6. ASSUME NEW k \in Rep(z, p)'
        PROVE  Level(y, z, y, k, p)'
    <3>1. PICK K \in Rep(z, p) : SameNums(K, k, p)
      BY <1>3, <2>6
    <3>2. Level(y, z, y, K, p) /\ Stopped(K, p) \in Nat
      BY <1>4
    <3>3. Stopped(y, p) + 1 <= Stopped(K, p) /\ Told(y, z)
      BY <1>5, <2>4, <3>2 DEF Level
    <3>4. loc'[y].weak <=> loc'[z].weak
      <4>1. Got(y).op \in Ends /\ (loc'[y].weak <=> Got(y).op = "ENDWEAK")
        BY <2>3 DEF Stopping
      <4>2. Got(y).op = "ENDWEAK" <=> loc[z].weak
        BY <2>4, <3>3, <4>1 DEF Told, Got
      <4> QED
        BY <1>1, <4>1, <4>2
    <3> QED
      BY <2>1, <2>2, <2>4, <3>1, <3>2, <3>3, <3>4 DEF Level, Still, SameNums
  <2> QED
    BY <1>2, <2>5, <2>6 DEF PairsOf
<1> QED
  BY <1>8, <1>9, <1>10 DEF Event

LEMMA HearerEvent ==
  ASSUME ~Udp, TypeInv, TypeInv', Together, InvBase, InvVerdict,
         NEW y, NEW z, NEW d \in Dirs, NEW p, Pair(y, z, d, p), PairsOf(y, z, p),
         PairOf(y, z, d, p),
         Acts(z), In(z, p), Event(z)
  PROVE  PairsOf(y, z, p)'
<1>0. /\ y \in Workers /\ z \in Workers /\ y # z /\ p \in {1, 2} /\ InvRole /\ ~Sender(z)
      /\ Peer(z) = y
  BY DEF Pair, Together, In
<1>1. pc'[y] = pc[y] /\ loc'[y] = loc[y] /\ (Over(y, p)' <=> Over(y, p))
  BY <1>0, StepAlone DEF Alone, Over
<1>2. /\ In(z, p)' /\ Rep(z, p) = {z} /\ Rep(z, p)' = {z} /\ ~Over(z, p) /\ ~Over(z, p)'
  BY <1>0, EventNums
<1>3. ASSUME NEW m \in Rep(y, p)'
      PROVE  \E M \in Rep(y, p) : SameNums(M, m, p)
  BY <1>0, <1>3, RepKept
<1>4. ASSUME NEW m \in Rep(y, p)
      PROVE  /\ Level(y, z, m, z, p) /\ Rnd(m, p) \in Nat /\ Starts(m, p) \in Nat
             /\ Stopped(m, p) \in Nat
  <2>1. m \in Workers
    BY <1>0, <1>4 DEF Rep, Mates
  <2> QED
    BY <1>2, <1>4, <2>1, NumType DEF PairsOf
<1>5. /\ Rnd(z, p) \in Nat /\ Starts(z, p) \in Nat /\ Stopped(z, p) \in Nat
  BY <1>0, NumType
<1>6. Single(y, z, p)
  BY DEF PairsOf
<1>7. ~Over(y, p) => /\ y \in Rep(y, p) /\ Level(y, z, y, z, p)
                     /\ Rnd(y, p) <= Starts(y, p) + 1 /\ Rnd(y, p) <= Stopped(y, p) + 1
                     /\ Rnd(y, p) \in Nat /\ Starts(y, p) \in Nat /\ Stopped(y, p) \in Nat
  BY <1>0, <1>4, NumType DEF Rep
<1>8. CASE Begins(z)
  <2>1. /\ Rnd(z, p)' = Rnd(z, p) + 1 /\ Starts(z, p)' = Starts(z, p)
        /\ Stopped(z, p)' = Stopped(z, p) /\ loc'[z].weak = loc[z].weak
    BY <1>0, <1>8, EventNums
  <2>2. Still(z, {"COUNT"}) /\ Still(y, Ends) /\ Still(y, {"START"})
    BY <1>0, <1>8, PairStill DEF Begins
  <2>3. Counting(z)
    BY <1>0, <1>8, EventSteps DEF Begins
  <2>4. Has(chan[z], {"COUNT"}) /\ ~Has(chan[z], {"COUNT"})'
    BY <1>0, <1>2, <1>6, <2>3, Taken DEF Counting, Single
  <2>5. Single(y, z, p)'
    BY <1>1, <1>2, <1>6, <2>2 DEF Single, Still
  <2>6. ASSUME NEW m \in Rep(y, p)'
        PROVE  Level(y, z, m, z, p)'
    <3>1. PICK M \in Rep(y, p) : SameNums(M, m, p)
      BY <1>3, <2>6
    <3>2. Level(y, z, M, z, p) /\ Rnd(M, p) \in Nat
      BY <1>4
    <3>3. Rnd(z, p) + 1 <= Rnd(M, p)
      BY <1>5, <2>4, <3>2 DEF Level
    <3>4. Told(y, z) => Told(y, z)'
      BY <2>1, <2>2, StillTold DEF Still
    <3> QED
      BY <1>1, <2>1, <2>2, <2>4, <3>1, <3>2, <3>3, <3>4 DEF Level, Still, SameNums
  <2> QED
    BY <1>2, <2>5, <2>6 DEF PairsOf
<1>9. CASE GoesOn(z) /\ pc[z] = "start" /\ pc'[z] = "b_reset"
  <2>1. /\ Rnd(z, p)' = Rnd(z, p) /\ Starts(z, p)' = Starts(z, p) + 1
        /\ Stopped(z, p)' = Stopped(z, p) /\ loc'[z].weak = loc[z].weak
        /\ Starts(z, p) + 1 = Rnd(z, p)
    BY <1>0, <1>9, EventNums
  <2>2. Still(z, {"COUNT"}) /\ Still(y, Ends)
    BY <1>0, <1>9, PairStill
  <2>3. ~Over(y, p) => Once(chan[y], {"START"})'
    <3>1. ASSUME ~Over(y, p)
          PROVE  ~Has(chan[y], {"START"})
      <4>1. Rnd(z, p) <= Rnd(y, p) /\ (Has(chan[y], {"START"}) => Starts(y, p) < Starts(z, p))
        BY <1>7, <3>1 DEF Level
      <4> QED
        BY <1>5, <1>7, <2>1, <3>1, <4>1
    <3> QED
      BY <1>0, <3>1, News
  <2>5. Single(y, z, p)'
    BY <1>1, <1>2, <1>6, <2>2, <2>3 DEF Single, Still
  <2>6. ASSUME NEW m \in Rep(y, p)'
        PROVE  Level(y, z, m, z, p)'
    <3>1. PICK M \in Rep(y, p) : SameNums(M, m, p)
      BY <1>3, <2>6
    <3>2. Level(y, z, M, z, p) /\ Starts(M, p) \in Nat
      BY <1>4
    <3>3. Starts(M, p) < Starts(z, p) + 1
      BY <1>5, <3>2 DEF Level
    <3>4. Told(y, z) => Told(y, z)'
      BY <2>1, <2>2, StillTold DEF Still
    <3> QED
      BY <1>1, <1>5, <2>1, <2>2, <3>1, <3>2, <3>3, <3>4 DEF Level, Still, SameNums
  <2> QED
    BY <1>2, <2>5, <2>6 DEF PairsOf
<1>10. CASE Stops(z)
  <2>1. /\ Rnd(z, p)' = Rnd(z, p) /\ Starts(z, p)' = Starts(z, p)
        /\ Stopped(z, p)' = Stopped(z, p) + 1 /\ Stopped(z, p) + 1 = Rnd(z, p)
    BY <1>0, <1>10, EventNums
  <2>2. Still(z, {"COUNT"}) /\ Still(y, {"START"})
    BY <1>0, <1>10, PairStill DEF Stops
  <2>3. ~Over(y, p)
    <3>1. ~Past(z, p)
      BY <1>2, <1>10 DEF Past, Stops, Over
    <3>2. ~Past(y, p)
      BY <3>1 DEF PairOf, TalkerOf
    <3> QED
      BY <3>2 DEF Past, Over
  <2>4. ~Has(chan[y], Ends)
    <3>1. Rnd(z, p) <= Rnd(y, p) /\ (Has(chan[y], Ends) => Stopped(y, p) < Stopped(z, p))
      BY <1>7, <2>3 DEF Level
    <3> QED
      BY <1>5, <1>7, <2>1, <2>3, <3>1
  <2>5. Once(chan[y], Ends)'
    BY <1>0, <2>4, News DEF Ends
  <2>6. Told(y, z)'
    BY <1>0, <1>10, <2>4, EventSteps, EndTold DEF Stops
  <2>7. Single(y, z, p)'
    BY <1>1, <1>2, <1>6, <2>2, <2>5 DEF Single, Still
  <2>8. ASSUME NEW m \in Rep(y, p)'
        PROVE  Level(y, z, m, z, p)'
    <3>1. PICK M \in Rep(y, p) : SameNums(M, m, p)
      BY <1>3, <2>8
    <3>2. Level(y, z, M, z, p) /\ Stopped(M, p) \in Nat
      BY <1>4
    <3>3. Stopped(M, p) < Stopped(z, p) + 1 /\ Stopped(M, p) # Stopped(z, p) + 1
      BY <1>5, <3>2 DEF Level
    <3> QED
      BY <1>5, <2>1, <2>2, <2>6, <3>1, <3>2, <3>3 DEF Level, Still, SameNums
  <2> QED
    BY <1>2, <2>7, <2>8 DEF PairsOf
<1> QED
  BY <1>8, <1>9, <1>10 DEF Event

LEMMA PairsSame ==
  ASSUME NEW y, NEW z, NEW p, PairsOf(y, z, p), loc' = loc, chan' = chan,
         \A w \in Workers \cup {y, z} : /\ pc'[w] = "start" <=> pc[w] = "start"
                                        /\ pc'[w] \in RoundLabels <=> pc[w] \in RoundLabels
  PROVE  PairsOf(y, z, p)'
<1>1. \A w : (In(w, p)' <=> In(w, p)) /\ (Over(w, p)' <=> Over(w, p))
  BY DEF In, Over
<1>2. Rep(y, p)' = Rep(y, p) /\ Rep(z, p)' = Rep(z, p)
  BY <1>1 DEF Rep, Mates
<1>3. \A w \in Workers \cup {y, z} : SameNums(w, w, p)
  BY <1>1 DEF SameNums, Rnd, Starts, Stopped
<1>4. \A m \in Rep(y, p) \cup Rep(z, p) : m \in Workers \cup {y, z}
  BY DEF Rep, Mates
<1>5. Single(y, z, p)'
  BY <1>1 DEF PairsOf, Single
<1>6. ASSUME NEW m \in Rep(y, p), NEW k \in Rep(z, p)
      PROVE  Level(y, z, m, k, p)'
  <2>1. SameNums(m, m, p) /\ SameNums(k, k, p) /\ Level(y, z, m, k, p)
    BY <1>3, <1>4, <1>6 DEF PairsOf
  <2>2. Told(y, z) => Told(y, z)'
    BY DEF Told
  <2> QED
    BY <2>1, <2>2 DEF Level, SameNums
<1> QED
  BY <1>2, <1>5, <1>6 DEF PairsOf

LEMMA PairsInit == Init => InvPairs
<1> SUFFICES ASSUME Init, NEW c \in Conns, NEW d \in Dirs
             PROVE  PairsOf(Talker(d, c), Hearer(d, c), TalkOf(d, c))
  BY DEF InvPairs
<1> DEFINE y == Talker(d, c)
           z == Hearer(d, c)
           p == TalkOf(d, c)
<1>1. y \in Workers /\ z \in Workers /\ p \in {1, 2}
  BY TypeInit, PairIs DEF Pair
<1> HIDE DEF y, z, p
<1>2. \A w \in Workers : pc[w] = "init" /\ loc[w].phase = 1 /\ loc[w].round = 0 /\ chan[w] = <<>>
  BY DEF Init
<1>3. \A w \in Workers : Rnd(w, p) = 0 /\ Starts(w, p) = 0 /\ Stopped(w, p) = 0 /\ Rep(w, p) = {w}
  BY <1>1, <1>2 DEF Rnd, Starts, Stopped, RoundLabels, Rep, Over
<1>4. \A w \in Workers : \A ops : ~Has(chan[w], ops) /\ Once(chan[w], ops)
  BY <1>2 DEF Has, Once
<1>5. Level(y, z, y, z, p)
  BY <1>1, <1>3, <1>4 DEF Level
<1> QED
  BY <1>1, <1>3, <1>4, <1>5 DEF PairsOf, Single, y, z, p

LEMMA PairsNext ==
  ASSUME ~Udp, TypeInv, TypeInv', Together, InvBase, InvVerdict, InvReports, InvPairs, [Next]_vars
  PROVE  InvPairs'
<1>1. ASSUME NEW y, NEW z, NEW p, NEW d \in Dirs, Pair(y, z, d, p), PairsOf(y, z, p),
             PairOf(y, z, d, p)
      PROVE  PairsOf(y, z, p)'
  <2>0. y \in Workers /\ z \in Workers
    BY <1>1 DEF Pair
  <2>1. ASSUME NEW v \in Workers, Acts(v)
        PROVE  PairsOf(y, z, p)'
    BY <1>1, <2>1, PairsQuiet, TalkerEvent, HearerEvent
  <2>2. ASSUME NEW s \in Sides, NEW b \in 0 .. 2, BarrierWait(s, b)
        PROVE  PairsOf(y, z, p)'
    <3>1. loc' = loc /\ chan' = chan
      BY <2>2 DEF BarrierWait
    <3>2. ASSUME NEW w \in Workers
          PROVE  /\ pc'[w] = "start" <=> pc[w] = "start"
                 /\ pc'[w] \in RoundLabels <=> pc[w] \in RoundLabels
      <4>1. pc'[w] = pc[w] \/ <<pc[w], pc'[w]>> \in BarrierPairs
        BY <2>2, BaseBarrier DEF InvBase
      <4> QED
        BY <4>1 DEF BarrierPairs, RoundLabels
    <3> QED
      BY <1>1, <2>0, <3>1, <3>2, PairsSame
  <2>3. ASSUME UNCHANGED <<pc, loc, chan>>
        PROVE  PairsOf(y, z, p)'
    BY <1>1, <2>3, PairsSame
  <2>4. ASSUME NEW w \in Workers, Lose(w) \/ Duplicate(w)
        PROVE  FALSE
    BY <2>4 DEF Lose, Duplicate
  <2> QED
    BY <2>1, <2>2, <2>3, <2>4, NextCases
<1>2. ASSUME NEW c \in Conns, NEW d \in Dirs
      PROVE  PairsOf(Talker(d, c), Hearer(d, c), TalkOf(d, c))'
  <2> DEFINE y == Talker(d, c)
             z == Hearer(d, c)
             p == TalkOf(d, c)
  <2>1. Pair(y, z, d, p) /\ PairsOf(y, z, p) /\ PairOf(y, z, d, p)
    BY PairIs DEF InvPairs, InvReports
  <2> HIDE DEF y, z, p
  <2>2. PairsOf(y, z, p)'
    BY <1>1, <2>1
  <2> QED
    BY <2>2 DEF y, z, p
<1> QED
  BY <1>2 DEF InvPairs

VerdictInv == InvBase /\ InvVerdict /\ InvReports /\ InvPairs

(* The pair in which w is talking. *)
Talks(w, y, z, d, p) == /\ Pair(y, z, d, p) /\ PairsOf(y, z, p) /\ In(w, p)
                        /\ (w = y /\ Sender(w)) \/ (w = z /\ ~Sender(w))

LEMMA PairFor ==
  ASSUME TypeInv, InvPairs, NEW w \in Workers
  PROVE  \E y, z, p : \E d \in Dirs : Talks(w, y, z, d, p)
<1> DEFINE d == Dir(w)
           y == Talker(d, w[2])
           z == Hearer(d, w[2])
           p == TalkOf(d, w[2])
<1>0. w[2] \in Conns /\ d \in Dirs /\ w = <<w[1], w[2]>> /\ w[1] \in {"listener", "connector"}
  BY PeerType, DirType DEF Sides
<1>1. Pair(y, z, d, p) /\ PairsOf(y, z, p)
  BY <1>0, PairIs DEF InvPairs
<1>2. w = y \/ w = z
  <2>1. Other("listener") = "connector" /\ Other("connector") = "listener"
    BY DEF Other, Sides
  <2>2. SendingSide(d) \in {"listener", "connector"}
    BY DEF SendingSide
  <2> QED
    BY <1>0, <2>1, <2>2 DEF Talker, Hearer
<1>3. Dir(w) = d
  OBVIOUS
<1> HIDE DEF d, y, z, p
<1>4. In(w, p)
  BY <1>1, <1>2, <1>3 DEF Pair, In
<1>5. (w = y /\ Sender(w)) \/ (w = z /\ ~Sender(w))
  BY <1>1, <1>2, <1>4 DEF Pair, In
<1>6. Talks(w, y, z, d, p)
  BY <1>1, <1>4, <1>5 DEF Talks
<1> QED
  BY <1>0, <1>6

LEMMA StoppedIs ==
  ASSUME NEW w, NEW p, In(w, p), Stage(w) = "between"
  PROVE  Stopped(w, p) = Base(w)
<1>1. pc[w] \notin {"reset", "b_start", "run", "b_end", "b_end2", "end"}
  BY StageOf
<1> QED
  BY <1>1 DEF Stopped, Base, RoundLabels

(* A worker that has closed the talk, and any other of its side: one that
   represents it has had no more rounds.                                      *)
LEMMA ClosedSide ==
  ASSUME TypeInv, Together, InvBase, InvVerdict, NEW w \in Workers,
         pc[w] \in {"report", "finish", "done"}, NEW x \in Workers, x[1] = w[1], NEW p \in {1, 2},
         In(w, p)
  PROVE  \E a \in Rep(x, p) : /\ a \in Workers /\ Rnd(a, p) = loc[w].round
                              /\ Starts(a, p) <= loc[w].round
                              /\ Stopped(a, p) = loc[w].round
<1>0. /\ loc[w].phase = p /\ loc[x].phase \in {1, 2} /\ loc[w].round \in Nat /\ RoundOf(w)
  BY BaseType DEF In, InvBase
<1>1. /\ Closed(w) /\ ~RestartFlags(w[1]) /\ Stage(w) = "between" /\ Base(w) = loc[w].round
      /\ Base(w) >= 1
  BY <1>0, BetweenStage DEF Closed, InvVerdict, VerdictOf, Base, RoundOf, PreLabels
<1>2. ~(loc[x].phase < p)
  BY <1>0 DEF Together, InvPhase
<1>3. ASSUME NEW a \in Workers, a[1] = w[1], In(a, p)
      PROVE  /\ Rnd(a, p) = loc[w].round /\ Starts(a, p) <= loc[w].round
             /\ Stopped(a, p) = loc[w].round
  <2>1. Base(a) = Base(w) /\ Stage(a) = "between"
    BY <1>0, <1>1, <1>3 DEF In, InvBase, Together, InvStage
  <2>2. ~Going(a)
    BY <1>1, <1>3 DEF InvVerdict, VerdictOf
  <2>3. pc[a] \notin {"start", "b_reset"}
    BY <1>1, <2>1, <2>2 DEF Going
  <2>4. loc[a].round = loc[w].round
    BY <1>1, <2>1, <2>3 DEF Base
  <2>5. Stopped(a, p) = Base(a)
    BY <1>3, <2>1, StoppedIs
  <2>6. Rnd(a, p) = loc[w].round /\ Starts(a, p) = loc[w].round
    BY <1>3, <2>3, <2>4 DEF Rnd, Starts
  <2> QED
    BY <1>0, <1>1, <2>1, <2>5, <2>6
<1>4. CASE Over(x, p)
  <2>1. w \in Rep(x, p)
    BY <1>4 DEF Rep, Mates
  <2> QED
    BY <1>3, <2>1
<1>5. CASE ~Over(x, p)
  <2>1. In(x, p) /\ x \in Rep(x, p)
    BY <1>0, <1>2, <1>5 DEF In, Over, Rep
  <2> QED
    BY <1>3, <2>1
<1> QED
  BY <1>4, <1>5

LEMMA PeerTeam ==
  ASSUME NEW t \in Workers, NEW v \in Team(Peer(t))
  PROVE  Peer(v) \in Team(t) /\ v \in Workers /\ v[1] = Other(t[1])
<1>1. Other("listener") = "connector" /\ Other("connector") = "listener"
  BY DEF Other, Sides
<1>2. t[1] \in {"listener", "connector"} /\ Peer(t) = <<Other(t[1]), t[2]>>
  BY PeerType DEF Sides, Peer
<1>3. /\ v \in Workers /\ v[1] = Other(t[1])
      /\ Async => (v[2] \in ReverseConns <=> t[2] \in ReverseConns)
  BY <1>2 DEF Team
<1>4. Peer(v) = <<Other(v[1]), v[2]>> /\ Peer(v) \in Workers
  BY <1>3, PeerType DEF Peer
<1>5. Other(v[1]) = t[1]
  BY <1>1, <1>2, <1>3
<1>6. Peer(v)[1] = t[1] /\ Peer(v)[2] = v[2]
  BY <1>4, <1>5
<1> QED
  BY <1>3, <1>4, <1>6 DEF Team

(* A worker that has closed the talk, and one of the other side that goes on after
   the same round, cannot both be.                                            *)
LEMMA SplitVerdict ==
  ASSUME TypeInv, Together, VerdictInv, NEW w \in Workers, NEW u \in Workers, u[1] # w[1],
         pc[w] \in {"report", "finish", "done"}, loc[u].phase = loc[w].phase,
         Going(u), Base(u) = loc[w].round
  PROVE  FALSE
<1> USE DEF VerdictInv
<1> DEFINE r == loc[w].round
           p == loc[w].phase
<1>0. /\ r \in Nat /\ RoundOf(w) /\ p \in {1, 2} /\ In(w, p) /\ In(u, p)
  BY BaseType DEF InvBase, In
<1>1. /\ Closed(w) /\ ~RestartFlags(w[1]) /\ Base(u) = r /\ r >= 1 /\ Stage(u) = "between"
  <2>1. Stage(u) = "between" /\ Base(u) >= 1
    BY BetweenStage DEF Going
  <2> QED
    BY <2>1 DEF Closed, InvVerdict, VerdictOf
<1> HIDE DEF r, p
<1>2. ASSUME NEW a \in Workers, NEW b \in Workers, a[1] # b[1]
      PROVE  b[1] # w[1] <=> a[1] = w[1]
  BY <1>2, PeerType DEF Sides
<1>3. RestartFlags(u[1])
  BY DEF InvVerdict, VerdictOf
<1>4. PICK t \in Workers : t[1] = u[1] /\ AllWeak(t)
  BY <1>3 DEF RestartFlags
<1>5. ASSUME NEW v \in Team(Peer(t))
      PROVE  loc[v].weak
  <2> DEFINE b == Peer(v)
  <2>1. /\ b \in Team(t) /\ v \in Workers /\ v[1] # t[1] /\ b \in Workers /\ b[1] = t[1]
    BY <1>5, PeerTeam, PeerType DEF Team
  <2>0. Peer(b) = v
    BY <2>1, PeerOfPeer
  <2> HIDE DEF b
  <2>2. loc[b].weak
    BY <1>4, <2>1 DEF AllWeak
  <2>3. b[1] = u[1] /\ v[1] = w[1]
    BY <1>2, <1>4, <2>1
  <2>4. In(b, p)
    <3>1. loc[b].phase \in {1, 2} /\ loc[u].phase = p
      BY <1>0, <2>1, BaseType DEF In
    <3>2. ~(loc[b].phase < p)
      BY <2>1, <2>3, <3>1 DEF Together, InvPhase, Going
    <3>3. ~(loc[b].phase > p)
      <4>1. CASE loc[b].phase > p
        <5>1. pc[b] = "b_init" /\ loc[b].phase > 1
          BY <1>0, <2>1, <2>3, <3>1, <4>1 DEF Together, InvPhase
        <5>2. Closed(b)
          BY <5>1 DEF Closed
        <5> QED
          BY <1>3, <2>1, <2>3, <5>2 DEF InvVerdict, VerdictOf
      <4> QED
        BY <4>1
    <3> QED
      BY <1>0, <3>1, <3>2, <3>3 DEF In
  <2>5. Stopped(b, p) = r
    <3>1. Base(b) = Base(u) /\ Stage(b) = "between"
      BY <1>0, <1>1, <2>1, <2>3, <2>4 DEF In, InvBase, Together, InvStage
    <3> QED
      BY <1>1, <2>4, <3>1, StoppedIs
  <2>6. PICK e \in Rep(v, p) : Stopped(e, p) = r
    BY <1>0, <2>1, <2>3, ClosedSide DEF r
  <2>7. PICK y2, z2, p2 : \E d2 \in Dirs : Talks(b, y2, z2, d2, p2)
    BY <2>1, PairFor
  <2>8. PICK d2 \in Dirs : Talks(b, y2, z2, d2, p2)
    BY <2>7
  <2>9. /\ p2 = p /\ PairsOf(y2, z2, p) /\ Rep(b, p) = {b}
        /\ (b = y2 /\ v = z2) \/ (b = z2 /\ v = y2)
    <3>1. Rep(b, p) = {b}
      BY <1>0, <2>4 DEF Rep, In, Over
    <3> QED
      BY <2>0, <2>4, <2>8, <3>1 DEF Talks, Pair, In
  <2>10. CASE b = y2 /\ v = z2
    <3>1. Level(b, v, b, e, p)
      BY <2>6, <2>9, <2>10 DEF PairsOf
    <3> QED
      BY <1>1, <2>2, <2>5, <2>6, <3>1 DEF Level
  <2>11. CASE b = z2 /\ v = y2
    <3>1. Level(v, b, e, b, p)
      BY <2>6, <2>9, <2>11 DEF PairsOf
    <3> QED
      BY <1>1, <2>2, <2>5, <2>6, <3>1 DEF Level
  <2> QED
    BY <2>9, <2>10, <2>11
<1>6. Peer(t) \in Workers /\ Peer(t)[1] = w[1]
  <2>1. Peer(t) \in Workers /\ Peer(t) = <<Other(t[1]), t[2]>> /\ Other(t[1]) # t[1]
    BY PeerType DEF Peer
  <2> QED
    BY <1>2, <1>4, <2>1
<1> QED
  BY <1>1, <1>5, <1>6 DEF RestartFlags, AllWeak

LEMMA VerdictSuffices ==
  ASSUME TypeInv, Together, VerdictInv
  PROVE  SameVerdict
<1> USE DEF VerdictInv
<1> SUFFICES ASSUME NEW w \in Workers, NEW u \in Workers, pc[w] \in {"report", "finish", "done"},
                    loc[u].phase = loc[w].phase
             PROVE  loc[u].round <= loc[w].round
  BY DEF SameVerdict
<1>0. /\ loc[w].round \in Nat /\ loc[u].round \in Nat /\ RoundOf(w) /\ RoundOf(u)
      /\ loc[w].phase \in {1, 2}
  BY BaseType DEF InvBase
<1>1. /\ Closed(w) /\ ~RestartFlags(w[1]) /\ Stage(w) = "between" /\ Base(w) = loc[w].round
      /\ Base(w) >= 1
  BY <1>0, BetweenStage DEF Closed, InvVerdict, VerdictOf, Base, RoundOf, PreLabels
<1>2. CASE u[1] = w[1]
  <2>1. Base(u) = Base(w)
    BY <1>2 DEF InvBase
  <2>2. ~Going(u)
    BY <1>1, <1>2 DEF InvVerdict, VerdictOf
  <2>3. pc[u] \notin {"start", "b_reset"}
    BY <1>1, <2>1, <2>2 DEF Going
  <2> QED
    BY <1>0, <1>1, <2>1, <2>3 DEF Base
<1>3. CASE u[1] # w[1]
  <2> DEFINE r == loc[w].round
  <2>1. PICK y, z, p : \E d \in Dirs : Talks(u, y, z, d, p)
    BY PairFor
  <2>2. PICK d \in Dirs : Talks(u, y, z, d, p)
    BY <2>1
  <2>3. /\ y \in Workers /\ z \in Workers /\ p \in {1, 2} /\ In(u, p) /\ In(w, p)
        /\ y[1] # z[1] /\ PairsOf(y, z, p)
        /\ (u = y /\ Sender(u)) \/ (u = z /\ ~Sender(u))
    BY <2>2 DEF Talks, Pair, In
  <2>4. Rep(u, p) = {u}
    BY <1>0, <2>3 DEF In, Over, Rep
  <2>5. ASSUME NEW a \in Workers, NEW b \in Workers, a[1] # b[1]
        PROVE  b[1] # w[1] <=> a[1] = w[1]
    BY <2>5, PeerType DEF Sides
  <2>6. CASE u = z
    <3>1. PICK a \in Rep(y, p) : Rnd(a, p) = r
      BY <1>3, <2>3, <2>5, <2>6, ClosedSide
    <3>2. Level(y, z, a, z, p)
      BY <2>3, <2>4, <2>6 DEF PairsOf
    <3>3. Rnd(z, p) = loc[u].round
      BY <2>3, <2>6 DEF Rnd
    <3> QED
      BY <3>1, <3>2, <3>3 DEF Level
  <2>7. CASE u = y
    <3>1. PICK a \in Rep(z, p) : Starts(a, p) <= r /\ a \in Workers
      BY <1>3, <2>3, <2>5, <2>7, ClosedSide
    <3>2. Level(y, z, y, a, p)
      BY <2>3, <2>4, <2>7 DEF PairsOf
    <3>3. Starts(y, p) <= Starts(a, p) /\ Starts(y, p) \in Nat /\ Starts(a, p) \in Nat
      BY <2>3, <3>1, <3>2, NumType DEF Level
    <3>4. Starts(y, p) <= r
      BY <1>0, <3>1, <3>3
    <3>5. CASE pc[u] # "start"
      <4>1. Starts(y, p) = loc[u].round
        BY <2>3, <2>7, <3>5 DEF Starts
      <4> QED
        BY <3>4, <4>1
    <3>6. CASE pc[u] = "start" /\ loc[u].round > r
      <4>1. Starts(y, p) = loc[u].round - 1 /\ Base(u) = loc[u].round - 1
        BY <2>3, <2>7, <3>6 DEF Starts, Base
      <4>2. Base(u) = r /\ r >= 1 /\ Stage(u) = "between"
        BY <1>0, <1>1, <3>4, <3>6, <4>1, BetweenStage
      <4>3. Going(u)
        BY <3>6, <4>2 DEF Going
      <4> QED
        BY <1>3, <4>2, <4>3, SplitVerdict
    <3> QED
      BY <1>0, <3>5, <3>6
  <2> QED
    BY <2>3, <2>6, <2>7
<1> QED
  BY <1>2, <1>3

LEMMA VerdictInvariance ==
  ASSUME ~Udp
  PROVE  Spec => []VerdictInv
<1>1. Init => VerdictInv
  BY VerdictInit, ReportsInit, PairsInit DEF VerdictInv
<1>2. Inv /\ Inv' /\ VerdictInv /\ [Next]_vars => VerdictInv'
  <2> SUFFICES ASSUME Inv, Inv', VerdictInv, [Next]_vars
               PROVE  VerdictInv'
    OBVIOUS
  <2>1. TypeInv /\ TypeInv' /\ Together /\ Together' /\ MarkInv' /\ InvRole
    BY DEF Inv, Together
  <2>2. InvBase'
    BY <2>1, BaseNext DEF VerdictInv
  <2>3. InvVerdict'
    BY <2>1, <2>2, VerdictNext DEF VerdictInv, InvVerdict
  <2>4. InvReports'
    BY <2>1, ReportsNext DEF VerdictInv
  <2>5. InvPairs'
    BY <2>1, PairsNext DEF VerdictInv
  <2> QED
    BY <2>2, <2>3, <2>4, <2>5 DEF VerdictInv
<1> QED
  BY <1>1, <1>2, Invariance, PTL DEF Spec

(* Over TCP all the workers of both processes close a talk after the same round:
   nobody negotiates another count once somebody has left the loop of talk_sender()
   or talk_receiver().  Each process decides by itself, from marks that its own
   workers made (_talk_weak_stream_needs_restart()); that the two decisions agree is
   due to the flag in END, which hands the receiver's verdict on a stream to the
   sender.  For any number of connections, with timeouts and crashes.         *)
THEOREM VerdictsAgree ==
  ASSUME ~Udp
  PROVE  Spec => []SameVerdict
<1>1. Inv /\ VerdictInv => SameVerdict
  BY VerdictSuffices DEF Inv
<1> QED
  BY <1>1, Invariance, VerdictInvariance, PTL

-----------------------------------------------------------------------------
(* What the two workers of a connection are doing, over TCP, when no receive times
   out and no process is killed.                                              *)
Reliable == ~Udp /\ MaxTimeouts = 0 /\ ~Crashes

(* A stream that can be weak is so short that no recount reaches the limit. *)
Attainable == \A n \in Nat, m \in Muls : n < WeakLimit => n * m < CountMax

ResetLabels == {"b_reset", "reset", "b_start"}
EndLabels == {"b_end", "b_end2", "end"}
StreamingLabels == ResetLabels \cup EndLabels \cup {"run"}

Size(w) == Len(chan[w])
Msg(w) == chan[w][1][1]
Silent(y, z) == Size(y) = 0 /\ Size(z) = 0
Same(y, z) == loc[y].round = loc[z].round /\ loc[y].n = loc[z].n

(* y sends and z receives.  The handshake: nothing on its way, PING, PONG. *)
Opening(y, z) == /\ pc[y] \in {"init", "b_init", "ping"} /\ pc[z] \in {"init", "b_init", "hs"}
                 /\ loc[y].i = loc[z].i /\ Silent(y, z)
Pinged(y, z) == /\ pc[y] = "pong" /\ pc[z] \in {"init", "b_init", "hs"}
                /\ loc[y].i = loc[z].i /\ Size(y) = 0
                /\ Size(z) = 1 /\ Msg(z).op = "PING" /\ Msg(z).n = HandshakeIter
Ponged(y, z) == /\ pc[y] = "pong" /\ Size(z) = 0 /\ loc[y].round = loc[z].round
                /\ Size(y) = 1 /\ Msg(y).op = "PONG" /\ Msg(y).n = HandshakeIter
                /\ IF loc[y].i + 1 < HandshakeIter THEN pc[z] = "hs" /\ loc[z].i = loc[y].i + 1
                                                   ELSE pc[z] = "neg"

(* The negotiation: before COUNT, COUNT, before START, START. *)
Greeting(y, z) == /\ pc[y] \in {"b_count1", "setcount", "b_count2", "neg"} /\ pc[z] = "neg"
                  /\ Silent(y, z) /\ loc[y].round = loc[z].round
Offered(y, z) == /\ pc[y] = "start" /\ pc[z] \in AfterLabels \cup {"neg"}
                 /\ Size(y) = 0 /\ loc[y].round = loc[z].round + 1
                 /\ Size(z) = 2 /\ Msg(z).op = "COUNT" /\ Msg(z).n = loc[y].n
Accepted(y, z) == /\ pc[y] = "start" /\ pc[z] = "start" /\ Silent(y, z) /\ Same(y, z)
Started(y, z) == /\ pc[y] = "start" /\ pc[z] \in ResetLabels \cup {"run"} /\ loc[z].i = 0
                 /\ Size(z) = 0 /\ Same(y, z) /\ Size(y) = 2 /\ Msg(y).op = "START"

(* The stream, and its end. *)
Streaming(y, z) ==
  /\ pc[y] \in StreamingLabels /\ pc[z] \in StreamingLabels /\ Same(y, z)
  /\ pc[y] \in EndLabels => loc[y].i = loc[y].n
  /\ pc[z] \in EndLabels => loc[z].i = loc[z].n
  /\ loc[z].i <= loc[y].i /\ loc[y].i <= loc[y].n
  /\ Size(y) = 0 /\ Size(z) = 2 * (loc[y].i - loc[z].i)
  /\ \A i \in DOMAIN chan[z] : chan[z][i][1].op \in {"RUN", "body"}
Ending(y, z) ==
  /\ pc[y] \in EndLabels \cup {"run"} /\ loc[y].i = loc[y].n
  /\ Size(z) = 0 /\ Same(y, z)
  /\ Msg(y).op \in Ends /\ (Msg(y).op = "ENDWEAK" => loc[y].n < WeakLimit)
  /\ \/ pc[z] \in AfterLabels \cup {"neg", "report"} /\ Size(y) = 2
     \/ pc[z] = "finish" /\ Size(y) = 4 /\ chan[y][3][1].op = "REPORT"

(* Both judge the stream; both go on to another; or both close the talk. *)
Judging(y, z) ==
  /\ pc[y] \in AfterLabels \cup {"report"} /\ Size(z) = 0 /\ Same(y, z)
  /\ \/ /\ pc[z] \in AfterLabels \cup {"neg", "report"} /\ Size(y) = 0
        /\ pc[y] = "report" => pc[z] # "neg"
     \/ pc[z] = "finish" /\ Size(y) = 2 /\ Msg(y).op = "REPORT"
GoingOn(y, z) == /\ pc[y] \in {"b_re1", "recount", "b_re2", "neg"}
                 /\ pc[z] \in AfterLabels \cup {"neg"} /\ Silent(y, z) /\ Same(y, z)
Parting(y, z) ==
  /\ Same(y, z) /\ Size(y) = 0
  /\ \/ pc[y] = "finish" /\ pc[z] = "finish" /\ Size(z) = 0
     \/ pc[y] = "done" /\ pc[z] = "finish" /\ Size(z) = 2
     \/ pc[y] = "done" /\ pc[z] = "done" /\ Size(z) = 0

Conf(y, z) == \/ Opening(y, z) \/ Pinged(y, z) \/ Ponged(y, z) \/ Greeting(y, z)
              \/ Offered(y, z) \/ Accepted(y, z) \/ Started(y, z) \/ Streaming(y, z)
              \/ Ending(y, z) \/ Judging(y, z) \/ GoingOn(y, z) \/ Parting(y, z)

(* y has ended the talk and waits for the next; z has still to read FINISH. *)
Ahead(y, z) == /\ loc[y].phase = loc[z].phase + 1 /\ ~Sender(y)
               /\ pc[y] \in {"b_init", "hs"} /\ loc[y].i = 0 /\ pc[z] = "finish"
               /\ Size(y) = 0 /\ Size(z) = 2

ConvOf(w) == /\ Sender(w) /\ loc[Peer(w)].phase = loc[w].phase => Conf(w, Peer(w))
             /\ loc[w].phase > loc[Peer(w)].phase => Ahead(w, Peer(w))
InvConv == \A w \in Workers : ConvOf(w)

(* The packets of a stream are counted from 0. *)
IdleOf(w) == pc[w] \notin {"ping", "pong", "hs", "run"} \cup EndLabels => loc[w].i = 0
InvIdle == \A w \in Workers : IdleOf(w)


-----------------------------------------------------------------------------
(* Packets on a connection that loses nothing. *)

LEMMA SizeType ==
  ASSUME TypeInv, NEW w \in Workers
  PROVE  Size(w) \in Nat /\ DOMAIN chan[w] = 1 .. Size(w) /\ chan[w] \in Seq(Segment)
BY LenProperties DEF TypeInv, Wire, Size

LEMMA TcpUnits ==
  ASSUME ~Udp, NEW w
  PROVE  /\ UnitsOf(w) \in {1, 2} /\ Needed(w) = UnitsOf(w)
         /\ UnitsOf(w) = 1 <=> pc[w] \in HandshakeLabels
         /\ Readable(w) <=> Size(w) >= UnitsOf(w)
BY DEF UnitsOf, Needed, Readable, Size

(* The first k segments of w's channel have been read; a packet op of k segments
   has been appended to it.                                                   *)
Heard(w, k) == /\ Size(w) >= k /\ Size(w)' = Size(w) - k
               /\ \A i \in 1 .. Size(w) - k : chan'[w][i] = chan[w][i + k]
Sent(w, k, op, n) == /\ Size(w)' = Size(w) + k
                     /\ \A i \in 1 .. Size(w) : chan'[w][i] = chan[w][i]
                     /\ chan'[w][Size(w) + 1][1].op = op /\ chan'[w][Size(w) + 1][1].n = n
                     /\ k = 2 => chan'[w][Size(w) + 2][1].op = "body"
OthersQuiet(S) == \A u \in Workers \ S : chan'[u] = chan[u]

LEMMA TcpDrop ==
  ASSUME ~Udp, TypeInv, NEW w \in Workers, Readable(w), NEW q, q = Drop(chan, w, Needed(w))[w]
  PROVE  /\ Len(q) = Size(w) - UnitsOf(w) /\ Size(w) >= UnitsOf(w)
         /\ \A i \in 1 .. Size(w) - UnitsOf(w) : q[i] = chan[w][i + UnitsOf(w)]
<1> DEFINE k == UnitsOf(w)
<1>1. k \in Nat /\ Needed(w) = k /\ Size(w) >= k /\ Size(w) \in Nat
  BY TcpUnits, SizeType
<1>2. chan \in Wire
  BY DEF TypeInv
<1>3. q = Drop(chan, w, k)[w]
  BY <1>1
<1> HIDE DEF k
<1>4. /\ k <= Len(chan[w]) => Len(q) = Len(chan[w]) - k
      /\ \A i \in DOMAIN q : i + k \in DOMAIN chan[w] /\ q[i] = chan[w][i + k]
  BY <1>1, <1>2, <1>3, DropIs
<1>5. Len(q) = Size(w) - k
  BY <1>1, <1>4 DEF Size
<1>6. DOMAIN q = 1 .. Size(w) - k
  <2>1. DOMAIN q = 1 .. Len(q)
    BY <1>1, <1>2, <1>3, DropIs
  <2> QED
    BY <1>5, <2>1
<1> QED
  BY <1>1, <1>4, <1>5, <1>6 DEF k

LEMMA TcpRead ==
  ASSUME ~Udp, TypeInv, NEW w \in Workers, Readable(w), Consume(w)
  PROVE  Heard(w, UnitsOf(w)) /\ OthersQuiet({w})
<1>1. chan' = Drop(chan, w, Needed(w))
  BY DEF Consume
<1>2. OthersQuiet({w})
  BY <1>1 DEF OthersQuiet, Drop, TypeInv, Wire
<1>3. chan'[w] = Drop(chan, w, Needed(w))[w]
  BY <1>1
<1> DEFINE q == chan'[w]
<1>4. /\ Len(q) = Size(w) - UnitsOf(w) /\ Size(w) >= UnitsOf(w)
      /\ \A i \in 1 .. Size(w) - UnitsOf(w) : q[i] = chan[w][i + UnitsOf(w)]
  BY <1>3, TcpDrop
<1> QED
  BY <1>2, <1>4 DEF Heard, Size

LEMMA TcpPut ==
  ASSUME ~Udp, TypeInv, NEW w \in Workers, NEW ch \in Wire, ch[Peer(w)] = chan[Peer(w)],
         NEW op \in Ops, NEW n \in Nat, NEW r \in ReportType,
         chan' = Put(ch, w, Packet(w, op, n, r))
  PROVE  /\ Sent(Peer(w), UnitsOf(w), op, n)
         /\ \A u \in Workers \ {Peer(w)} : chan'[u] = ch[u]
<1> DEFINE new == Segments(Packet(w, op, n, r))
           u == Peer(w)
<1>1. IsPut(ch, w, new, chan')
  BY PutIs
<1>2. /\ UnitsOf(w) \in {1, 2}
      /\ UnitsOf(w) = 1 => Len(new) = 1 /\ new[1] = <<Unit(op, n, NoReport)>>
      /\ UnitsOf(w) = 2 => /\ Len(new) = 2 /\ new[1] = <<Unit(op, n, NoReport)>>
                           /\ new[2] = <<Unit("body", 0, r)>>
  BY SegmentsIs, TcpUnits
<1>3. /\ Unit(op, n, NoReport).op = op /\ Unit(op, n, NoReport).n = n
      /\ Unit("body", 0, r).op = "body"
  BY DEF Unit
<1> HIDE DEF new
<1>4. /\ Len(new) = UnitsOf(w) /\ new[1][1].op = op /\ new[1][1].n = n
      /\ UnitsOf(w) = 2 => new[2][1].op = "body"
  <2> DEFINE head == Unit(op, n, NoReport)
             body == Unit("body", 0, r)
  <2>1. /\ UnitsOf(w) = 1 => Len(new) = 1 /\ new[1] = <<head>>
        /\ UnitsOf(w) = 2 => Len(new) = 2 /\ new[1] = <<head>> /\ new[2] = <<body>>
    BY <1>2
  <2>2. head.op = op /\ head.n = n /\ body.op = "body"
    BY <1>3
  <2> HIDE DEF head, body
  <2>3. <<head>>[1] = head /\ <<body>>[1] = body
    OBVIOUS
  <2> QED
    BY <1>2, <2>1, <2>2, <2>3
<1>0. ch[u] = chan[u]
  OBVIOUS
<1>5. /\ DOMAIN chan[u] = 1 .. Len(chan[u]) /\ Len(chan[u]) \in Nat
      /\ Len(chan'[u]) = Len(chan[u]) + Len(new)
      /\ \A i \in DOMAIN chan[u] : chan'[u][i] = chan[u][i]
      /\ \A i \in 1 .. Len(new) : chan'[u][Len(chan[u]) + i] = new[i]
  <2>1. /\ DOMAIN ch[u] = 1 .. Len(ch[u]) /\ Len(ch[u]) \in Nat
        /\ Len(chan'[u]) = Len(ch[u]) + Len(new)
        /\ \A i \in DOMAIN ch[u] : i \in DOMAIN chan'[u] /\ chan'[u][i] = ch[u][i]
        /\ \A i \in 1 .. Len(new) : chan'[u][Len(ch[u]) + i] = new[i]
    BY ONLY <1>1 DEF IsPut, u
  <2> HIDE DEF u
  <2> QED
    BY ONLY <1>0, <2>1
<1>6. \A x \in Workers \ {Peer(w)} : chan'[x] = ch[x]
  BY <1>1 DEF IsPut
<1> HIDE DEF u
<1>7. 1 \in 1 .. Len(new) /\ (UnitsOf(w) = 2 => 2 \in 1 .. Len(new))
  BY <1>2, <1>4
<1>8. /\ chan'[u][Size(u) + 1] = new[1]
      /\ UnitsOf(w) = 2 => chan'[u][Size(u) + 2] = new[2]
  BY <1>5, <1>7 DEF Size
<1>9. Size(u)' = Size(u) + UnitsOf(w) /\ \A i \in 1 .. Size(u) : chan'[u][i] = chan[u][i]
  BY <1>4, <1>5 DEF Size
<1>10. Sent(u, UnitsOf(w), op, n)
  BY <1>4, <1>8, <1>9 DEF Sent
<1> QED
  BY <1>6, <1>10 DEF u

LEMMA TcpSend ==
  ASSUME ~Udp, TypeInv, NEW w \in Workers, NEW op \in Ops, NEW n \in Nat,
         NEW r \in ReportType, Send(w, op, n, r)
  PROVE  Sent(Peer(w), UnitsOf(w), op, n) /\ OthersQuiet({Peer(w)})
<1>1. chan' = Put(chan, w, Packet(w, op, n, r)) /\ chan \in Wire
  BY DEF Send, TypeInv
<1> QED
  BY <1>1, TcpPut DEF OthersQuiet

(* w reads a packet and answers. *)
LEMMA TcpAnswer ==
  ASSUME ~Udp, TypeInv, NEW w \in Workers, Readable(w), NEW op \in Ops, NEW n \in Nat,
         NEW r \in ReportType,
         chan' = Put(Drop(chan, w, Needed(w)), w, Packet(w, op, n, r))
  PROVE  /\ Heard(w, UnitsOf(w)) /\ Sent(Peer(w), UnitsOf(w), op, n)
         /\ OthersQuiet({w, Peer(w)})
<1> DEFINE mid == Drop(chan, w, Needed(w))
<1>0. Needed(w) \in Nat /\ chan \in Wire /\ Peer(w) \in Workers /\ Peer(w) # w
  BY TcpUnits, PeerType DEF TypeInv
<1>1. mid \in Wire
  BY <1>0, DropType
<1>2. \A u \in Workers \ {w} : mid[u] = chan[u]
  BY <1>0 DEF Drop, Wire
<1> HIDE DEF mid
<1>3. /\ Sent(Peer(w), UnitsOf(w), op, n)
      /\ \A u \in Workers \ {Peer(w)} : chan'[u] = mid[u]
  BY <1>0, <1>1, <1>2, TcpPut DEF mid
<1>4. OthersQuiet({w, Peer(w)}) /\ chan'[w] = mid[w]
  BY <1>0, <1>2, <1>3 DEF OthersQuiet
<1> DEFINE q == chan'[w]
<1>5. q = Drop(chan, w, Needed(w))[w]
  BY <1>4 DEF mid
<1>6. /\ Len(q) = Size(w) - UnitsOf(w) /\ Size(w) >= UnitsOf(w)
      /\ \A i \in 1 .. Size(w) - UnitsOf(w) : q[i] = chan[w][i + UnitsOf(w)]
  BY <1>5, TcpDrop
<1>7. Heard(w, UnitsOf(w))
  BY <1>6 DEF Heard, Size
<1> QED
  BY <1>3, <1>4, <1>7

(* A packet in an empty channel, behind another, and the last one read. *)
LEMMA SentFirst ==
  ASSUME NEW w, NEW k \in {1, 2}, NEW op, NEW n, Sent(w, k, op, n), Size(w) = 0
  PROVE  Size(w)' = k /\ Msg(w)'.op = op /\ Msg(w)'.n = n
BY DEF Sent, Msg

LEMMA SentSecond ==
  ASSUME NEW w, NEW op, NEW n, Sent(w, 2, op, n), Size(w) = 2
  PROVE  Size(w)' = 4 /\ Msg(w)' = Msg(w) /\ chan'[w][3][1].op = op
BY DEF Sent, Msg

LEMMA HeardFirst ==
  ASSUME NEW w, Heard(w, 2), Size(w) = 4
  PROVE  Size(w)' = 2 /\ Msg(w)' = chan[w][3][1]
BY DEF Heard, Msg

(* The moves by which a worker neither reads nor writes. *)
CommonQuiet ==
  {<<"init", "b_init">>, <<"b_reset", "reset">>, <<"reset", "b_start">>, <<"b_start", "run">>,
   <<"run", "b_end">>, <<"b_end", "b_end2">>, <<"b_end", "end">>, <<"b_end2", "end">>,
   <<"b_mark", "mark">>, <<"mark", "b_ret">>, <<"b_ret", "ret">>, <<"ret", "decide">>,
   <<"ret", "report">>, <<"decide", "report">>}
TalkerQuiet == CommonQuiet \cup
  {<<"b_init", "ping">>, <<"b_count1", "setcount">>, <<"b_count1", "b_count2">>,
   <<"setcount", "b_count2">>, <<"b_count2", "neg">>, <<"decide", "b_re1">>,
   <<"b_re1", "recount">>, <<"b_re1", "b_re2">>, <<"recount", "b_re2">>, <<"b_re2", "neg">>}
HearerQuiet == CommonQuiet \cup {<<"b_init", "hs">>, <<"decide", "neg">>}

(* The wire and the variables of both stay as they are. *)
StillPair(y, z) == /\ loc'[y] = loc[y] /\ loc'[z] = loc[z]
                   /\ chan'[y] = chan[y] /\ chan'[z] = chan[z]

LEMMA ConfFrame ==
  ASSUME NEW y, NEW z, StillPair(y, z), pc'[y] = pc[y], pc'[z] = pc[z]
  PROVE  (Conf(y, z) => Conf(y, z)') /\ (Ahead(y, z) => Ahead(y, z)')
<1>1. /\ Opening(y, z) => Opening(y, z)'
      /\ Pinged(y, z) => Pinged(y, z)'
      /\ Ponged(y, z) => Ponged(y, z)'
      /\ Greeting(y, z) => Greeting(y, z)'
      /\ Offered(y, z) => Offered(y, z)'
      /\ Accepted(y, z) => Accepted(y, z)'
      /\ Started(y, z) => Started(y, z)'
  BY DEF StillPair, Opening, Pinged, Ponged, Greeting, Offered, Accepted, Started, Same, Silent,
     Size, Msg
<1>2. /\ Streaming(y, z) => Streaming(y, z)'
      /\ Ending(y, z) => Ending(y, z)'
      /\ Judging(y, z) => Judging(y, z)'
      /\ GoingOn(y, z) => GoingOn(y, z)'
      /\ Parting(y, z) => Parting(y, z)'
  BY DEF StillPair, Streaming, Ending, Judging, GoingOn, Parting, Same, Silent, Size, Msg
<1>3. Sender(y)' <=> Sender(y)
  BY DEF StillPair, Sender, Dir
<1>4. Ahead(y, z) => Ahead(y, z)'
  BY <1>3 DEF StillPair, Ahead, Size
<1> QED
  BY <1>1, <1>2, <1>4 DEF Conf

LEMMA QuietTalker ==
  ASSUME TypeInv, NEW y \in Workers, NEW z \in Workers, Conf(y, z), StillPair(y, z),
         pc'[z] = pc[z],
         <<pc[y], pc'[y]>> \in TalkerQuiet, pc[y] = "run" => loc[y].i >= loc[y].n,
         pc'[y] = "report" => pc[z] # "neg",
         pc'[y] = "b_re1" => pc[z] \notin {"report", "finish"}
  PROVE  Conf(y, z)'
<1>0. /\ loc[y].i \in Nat /\ loc[y].n \in Nat /\ loc[z].i \in Nat /\ loc[z].n \in Nat
  BY DEF TypeInv, CoreType, LocalType
<1> USE DEF StillPair, TalkerQuiet, CommonQuiet
<1>1. CASE Opening(y, z)
  <2>1. Opening(y, z)'
    BY <1>1 DEF Opening, Silent, Size
  <2> QED
    BY <2>1 DEF Conf
<1>2. CASE Pinged(y, z) \/ Ponged(y, z) \/ Offered(y, z) \/ Accepted(y, z) \/ Started(y, z)
  BY <1>2 DEF Pinged, Ponged, Offered, Accepted, Started
<1>3. CASE Greeting(y, z)
  <2>1. Greeting(y, z)'
    BY <1>3 DEF Greeting, Silent, Size
  <2> QED
    BY <2>1 DEF Conf
<1>4. CASE Streaming(y, z)
  <2>1. pc'[y] \in StreamingLabels /\ (pc'[y] \in EndLabels => loc[y].i = loc[y].n)
    BY <1>0, <1>4 DEF Streaming, StreamingLabels, ResetLabels, EndLabels
  <2>2. Streaming(y, z)'
    BY <1>4, <2>1 DEF Streaming, Same, Size
  <2> QED
    BY <2>2 DEF Conf
<1>5. CASE Ending(y, z)
  <2>1. pc'[y] \in EndLabels \cup {"run"}
    BY <1>5 DEF Ending, EndLabels
  <2>2. Ending(y, z)'
    BY <1>5, <2>1 DEF Ending, Same, Size, Msg
  <2> QED
    BY <2>2 DEF Conf
<1>6. CASE Judging(y, z) /\ pc'[y] # "b_re1"
  <2>1. pc'[y] \in AfterLabels \cup {"report"}
    BY <1>6 DEF Judging, AfterLabels
  <2>2. Judging(y, z)'
    BY <1>6, <2>1 DEF Judging, Same, Size, Msg
  <2> QED
    BY <2>2 DEF Conf
<1>7. CASE Judging(y, z) /\ pc'[y] = "b_re1"
  <2>1. GoingOn(y, z)'
    BY <1>7 DEF Judging, GoingOn, Silent, Same, Size
  <2> QED
    BY <2>1 DEF Conf
<1>8. CASE GoingOn(y, z)
  <2>1. GoingOn(y, z)'
    BY <1>8 DEF GoingOn, Silent, Same, Size
  <2> QED
    BY <2>1 DEF Conf
<1>9. CASE Parting(y, z)
  BY <1>9 DEF Parting
<1> QED
  BY <1>1, <1>2, <1>3, <1>4, <1>5, <1>6, <1>7, <1>8, <1>9 DEF Conf

LEMMA QuietHearer ==
  ASSUME TypeInv, NEW y \in Workers, NEW z \in Workers, Conf(y, z), StillPair(y, z),
         pc'[y] = pc[y],
         <<pc[z], pc'[z]>> \in HearerQuiet, pc[z] = "run" => loc[z].i >= loc[z].n,
         pc[y] = "start" => loc[y].n >= 1,
         pc'[z] = "report" => pc[y] \notin {"b_re1", "recount", "b_re2", "neg", "start"},
         pc'[z] = "neg" => pc[y] # "report"
  PROVE  Conf(y, z)'
<1>0. /\ loc[y].i \in Nat /\ loc[y].n \in Nat /\ loc[z].i \in Nat /\ loc[z].n \in Nat
  BY DEF TypeInv, CoreType, LocalType
<1> USE DEF StillPair, HearerQuiet, CommonQuiet
<1>1. CASE Opening(y, z)
  <2>1. Opening(y, z)'
    BY <1>1 DEF Opening, Silent, Size
  <2> QED
    BY <2>1 DEF Conf
<1>2. CASE Pinged(y, z)
  <2>1. Pinged(y, z)'
    BY <1>2 DEF Pinged, Size, Msg
  <2> QED
    BY <2>1 DEF Conf
<1>3. CASE Ponged(y, z) \/ Greeting(y, z) \/ Accepted(y, z) \/ Parting(y, z)
  BY <1>3 DEF Ponged, Greeting, Accepted, Parting
<1>4. CASE Offered(y, z)
  <2>1. pc'[z] \in AfterLabels \cup {"neg"}
    BY <1>4 DEF Offered, AfterLabels
  <2>2. Offered(y, z)'
    BY <1>4, <2>1 DEF Offered, Size, Msg
  <2> QED
    BY <2>2 DEF Conf
<1>5. CASE Started(y, z)
  <2>1. pc'[z] \in ResetLabels \cup {"run"}
    BY <1>0, <1>5 DEF Started, ResetLabels, Same
  <2>2. Started(y, z)'
    BY <1>5, <2>1 DEF Started, Size, Msg, Same
  <2> QED
    BY <2>2 DEF Conf
<1>6. CASE Streaming(y, z)
  <2>1. pc'[z] \in StreamingLabels /\ (pc'[z] \in EndLabels => loc[z].i = loc[z].n)
    BY <1>0, <1>6 DEF Streaming, StreamingLabels, ResetLabels, EndLabels, Same
  <2>2. Streaming(y, z)'
    BY <1>6, <2>1 DEF Streaming, Same, Size
  <2> QED
    BY <2>2 DEF Conf
<1>7. CASE Ending(y, z)
  <2>1. pc'[z] \in AfterLabels \cup {"neg", "report"} /\ Size(y) = 2
    BY <1>7 DEF Ending, AfterLabels
  <2>2. Ending(y, z)'
    BY <1>7, <2>1 DEF Ending, Same, Size, Msg
  <2> QED
    BY <2>2 DEF Conf
<1>8. CASE Judging(y, z)
  <2>1. pc'[z] \in AfterLabels \cup {"neg", "report"} /\ Size(y) = 0
    BY <1>8 DEF Judging, AfterLabels
  <2>2. Judging(y, z)'
    BY <1>8, <2>1 DEF Judging, Same, Size, Msg
  <2> QED
    BY <2>2 DEF Conf
<1>9. CASE GoingOn(y, z)
  <2>1. pc'[z] \in AfterLabels \cup {"neg"}
    BY <1>9 DEF GoingOn, AfterLabels
  <2>2. GoingOn(y, z)'
    BY <1>9, <2>1 DEF GoingOn, Silent, Same, Size
  <2> QED
    BY <2>2 DEF Conf
<1> QED
  BY <1>1, <1>2, <1>3, <1>4, <1>5, <1>6, <1>7, <1>8, <1>9 DEF Conf

-----------------------------------------------------------------------------
(* Which scenes a worker can be in. *)

LEMMA TalkerScene ==
  ASSUME NEW y, NEW z, Conf(y, z)
  PROVE  /\ pc[y] \in {"init", "b_init", "ping"} => Opening(y, z)
         /\ pc[y] = "pong" => Pinged(y, z) \/ Ponged(y, z)
         /\ pc[y] \in {"b_count1", "setcount", "b_count2"} => Greeting(y, z)
         /\ pc[y] = "neg" => Greeting(y, z) \/ GoingOn(y, z)
         /\ pc[y] = "start" => Offered(y, z) \/ Accepted(y, z) \/ Started(y, z)
         /\ pc[y] \in ResetLabels => Streaming(y, z)
         /\ pc[y] \in EndLabels \cup {"run"} => Streaming(y, z) \/ Ending(y, z)
         /\ pc[y] \in AfterLabels \cup {"report"} => Judging(y, z)
         /\ pc[y] \in {"finish", "done"} => Parting(y, z)
         /\ pc[y] # "hs"
BY DEF Conf, Opening, Pinged, Ponged, Greeting, GoingOn, Offered, Accepted, Started, Streaming,
   Ending, Judging, Parting, StreamingLabels, ResetLabels, EndLabels, AfterLabels

LEMMA HearerScene ==
  ASSUME NEW y, NEW z, Conf(y, z)
  PROVE  /\ pc[z] \in {"init", "b_init"} => Opening(y, z) \/ Pinged(y, z)
         /\ pc[z] = "hs" => Opening(y, z) \/ Pinged(y, z) \/ Ponged(y, z)
         /\ pc[z] = "neg" => \/ Ponged(y, z) \/ Greeting(y, z) \/ Offered(y, z)
                             \/ Ending(y, z) \/ Judging(y, z) \/ GoingOn(y, z)
         /\ pc[z] = "start" => Accepted(y, z)
         /\ pc[z] \in ResetLabels \cup {"run"} => Started(y, z) \/ Streaming(y, z)
         /\ pc[z] \in EndLabels => Streaming(y, z)
         /\ pc[z] \in AfterLabels => \/ Offered(y, z) \/ Ending(y, z) \/ Judging(y, z)
                                     \/ GoingOn(y, z)
         /\ pc[z] = "report" => Ending(y, z) \/ Judging(y, z)
         /\ pc[z] = "finish" => Ending(y, z) \/ Judging(y, z) \/ Parting(y, z)
         /\ pc[z] = "done" => Parting(y, z)
BY DEF Conf, Opening, Pinged, Ponged, Greeting, GoingOn, Offered, Accepted, Started, Streaming,
   Ending, Judging, Parting, StreamingLabels, ResetLabels, EndLabels, AfterLabels

(* The two workers of a connection. *)
Linked(y, z) == y \in Workers /\ z \in Workers /\ z = Peer(y) /\ y = Peer(z) /\ y # z

LEMMA LinkedIs ==
  ASSUME NEW w \in Workers
  PROVE  Linked(w, Peer(w)) /\ Linked(Peer(w), w) /\ Peer(w)[1] # w[1]
<1>1. Peer(w) \in Workers /\ Peer(Peer(w)) = w /\ Peer(w) = <<Other(w[1]), w[2]>>
      /\ Other(w[1]) # w[1]
  BY PeerType, PeerOfPeer DEF Peer
<1>2. Peer(w)[1] # w[1]
  BY <1>1
<1> QED
  BY <1>1, <1>2 DEF Linked

(* One sends and one receives, unless one of them is ahead. *)
LEMMA RolesOf ==
  ASSUME TypeInv, NEW w \in Workers
  PROVE  /\ loc[w].phase \in {1, 2} /\ loc[Peer(w)].phase \in {1, 2}
         /\ loc[Peer(w)].phase = loc[w].phase => (Sender(Peer(w)) <=> ~Sender(w))
         /\ loc[Peer(w)].phase # loc[w].phase => (Sender(Peer(w)) <=> Sender(w))
<1> DEFINE u == Peer(w)
<1>1. /\ u \in Workers /\ w[1] \in {"listener", "connector"} /\ u[1] = Other(w[1])
      /\ u[2] = w[2] /\ Other("listener") = "connector" /\ Other("connector") = "listener"
  BY PeerType DEF Peer, Other, Sides
<1>2. loc[w].phase \in {1, 2} /\ loc[u].phase \in {1, 2}
  BY <1>1, PhaseType
<1> HIDE DEF u
<1>3. /\ Dir(w) \in {0, 1} /\ Dir(u) \in {0, 1}
      /\ Dir(w) = 1 <=> (w[2] \in ReverseConns <=> loc[w].phase = 1)
      /\ Dir(u) = 1 <=> (w[2] \in ReverseConns <=> loc[u].phase = 1)
  BY <1>1, DirIs
<1>4. /\ Sender(w) <=> (w[1] = "connector" <=> Dir(w) = 0)
      /\ Sender(u) <=> (u[1] = "connector" <=> Dir(u) = 0)
  BY DirIs
<1>5. u[1] = "connector" <=> w[1] # "connector"
  BY <1>1
<1>6. (loc[u].phase = loc[w].phase => (Dir(u) = 0 <=> Dir(w) = 0))
      /\ (loc[u].phase # loc[w].phase => (Dir(u) = 0 <=> Dir(w) # 0))
  BY <1>2, <1>3
<1>7. /\ loc[u].phase = loc[w].phase => (Sender(u) <=> ~Sender(w))
      /\ loc[u].phase # loc[w].phase => (Sender(u) <=> Sender(w))
  BY <1>4, <1>5, <1>6
<1> QED
  BY <1>2, <1>7 DEF u

(* The numbers of w. *)
LEMMA NatLocals ==
  ASSUME TypeInv, NEW w \in Workers
  PROVE  loc[w].i \in Nat /\ loc[w].n \in Nat /\ loc[w].round \in Nat /\ Size(w) \in Nat
BY SizeType DEF TypeInv, CoreType, LocalType

-----------------------------------------------------------------------------
(* What the sender of a connection reads and writes. *)

LEMMA PingSent ==
  ASSUME ~Udp, TypeInv, NEW y, NEW z, Linked(y, z), Conf(y, z), SendPing(y)
  PROVE  Conf(y, z)' /\ alive' = alive
<1>1. /\ y \in Workers /\ z \in Workers /\ z = Peer(y) /\ y # z /\ pc \in [Workers -> LabelSet]
      /\ HandshakeIter \in Nat /\ NoReport \in ReportType
  BY NoReportType, TalkAssumption DEF Linked, TypeInv, CoreType
<1>2. /\ pc[y] = "ping" /\ pc'[y] = "pong" /\ pc'[z] = pc[z] /\ loc' = loc /\ alive' = alive
      /\ Send(y, "PING", HandshakeIter, NoReport)
  BY <1>1 DEF SendPing, At, Goto
<1>3. Opening(y, z)
  BY <1>2, TalkerScene
<1>4. UnitsOf(y) = 1
  BY <1>2 DEF UnitsOf, HandshakeLabels
<1>5. Sent(z, 1, "PING", HandshakeIter) /\ OthersQuiet({z})
  BY <1>1, <1>2, <1>4, TcpSend DEF Ops
<1>6. Size(z)' = 1 /\ Msg(z)'.op = "PING" /\ Msg(z)'.n = HandshakeIter
  BY <1>3, <1>5, SentFirst DEF Opening, Silent
<1>7. Size(y)' = 0
  BY <1>1, <1>3, <1>5 DEF OthersQuiet, Size, Opening, Silent
<1>8. Pinged(y, z)'
  BY <1>2, <1>3, <1>6, <1>7 DEF Pinged, Opening
<1> QED
  BY <1>2, <1>8 DEF Conf

LEMMA PongRead ==
  ASSUME ~Udp, TypeInv, NEW y, NEW z, Linked(y, z), Conf(y, z), RecvPong(y)
  PROVE  Conf(y, z)' /\ alive' = alive
<1>1. /\ y \in Workers /\ z \in Workers /\ y # z /\ pc \in [Workers -> LabelSet]
      /\ loc \in [Workers -> LocalType] /\ loc[y].i \in Nat
  BY NatLocals DEF Linked, TypeInv, CoreType
<1>2. pc[y] = "pong" /\ Readable(y) /\ UnitsOf(y) = 1 /\ Size(y) >= 1
  BY TcpUnits DEF RecvPong, At, UnitsOf, HandshakeLabels
<1>3. Ponged(y, z)
  BY <1>2, TalkerScene DEF Pinged
<1>4. Got(y) = Msg(y) /\ ~Aborted(y) /\ Got(y).n = HandshakeIter
  BY <1>3 DEF Ponged, Got, Msg, Aborted
<1> DEFINE more == loc[y].i + 1 < HandshakeIter
<1>5. /\ Consume(y) /\ pc'[z] = pc[z] /\ loc'[z] = loc[z] /\ alive' = alive
      /\ loc' = [loc EXCEPT ![y].i = IF more THEN @ + 1 ELSE 0]
      /\ pc'[y] = IF more THEN "ping" ELSE "b_count1"
  BY <1>1, <1>4 DEF RecvPong, Goto
<1>6. Heard(y, 1) /\ OthersQuiet({y})
  BY <1>1, <1>2, <1>5, TcpRead
<1>7. Size(y)' = 0 /\ Size(z)' = 0
  BY <1>1, <1>3, <1>6 DEF Heard, OthersQuiet, Ponged, Size
<1>8. /\ loc'[y].i = (IF more THEN loc[y].i + 1 ELSE 0) /\ loc'[y].round = loc[y].round
  BY <1>1, <1>5 DEF LocalType
<1>9. CASE more
  <2>1. Opening(y, z)'
    BY <1>3, <1>5, <1>7, <1>8, <1>9 DEF Opening, Silent, Ponged
  <2> QED
    BY <1>5, <2>1 DEF Conf
<1>10. CASE ~more
  <2>1. Greeting(y, z)'
    BY <1>3, <1>5, <1>7, <1>8, <1>10 DEF Greeting, Silent, Ponged
  <2> QED
    BY <1>5, <2>1 DEF Conf
<1> QED
  BY <1>9, <1>10

LEMMA CountSent ==
  ASSUME ~Udp, TypeInv, NEW y, NEW z, Linked(y, z), Conf(y, z), SenderNegotiate(y),
         CountAsserted(y)
  PROVE  Conf(y, z)' /\ alive' = alive
<1> DEFINE c == cnt[y[1]][Dir(y)]
<1>1. /\ y \in Workers /\ z \in Workers /\ z = Peer(y) /\ y # z /\ pc \in [Workers -> LabelSet]
      /\ loc \in [Workers -> LocalType] /\ NoReport \in ReportType /\ c \in Nat
      /\ loc[y].round \in Nat
  BY NoReportType, NatLocals, DirType, PeerType DEF Linked, TypeInv, CoreType
<1>2. /\ pc[y] = "neg" /\ pc'[y] = "start" /\ pc'[z] = pc[z] /\ alive' = alive
      /\ loc' = [loc EXCEPT ![y].n = c, ![y].round = @ + 1]
      /\ Send(y, "COUNT", c, NoReport)
  BY <1>1 DEF SenderNegotiate, At, Goto
<1> HIDE DEF c
<1>3. Silent(y, z) /\ loc[y].round = loc[z].round /\ pc[z] \in AfterLabels \cup {"neg"}
  BY <1>2, TalkerScene DEF Greeting, GoingOn, Same
<1>4. UnitsOf(y) = 2
  BY <1>2 DEF UnitsOf, HandshakeLabels
<1>5. Sent(z, 2, "COUNT", c) /\ OthersQuiet({z})
  BY <1>1, <1>2, <1>4, TcpSend DEF Ops
<1>6. Size(z)' = 2 /\ Msg(z)'.op = "COUNT" /\ Msg(z)'.n = c
  BY <1>3, <1>5, SentFirst DEF Silent
<1>7. Size(y)' = 0
  BY <1>1, <1>3, <1>5 DEF OthersQuiet, Size, Silent
<1>8. loc'[y].n = c /\ loc'[y].round = loc[y].round + 1 /\ loc'[z] = loc[z]
  BY <1>1, <1>2 DEF LocalType
<1>9. Offered(y, z)'
  BY <1>2, <1>3, <1>6, <1>7, <1>8 DEF Offered
<1> QED
  BY <1>2, <1>9 DEF Conf

LEMMA StartRead ==
  ASSUME ~Udp, TypeInv, NEW y, NEW z, Linked(y, z), Conf(y, z), IdleOf(y), Sender(y), RecvStart(y)
  PROVE  Conf(y, z)' /\ alive' = alive
<1>1. /\ y \in Workers /\ z \in Workers /\ y # z /\ pc \in [Workers -> LabelSet]
      /\ loc[y].n \in Nat
  BY NatLocals DEF Linked, TypeInv, CoreType
<1>2. pc[y] = "start" /\ Readable(y) /\ UnitsOf(y) = 2 /\ Size(y) >= 2 /\ loc[y].i = 0
  BY TcpUnits DEF RecvStart, At, UnitsOf, HandshakeLabels, IdleOf, EndLabels
<1>3. Started(y, z)
  BY <1>2, TalkerScene DEF Offered, Accepted, Silent
<1>4. Got(y).op = "START"
  BY <1>3 DEF Started, Got, Msg
<1>5. Consume(y) /\ pc'[y] = "b_reset" /\ pc'[z] = pc[z] /\ loc' = loc /\ alive' = alive
  BY <1>1, <1>4 DEF RecvStart, Goto
<1>6. Heard(y, 2) /\ OthersQuiet({y})
  BY <1>1, <1>2, <1>5, TcpRead
<1>7. Size(y)' = 0 /\ Size(z)' = 0 /\ chan'[z] = chan[z]
  BY <1>1, <1>3, <1>6 DEF Heard, OthersQuiet, Started, Size
<1>8. DOMAIN chan[z] = 1 .. 0
  BY <1>1, <1>3, SizeType DEF Started
<1>9. Streaming(y, z)'
  <2>1. pc'[y] \in StreamingLabels \ EndLabels /\ pc'[z] \in StreamingLabels \ EndLabels
    BY <1>3, <1>5 DEF Started, StreamingLabels, ResetLabels, EndLabels
  <2>2. \A i \in DOMAIN chan'[z] : chan'[z][i][1].op \in {"RUN", "body"}
    BY <1>7, <1>8
  <2> QED
    BY <1>1, <1>2, <1>3, <1>5, <1>7, <2>1, <2>2 DEF Streaming, Started, Same
<1> QED
  BY <1>5, <1>9 DEF Conf

LEMMA RunSent ==
  ASSUME ~Udp, TypeInv, TypeInv', NEW y, NEW z, Linked(y, z), Conf(y, z), SendRun(y),
         loc[y].i < loc[y].n
  PROVE  Conf(y, z)' /\ alive' = alive
<1>1. /\ y \in Workers /\ z \in Workers /\ z = Peer(y) /\ y # z
      /\ loc \in [Workers -> LocalType] /\ NoReport \in ReportType
      /\ loc[y].i \in Nat /\ loc[y].n \in Nat /\ loc[z].i \in Nat /\ Size(z) \in Nat
  BY NoReportType, NatLocals DEF Linked, TypeInv, CoreType
<1>2. /\ pc[y] = "run" /\ pc' = pc /\ alive' = alive
      /\ loc' = [loc EXCEPT ![y].i = @ + 1]
      /\ Send(y, "RUN", loc[y].i, NoReport)
  BY DEF SendRun, At
<1>3. Streaming(y, z)
  BY <1>1, <1>2, TalkerScene DEF Ending
<1>4. UnitsOf(y) = 2
  BY <1>2 DEF UnitsOf, HandshakeLabels
<1>5. Sent(z, 2, "RUN", loc[y].i) /\ OthersQuiet({z})
  BY <1>1, <1>2, <1>4, TcpSend DEF Ops
<1>6. /\ loc'[y].i = loc[y].i + 1 /\ loc'[y].n = loc[y].n /\ loc'[y].round = loc[y].round
      /\ loc'[z] = loc[z]
  BY <1>1, <1>2 DEF LocalType
<1>7. Size(y)' = 0 /\ Size(z)' = Size(z) + 2
  BY <1>1, <1>3, <1>5 DEF OthersQuiet, Size, Sent, Streaming
<1>8. \A i \in DOMAIN chan'[z] : chan'[z][i][1].op \in {"RUN", "body"}
  <2>1. /\ DOMAIN chan[z] = 1 .. Size(z) /\ DOMAIN chan'[z] = 1 .. Size(z)'
    <3>1. chan' \in Wire
      BY DEF TypeInv
    <3>2. chan'[z] \in Seq(Segment)
      BY <1>1, <3>1 DEF Wire
    <3> QED
      BY <1>1, <3>2, SizeType, LenProperties DEF Size
  <2>2. \A i \in 1 .. Size(z) : chan'[z][i][1].op \in {"RUN", "body"}
    BY <1>3, <1>5, <2>1 DEF Streaming, Sent
  <2>3. /\ chan'[z][Size(z) + 1][1].op = "RUN" /\ chan'[z][Size(z) + 2][1].op = "body"
    BY <1>5 DEF Sent
  <2>4. \A i \in 1 .. Size(z) + 2 : i \in 1 .. Size(z) \/ i = Size(z) + 1 \/ i = Size(z) + 2
    BY <1>1
  <2> QED
    BY <1>7, <2>1, <2>2, <2>3, <2>4
<1>9. Streaming(y, z)'
  <2>1. /\ loc'[z].i <= loc'[y].i /\ loc'[y].i <= loc'[y].n
        /\ Size(z)' = 2 * (loc'[y].i - loc'[z].i)
    BY <1>1, <1>3, <1>6, <1>7 DEF Streaming
  <2>2. pc[y] \notin EndLabels
    BY <1>2 DEF EndLabels
  <2> QED
    BY <1>2, <1>3, <1>6, <1>7, <1>8, <2>1, <2>2 DEF Streaming, Same
<1> QED
  BY <1>2, <1>9 DEF Conf

LEMMA EndRead ==
  ASSUME ~Udp, TypeInv, NEW y, NEW z, Linked(y, z), Conf(y, z), Sender(y), RecvEnd(y)
  PROVE  /\ Conf(y, z)' /\ alive' = alive
         /\ loc'[y].weak => loc[y].n < WeakLimit
<1>1. /\ y \in Workers /\ z \in Workers /\ y # z /\ pc \in [Workers -> LabelSet]
      /\ loc \in [Workers -> LocalType]
  BY DEF Linked, TypeInv, CoreType
<1>2. pc[y] = "end" /\ Readable(y) /\ UnitsOf(y) = 2 /\ Size(y) >= 2
  BY TcpUnits DEF RecvEnd, At, UnitsOf, HandshakeLabels
<1>3. Ending(y, z)
  BY <1>2, TalkerScene DEF Streaming, EndLabels
<1>4. Got(y) = Msg(y) /\ Got(y).op \in {"END", "ENDWEAK"}
  BY <1>3 DEF Ending, Got, Msg, Ends
<1>5. /\ Consume(y) /\ pc'[y] = "b_mark" /\ pc'[z] = pc[z] /\ alive' = alive
      /\ loc' = [loc EXCEPT ![y].weak = (Got(y).op = "ENDWEAK"), ![y].i = 0]
  BY <1>1, <1>4 DEF RecvEnd, Goto
<1>6. Heard(y, 2) /\ OthersQuiet({y})
  BY <1>1, <1>2, <1>5, TcpRead
<1>7. Size(z)' = 0
  BY <1>1, <1>3, <1>6 DEF OthersQuiet, Ending, Size
<1>8. /\ loc'[y].n = loc[y].n /\ loc'[y].round = loc[y].round /\ loc'[z] = loc[z]
      /\ loc'[y].weak <=> Got(y).op = "ENDWEAK"
  BY <1>1, <1>5 DEF LocalType
<1>9. CASE pc[z] \in AfterLabels \cup {"neg", "report"}
  <2>1. Size(y)' = 0
    BY <1>3, <1>6, <1>9 DEF Ending, Heard, AfterLabels
  <2>2. Judging(y, z)'
    BY <1>3, <1>5, <1>7, <1>8, <1>9, <2>1 DEF Judging, Ending, Same, AfterLabels
  <2> QED
    BY <1>3, <1>4, <1>5, <1>8, <2>2 DEF Conf, Ending
<1>10. CASE pc[z] = "finish"
  <2>1. Size(y)' = 2 /\ Msg(y)' = chan[y][3][1] /\ chan[y][3][1].op = "REPORT"
    BY <1>3, <1>6, <1>10, HeardFirst DEF Ending, AfterLabels
  <2>2. Judging(y, z)'
    BY <1>3, <1>5, <1>7, <1>8, <1>10, <2>1 DEF Judging, Ending, Same, AfterLabels
  <2> QED
    BY <1>3, <1>4, <1>5, <1>8, <2>2 DEF Conf, Ending
<1> QED
  BY <1>3, <1>9, <1>10 DEF Ending

LEMMA ReportRead ==
  ASSUME ~Udp, TypeInv, NEW y, NEW z, Linked(y, z), Conf(y, z), Sender(y), RecvReport(y)
  PROVE  Conf(y, z)' /\ alive' = alive
<1>1. /\ y \in Workers /\ z \in Workers /\ y # z /\ pc \in [Workers -> LabelSet]
  BY DEF Linked, TypeInv, CoreType
<1>2. pc[y] = "report" /\ Readable(y) /\ UnitsOf(y) = 2 /\ Size(y) >= 2
  BY TcpUnits DEF RecvReport, At, UnitsOf, HandshakeLabels
<1>3. Judging(y, z) /\ pc[z] = "finish" /\ Size(y) = 2 /\ Msg(y).op = "REPORT"
  BY <1>2, TalkerScene DEF Judging
<1>4. Got(y).op = "REPORT"
  BY <1>3 DEF Got, Msg
<1>5. Consume(y) /\ pc'[y] = "finish" /\ pc'[z] = pc[z] /\ loc' = loc /\ alive' = alive
  BY <1>1, <1>4 DEF RecvReport, Goto
<1>6. Heard(y, 2) /\ OthersQuiet({y})
  BY <1>1, <1>2, <1>5, TcpRead
<1>7. Size(y)' = 0 /\ Size(z)' = 0
  BY <1>1, <1>3, <1>6 DEF Heard, OthersQuiet, Judging, Size
<1>8. Parting(y, z)'
  BY <1>3, <1>5, <1>7 DEF Judging, Parting, Same
<1> QED
  BY <1>5, <1>8 DEF Conf

(* The sender says FINISH: the talk is over for it. *)
LEMMA FinishSent ==
  ASSUME ~Udp, TypeInv, NEW y, NEW z, Linked(y, z), loc[z].phase = loc[y].phase, Sender(y),
         Conf(y, z), SendFinish(y)
  PROVE  /\ alive' = alive
         /\ \/ loc' = loc /\ Conf(y, z)'
            \/ /\ loc'[z] = loc[z] /\ loc'[y].phase = loc[y].phase + 1
               /\ (~Sender(y)' => Ahead(y, z)')
<1>1. /\ y \in Workers /\ z \in Workers /\ z = Peer(y) /\ y # z /\ pc \in [Workers -> LabelSet]
      /\ loc \in [Workers -> LocalType] /\ NoReport \in ReportType
  BY NoReportType DEF Linked, TypeInv, CoreType
<1>2. /\ pc[y] = "finish" /\ pc'[z] = pc[z] /\ alive' = alive /\ EndTalk(y)
      /\ Send(y, "FINISH", 0, NoReport)
  BY <1>1 DEF SendFinish, At, EndTalk, Goto
<1>3. Parting(y, z) /\ pc[z] = "finish" /\ Size(z) = 0 /\ Size(y) = 0
  BY <1>2, TalkerScene DEF Parting
<1>4. UnitsOf(y) = 2
  BY <1>2 DEF UnitsOf, HandshakeLabels
<1>5. Sent(z, 2, "FINISH", 0) /\ OthersQuiet({z})
  BY <1>1, <1>2, <1>4, TcpSend DEF Ops
<1>6. Size(z)' = 2 /\ Size(y)' = 0
  BY <1>1, <1>3, <1>5, SentFirst DEF OthersQuiet, Size
<1>7. CASE loc[y].phase < Phases
  <2>1. /\ loc' = [loc EXCEPT ![y].phase = @ + 1, ![y].i = 0, ![y].round = 0]
        /\ pc'[y] = "b_init"
    BY <1>1, <1>2, <1>7 DEF EndTalk, Goto
  <2>2. loc'[y].phase = loc[y].phase + 1 /\ loc'[y].i = 0 /\ loc'[z] = loc[z]
    BY <1>1, <2>1 DEF LocalType
  <2> QED
    BY <1>2, <1>3, <1>6, <2>1, <2>2 DEF Ahead
<1>8. CASE ~(loc[y].phase < Phases)
  <2>1. loc' = loc /\ pc'[y] = "done"
    BY <1>1, <1>2, <1>8 DEF EndTalk, Goto
  <2>2. Parting(y, z)'
    BY <1>2, <1>3, <1>6, <2>1 DEF Parting, Same
  <2> QED
    BY <1>2, <2>1, <2>2 DEF Conf
<1> QED
  BY <1>7, <1>8

-----------------------------------------------------------------------------
(* What the receiver of a connection reads and writes. *)

LEMMA PingRead ==
  ASSUME ~Udp, TypeInv, NEW y, NEW z, Linked(y, z), Conf(y, z), RoundOf(y), RoundOf(z),
         Handshake(z)
  PROVE  Conf(y, z)' /\ alive' = alive
<1>1. /\ y \in Workers /\ z \in Workers /\ y = Peer(z) /\ y # z /\ pc \in [Workers -> LabelSet]
      /\ loc \in [Workers -> LocalType] /\ loc[y].i \in Nat /\ loc[z].i \in Nat
      /\ HandshakeIter \in Nat /\ NoReport \in ReportType
  BY NatLocals, NoReportType, TalkAssumption DEF Linked, TypeInv, CoreType
<1>2. pc[z] = "hs" /\ Readable(z) /\ UnitsOf(z) = 1 /\ Size(z) >= 1
  BY TcpUnits DEF Handshake, At, UnitsOf, HandshakeLabels
<1>3. Pinged(y, z)
  BY <1>2, HearerScene DEF Opening, Silent, Ponged
<1>4. Got(z) = Msg(z) /\ Got(z).op = "PING" /\ Got(z).n = HandshakeIter
  BY <1>3 DEF Pinged, Got, Msg
<1> DEFINE more == loc[z].i + 1 < HandshakeIter
<1>5. /\ chan' = Put(Drop(chan, z, Needed(z)), z, Packet(z, "PONG", HandshakeIter, NoReport))
      /\ pc'[y] = pc[y] /\ loc'[y] = loc[y] /\ alive' = alive
      /\ loc' = [loc EXCEPT ![z].i = IF more THEN @ + 1 ELSE 0]
      /\ pc'[z] = IF more THEN "hs" ELSE "neg"
  BY <1>1, <1>4 DEF Handshake, Goto
<1>6. Heard(z, 1) /\ Sent(y, 1, "PONG", HandshakeIter)
  BY <1>1, <1>2, <1>5, TcpAnswer DEF Ops
<1>7. /\ Size(z)' = 0 /\ Size(y)' = 1 /\ Msg(y)'.op = "PONG" /\ Msg(y)'.n = HandshakeIter
  BY <1>3, <1>6, SentFirst DEF Heard, Pinged
<1>8. loc'[z].i = (IF more THEN loc[z].i + 1 ELSE 0) /\ loc'[z].round = loc[z].round
  BY <1>1, <1>5 DEF LocalType
<1>9. loc[y].round = loc[z].round
  BY <1>2, <1>3 DEF Pinged, RoundOf, PreLabels
<1>10. Ponged(y, z)'
  <2>1. pc'[y] = "pong" /\ loc[y].i = loc[z].i
    BY <1>3, <1>5 DEF Pinged
  <2> QED
    BY <1>5, <1>7, <1>8, <1>9, <2>1 DEF Ponged
<1> QED
  BY <1>5, <1>10 DEF Conf

LEMMA CountRead ==
  ASSUME ~Udp, TypeInv, NEW y, NEW z, Linked(y, z), Conf(y, z), ~Sender(z),
         pc[y] = "start" => loc[y].n < CountMax, ReceiverNegotiate(z)
  PROVE  /\ Conf(y, z)' /\ alive' = alive /\ pc[y] = "start"
         /\ loc' = [loc EXCEPT ![z].n = loc[y].n, ![z].round = @ + 1]
         /\ loc[y].round = loc[z].round + 1
<1>1. /\ y \in Workers /\ z \in Workers /\ y # z /\ pc \in [Workers -> LabelSet]
      /\ loc \in [Workers -> LocalType] /\ loc[z].round \in Nat
      /\ loc[y].n \in Nat /\ CountMax \in Nat
  BY NatLocals, TalkAssumption DEF Linked, TypeInv, CoreType
<1>2. pc[z] = "neg" /\ Readable(z) /\ UnitsOf(z) = 2 /\ Size(z) >= 2
  BY TcpUnits DEF ReceiverNegotiate, At, UnitsOf, HandshakeLabels
<1>3. Offered(y, z)
  BY <1>2, HearerScene DEF Ponged, Greeting, Ending, Judging, GoingOn, Silent
<1>4. Got(z) = Msg(z) /\ Got(z).op = "COUNT" /\ Got(z).n = loc[y].n /\ ~(Got(z).n >= CountMax)
  BY <1>1, <1>3 DEF Offered, Got, Msg
<1>5. /\ Consume(z) /\ pc'[z] = "start" /\ pc'[y] = pc[y] /\ alive' = alive
      /\ loc' = [loc EXCEPT ![z].n = loc[y].n, ![z].round = @ + 1]
  BY <1>1, <1>4 DEF ReceiverNegotiate, Goto
<1>6. Heard(z, 2) /\ OthersQuiet({z})
  BY <1>1, <1>2, <1>5, TcpRead
<1>7. Size(z)' = 0 /\ Size(y)' = 0
  BY <1>1, <1>3, <1>6 DEF Heard, OthersQuiet, Offered, Size
<1>8. loc'[z].n = loc[y].n /\ loc'[z].round = loc[z].round + 1 /\ loc'[y] = loc[y]
  BY <1>1, <1>5 DEF LocalType
<1>9. Accepted(y, z)'
  BY <1>3, <1>5, <1>7, <1>8 DEF Accepted, Offered, Silent, Same
<1> QED
  BY <1>3, <1>5, <1>9 DEF Conf, Offered

LEMMA StartSent ==
  ASSUME ~Udp, TypeInv, NEW y, NEW z, Linked(y, z), Conf(y, z), IdleOf(z), ~Sender(z), SendStart(z)
  PROVE  Conf(y, z)' /\ alive' = alive
<1>1. /\ y \in Workers /\ z \in Workers /\ y = Peer(z) /\ y # z /\ pc \in [Workers -> LabelSet]
      /\ NoReport \in ReportType /\ loc[z].n \in Nat
  BY NoReportType, NatLocals DEF Linked, TypeInv, CoreType
<1>2. /\ pc[z] = "start" /\ pc'[z] = "b_reset" /\ pc'[y] = pc[y] /\ alive' = alive /\ loc' = loc
      /\ Send(z, "START", loc[z].n, NoReport)
  BY <1>1 DEF SendStart, At, Goto
<1>3. Accepted(y, z) /\ loc[z].i = 0
  BY <1>2, HearerScene DEF IdleOf, EndLabels
<1>4. UnitsOf(z) = 2
  BY <1>2 DEF UnitsOf, HandshakeLabels
<1>5. Sent(y, 2, "START", loc[z].n) /\ OthersQuiet({y})
  BY <1>1, <1>2, <1>4, TcpSend DEF Ops
<1>6. Size(y)' = 2 /\ Msg(y)'.op = "START"
  BY <1>3, <1>5, SentFirst DEF Accepted, Silent
<1>7. Size(z)' = 0
  BY <1>1, <1>3, <1>5 DEF OthersQuiet, Size, Accepted, Silent
<1>8. Started(y, z)'
  BY <1>2, <1>3, <1>6, <1>7 DEF Started, Accepted, Same, ResetLabels
<1> QED
  BY <1>2, <1>8 DEF Conf

LEMMA RunRead ==
  ASSUME ~Udp, TypeInv, TypeInv', NEW y, NEW z, Linked(y, z), Conf(y, z), ~Sender(z), RecvRun(z),
         loc[z].i < loc[z].n
  PROVE  Conf(y, z)' /\ alive' = alive
<1>1. /\ y \in Workers /\ z \in Workers /\ y # z /\ loc \in [Workers -> LocalType]
      /\ loc[y].i \in Nat /\ loc[y].n \in Nat /\ loc[z].i \in Nat /\ loc[z].n \in Nat
      /\ Size(z) \in Nat
  BY NatLocals DEF Linked, TypeInv, CoreType
<1>2. pc[z] = "run" /\ Readable(z) /\ UnitsOf(z) = 2 /\ Size(z) >= 2
  BY <1>1, TcpUnits DEF RecvRun, At, UnitsOf, HandshakeLabels
<1>3. Streaming(y, z)
  BY <1>2, HearerScene DEF Started
<1>4. /\ DOMAIN chan[z] = 1 .. Size(z) /\ DOMAIN chan'[z] = 1 .. Size(z)'
  <2>1. chan' \in Wire
    BY DEF TypeInv
  <2>2. chan'[z] \in Seq(Segment)
    BY <1>1, <2>1 DEF Wire
  <2>3. DOMAIN chan'[z] = 1 .. Size(z)'
    BY <2>2, LenProperties DEF Size
  <2> QED
    BY <1>1, <2>3, SizeType
<1>5. ~Aborted(z)
  <2>0. 1 \in DOMAIN chan[z]
    BY <1>1, <1>2, <1>4
  <2>1. chan[z][1][1].op \in {"RUN", "body"}
    BY <1>3, <2>0 DEF Streaming
  <2> QED
    BY <2>1 DEF Aborted, Got
<1>6. /\ Consume(z) /\ pc' = pc /\ alive' = alive
      /\ loc' = [loc EXCEPT ![z].i = @ + 1]
  BY <1>1, <1>5 DEF RecvRun
<1>7. Heard(z, 2) /\ OthersQuiet({z})
  BY <1>1, <1>2, <1>6, TcpRead
<1>8. Size(z)' = Size(z) - 2 /\ Size(y)' = 0
  BY <1>1, <1>3, <1>7 DEF Heard, OthersQuiet, Streaming, Size
<1>9. /\ loc'[z].i = loc[z].i + 1 /\ loc'[z].n = loc[z].n /\ loc'[z].round = loc[z].round
      /\ loc'[y] = loc[y]
  BY <1>1, <1>6 DEF LocalType
<1>10. \A i \in DOMAIN chan'[z] : chan'[z][i][1].op \in {"RUN", "body"}
  <2> SUFFICES ASSUME NEW i \in 1 .. Size(z) - 2
               PROVE  chan'[z][i][1].op \in {"RUN", "body"}
    BY <1>4, <1>8
  <2>1. chan'[z][i] = chan[z][i + 2]
    BY <1>7 DEF Heard
  <2>2. i + 2 \in DOMAIN chan[z]
    BY <1>1, <1>4
  <2> QED
    BY <1>3, <2>1, <2>2 DEF Streaming
<1>11. Streaming(y, z)'
  <2>1. /\ loc'[z].i <= loc'[y].i /\ loc'[y].i <= loc'[y].n
        /\ Size(z)' = 2 * (loc'[y].i - loc'[z].i)
    BY <1>1, <1>2, <1>3, <1>8, <1>9 DEF Streaming
  <2>2. pc[z] \notin EndLabels
    BY <1>2 DEF EndLabels
  <2> QED
    BY <1>3, <1>6, <1>8, <1>9, <1>10, <2>1, <2>2 DEF Streaming, Same
<1> QED
  BY <1>6, <1>11 DEF Conf

(* The receiver ends the stream.  The sender cannot be as far back as the barriers
   before it, for there is at least one packet in a stream.                   *)
LEMMA EndSent ==
  ASSUME ~Udp, TypeInv, NEW y, NEW z, Linked(y, z), Conf(y, z), IdleOf(y), loc[y].n >= 1,
         ~Sender(z), SendEnd(z)
  PROVE  /\ Conf(y, z)' /\ alive' = alive
         /\ loc'[z].weak => loc[z].n < WeakLimit
<1>1. /\ y \in Workers /\ z \in Workers /\ y = Peer(z) /\ y # z /\ pc \in [Workers -> LabelSet]
      /\ loc \in [Workers -> LocalType] /\ NoReport \in ReportType
      /\ loc[y].i \in Nat /\ loc[y].n \in Nat /\ loc[z].i \in Nat /\ loc[z].n \in Nat
      /\ Size(z) \in Nat
  BY NatLocals, NoReportType DEF Linked, TypeInv, CoreType
<1>2. pc[z] = "end" /\ pc'[z] = "b_mark" /\ pc'[y] = pc[y] /\ alive' = alive
  BY <1>1 DEF SendEnd, At, Goto
<1>3. PICK wk \in {b \in BOOLEAN : b => loc[z].n < WeakLimit \/ loc[z].i < loc[z].n} :
        /\ Send(z, IF wk THEN "ENDWEAK" ELSE "END", 0, NoReport)
        /\ loc' = [loc EXCEPT ![z].weak = wk, ![z].i = 0]
  BY DEF SendEnd
<1>4. Streaming(y, z) /\ loc[z].i = loc[z].n
  BY <1>2, HearerScene DEF Streaming, EndLabels
<1>5. loc[y].i = loc[y].n /\ Size(z) = 0
  BY <1>1, <1>4 DEF Streaming, Same
<1>6. pc[y] \in EndLabels \cup {"run"}
  BY <1>4, <1>5 DEF Streaming, StreamingLabels, ResetLabels, EndLabels, IdleOf
<1> DEFINE op == IF wk THEN "ENDWEAK" ELSE "END"
<1>7. op \in Ends /\ op \in Ops /\ (op = "ENDWEAK" => loc[y].n < WeakLimit)
      /\ (wk => loc[z].n < WeakLimit)
  BY <1>1, <1>4 DEF Ends, Ops, Streaming, Same
<1>8. UnitsOf(z) = 2
  BY <1>2 DEF UnitsOf, HandshakeLabels
<1>9. Send(z, op, 0, NoReport)
  BY <1>3
<1> HIDE DEF op
<1>10. Sent(y, 2, op, 0) /\ OthersQuiet({y})
  BY <1>1, <1>7, <1>8, <1>9, TcpSend
<1>11. Size(y)' = 2 /\ Msg(y)'.op = op
  BY <1>4, <1>10, SentFirst DEF Streaming
<1>12. Size(z)' = 0
  BY <1>1, <1>5, <1>10 DEF OthersQuiet, Size
<1>13. /\ loc'[y] = loc[y] /\ loc'[z].n = loc[z].n /\ loc'[z].round = loc[z].round
       /\ loc'[z].weak = wk
  BY <1>1, <1>3 DEF LocalType
<1>14. Ending(y, z)'
  BY <1>2, <1>4, <1>5, <1>6, <1>7, <1>11, <1>12, <1>13 DEF Ending, Streaming, Same, AfterLabels
<1> QED
  BY <1>2, <1>7, <1>13, <1>14 DEF Conf

LEMMA ReportSent ==
  ASSUME ~Udp, TypeInv, NEW y, NEW z, Linked(y, z), Conf(y, z), ~Sender(z), SendReport(z)
  PROVE  Conf(y, z)' /\ alive' = alive
<1>1. /\ y \in Workers /\ z \in Workers /\ y = Peer(z) /\ y # z /\ pc \in [Workers -> LabelSet]
      /\ report[z][Dir(z)] \in ReportType
  BY DirType DEF Linked, TypeInv, CoreType
<1>2. /\ pc[z] = "report" /\ pc'[z] = "finish" /\ pc'[y] = pc[y] /\ alive' = alive /\ loc' = loc
      /\ Send(z, "REPORT", 0, report[z][Dir(z)])
  BY <1>1 DEF SendReport, At, Goto
<1>3. UnitsOf(z) = 2
  BY <1>2 DEF UnitsOf, HandshakeLabels
<1>4. Sent(y, 2, "REPORT", 0) /\ OthersQuiet({y})
  BY <1>1, <1>2, <1>3, TcpSend DEF Ops
<1>5. chan'[z] = chan[z]
  BY <1>1, <1>4 DEF OthersQuiet
<1>6. CASE Ending(y, z)
  <2>1. Size(y)' = 4 /\ Msg(y)' = Msg(y) /\ chan'[y][3][1].op = "REPORT"
    BY <1>2, <1>4, <1>6, SentSecond DEF Ending
  <2>2. Ending(y, z)'
    BY <1>2, <1>5, <1>6, <2>1 DEF Ending, Same, Size
  <2> QED
    BY <1>2, <2>2 DEF Conf
<1>7. CASE Judging(y, z)
  <2>1. Size(y)' = 2 /\ Msg(y)'.op = "REPORT"
    BY <1>2, <1>4, <1>7, SentFirst DEF Judging
  <2>2. Judging(y, z)'
    BY <1>2, <1>5, <1>7, <2>1 DEF Judging, Same, Size
  <2> QED
    BY <1>2, <2>2 DEF Conf
<1> QED
  BY <1>2, <1>6, <1>7, HearerScene

(* The receiver reads FINISH: behind a sender that is done, ... *)
LEMMA FinishRead ==
  ASSUME ~Udp, TypeInv, NEW y, NEW z, Linked(y, z), loc[z].phase = loc[y].phase, InvDone,
         Conf(y, z), ~Sender(z), RecvFinish(z)
  PROVE  Conf(y, z)' /\ alive' = alive /\ loc' = loc
<1>1. /\ y \in Workers /\ z \in Workers /\ y # z /\ pc \in [Workers -> LabelSet]
  BY DEF Linked, TypeInv, CoreType
<1>2. /\ pc[z] = "finish" /\ Readable(z) /\ UnitsOf(z) = 2 /\ Size(z) >= 2
      /\ Consume(z) /\ EndTalk(z) /\ alive' = alive
  BY TcpUnits DEF RecvFinish, At, UnitsOf, HandshakeLabels
<1>3. Parting(y, z) /\ pc[y] = "done" /\ Size(z) = 2
  BY <1>2, HearerScene DEF Parting, Ending, Judging
<1>4. ~(loc[z].phase < Phases)
  BY <1>1, <1>3, PhaseType DEF InvDone
<1>5. loc' = loc /\ pc'[z] = "done" /\ pc'[y] = pc[y]
  BY <1>1, <1>2, <1>4 DEF EndTalk, Goto
<1>6. Heard(z, 2) /\ OthersQuiet({z})
  BY <1>1, <1>2, TcpRead
<1>7. Size(z)' = 0 /\ Size(y)' = 0
  BY <1>1, <1>3, <1>6 DEF Heard, OthersQuiet, Parting, Size
<1>8. Parting(y, z)'
  BY <1>3, <1>5, <1>7 DEF Parting, Same
<1> QED
  BY <1>2, <1>5, <1>8 DEF Conf

(* ... or behind one that waits for the next talk, in which it will receive. *)
LEMMA AheadRead ==
  ASSUME ~Udp, TypeInv, NEW y, NEW z, Linked(y, z), Ahead(y, z), RecvFinish(z)
  PROVE  /\ Opening(z, y)' /\ alive' = alive
         /\ loc'[z].phase = loc[y].phase /\ loc'[y] = loc[y]
<1>1. /\ y \in Workers /\ z \in Workers /\ y # z /\ pc \in [Workers -> LabelSet]
      /\ loc \in [Workers -> LocalType] /\ loc[z].phase < Phases
  <2>1. y \in Workers /\ z \in Workers
    BY DEF Linked
  <2> QED
    BY <2>1, PhaseType DEF Linked, TypeInv, CoreType, Ahead
<1>2. /\ pc[z] = "finish" /\ Readable(z) /\ UnitsOf(z) = 2
      /\ Consume(z) /\ EndTalk(z) /\ alive' = alive
  BY TcpUnits DEF RecvFinish, At, UnitsOf, HandshakeLabels
<1>3. /\ loc' = [loc EXCEPT ![z].phase = @ + 1, ![z].i = 0, ![z].round = 0]
      /\ pc'[z] = "b_init" /\ pc'[y] = pc[y]
  BY <1>1, <1>2 DEF EndTalk, Goto
<1>4. loc'[z].phase = loc[z].phase + 1 /\ loc'[z].i = 0 /\ loc'[y] = loc[y]
  BY <1>1, <1>3 DEF LocalType
<1>5. Heard(z, 2) /\ OthersQuiet({z})
  BY <1>1, <1>2, TcpRead
<1>6. Size(z)' = 0 /\ Size(y)' = 0
  BY <1>1, <1>5 DEF Heard, OthersQuiet, Ahead, Size
<1> QED
  BY <1>2, <1>3, <1>4, <1>6 DEF Opening, Silent, Ahead

-----------------------------------------------------------------------------
(* The counts.  SetCount and Recount are the work of one worker of a team; every
   count that is negotiated is at least the default and below the maximum.    *)
CountOf(w) == cnt[w[1]][Dir(w)]
Counts == CountDefault .. CountMax - 1
SerialOf(w) == \A u \in Team(w) :
                 pc[u] = pc[w] /\ pc[w] \in {"setcount", "recount"} => u = w
CountsOf(w) == Sender(w) =>
  /\ pc[w] = "b_count2" => CountOf(w) = CountDefault \/ \E u \in Team(w) : pc[u] = "setcount"
  /\ pc[w] \notin PreLabels => CountOf(w) \in Counts
  /\ loc[w].round >= 1 => CountDefault <= loc[w].n /\ loc[w].n <= CountOf(w)
  /\ loc[w].round >= 1 /\ pc[w] \notin {"b_re2", "neg"} => loc[w].n = CountOf(w)
  /\ loc[w].weak /\ pc[w] \in AfterLabels \cup {"b_re1", "recount"} => loc[w].n < WeakLimit
InvCounts == \A w \in Workers : SerialOf(w) /\ CountsOf(w)

LEMMA CountsGive ==
  ASSUME TypeInv, NEW y \in Workers, Sender(y), CountsOf(y), RoundOf(y)
  PROVE  /\ pc[y] = "neg" => CountAsserted(y)
         /\ pc[y] \notin PreLabels \cup {"neg"} => loc[y].n >= 1 /\ loc[y].n < CountMax
<1>1. /\ CountDefault \in Nat /\ CountDefault >= 1 /\ CountMax \in Nat
      /\ loc[y].n \in Nat /\ loc[y].round \in Nat
  BY TalkAssumption, NatLocals
<1>2. pc[y] \notin PreLabels => /\ CountOf(y) >= CountDefault /\ CountOf(y) <= CountMax - 1
                                /\ CountOf(y) \in Nat
  BY <1>1 DEF CountsOf, Counts
<1>3. pc[y] = "neg" => CountAsserted(y)
  BY <1>1, <1>2 DEF CountAsserted, CountOf, PreLabels
<1>4. pc[y] \notin PreLabels \cup {"neg"} => loc[y].round >= 1
  BY DEF RoundOf
<1>5. loc[y].round >= 1 => CountDefault <= loc[y].n /\ loc[y].n <= CountOf(y)
  BY DEF CountsOf
<1> QED
  BY <1>1, <1>2, <1>3, <1>4, <1>5

-----------------------------------------------------------------------------
(* A step of the sender of a connection. *)

(* No worker has closed the talk while one of the other side goes on. *)
NoSplit == \A w, u \in Workers :
             /\ pc[w] \in {"report", "finish", "done"} /\ u[1] # w[1]
             /\ loc[u].phase = loc[w].phase /\ Going(u)
             => Base(u) # loc[w].round

(* The workers of a connection whose peer process has completed do not miss it. *)
Served(w) == PeerGone(w) => ~Sending(w) /\ (Receiving(w) => Readable(w))

(* The moves of a worker by itself. *)
LEMMA QuietSteps ==
  ASSUME TypeInv, InvRole, NEW w \in Workers, NEW u \in Workers, u # w,
         \/ TalkInit(w) \/ SetCount(w) \/ Reset(w) \/ Mark(w) \/ Return(w) \/ Decide(w)
         \/ Recount(w)
         \/ SendRun(w) /\ ~(loc[w].i < loc[w].n)
         \/ RecvRun(w) /\ ~(loc[w].i < loc[w].n)
  PROVE  /\ alive' = alive /\ loc' = loc /\ chan' = chan /\ pc'[u] = pc[u]
         /\ Sender(w) => <<pc[w], pc'[w]>> \in TalkerQuiet
         /\ ~Sender(w) => <<pc[w], pc'[w]>> \in HearerQuiet
         /\ pc[w] = "run" => loc[w].i >= loc[w].n
<1>0. /\ pc \in [Workers -> LabelSet] /\ loc[w].i \in Nat /\ loc[w].n \in Nat
      /\ pc[w] \in SenderLabels => Sender(w)
  BY NatLocals DEF TypeInv, CoreType, InvRole
<1>1. CASE TalkInit(w) \/ Reset(w) \/ Mark(w) \/ Return(w)
  BY <1>0, <1>1
  DEF TalkInit, Reset, Mark, Return, Goto, At, TalkerQuiet, HearerQuiet, CommonQuiet
<1>2. CASE SetCount(w) \/ Recount(w)
  BY <1>0, <1>2 DEF SetCount, Recount, Goto, At, TalkerQuiet, SenderLabels
<1>3. CASE Decide(w)
  BY <1>0, <1>3 DEF Decide, Goto, At, TalkerQuiet, HearerQuiet, CommonQuiet
<1>4. CASE SendRun(w) /\ ~(loc[w].i < loc[w].n)
  BY <1>0, <1>4 DEF SendRun, Goto, At, TalkerQuiet, HearerQuiet, CommonQuiet
<1>5. CASE RecvRun(w) /\ ~(loc[w].i < loc[w].n)
  BY <1>0, <1>5 DEF RecvRun, Goto, At, TalkerQuiet, HearerQuiet, CommonQuiet
<1> QED
  BY <1>1, <1>2, <1>3, <1>4, <1>5

(* A worker does not decide against its peer. *)
LEMMA TalkerDecides ==
  ASSUME TypeInv, NEW y, NEW z, Linked(y, z), y[1] # z[1], loc[z].phase = loc[y].phase,
         Conf(y, z), RoundOf(y), NoSplit', loc' = loc, pc'[z] = pc[z],
         <<pc[y], pc'[y]>> \in TalkerQuiet
  PROVE  /\ pc'[y] = "report" => pc[z] # "neg"
         /\ pc'[y] = "b_re1" => pc[z] \notin {"report", "finish"}
<1>1. y \in Workers /\ z \in Workers /\ loc[y].round \in Nat /\ loc[z].round \in Nat
  BY NatLocals DEF Linked
<1>2. ASSUME pc'[y] \in {"report", "b_re1"}
      PROVE  pc[y] \in {"ret", "decide"} /\ loc[y].round = loc[z].round /\ loc[y].round >= 1
  <2>1. pc[y] \in {"ret", "decide"}
    BY <1>2 DEF TalkerQuiet, CommonQuiet
  <2>2. Judging(y, z)
    BY <2>1, TalkerScene DEF AfterLabels
  <2> QED
    BY <2>1, <2>2 DEF Judging, Same, RoundOf, PreLabels
<1>3. ASSUME pc'[y] = "report", pc[z] = "neg"
      PROVE  FALSE
  <2>1. Going(z)' /\ Base(z)' = loc'[y].round
    BY <1>2, <1>3 DEF Going, Base
  <2> QED
    BY <1>1, <1>3, <2>1 DEF NoSplit
<1>4. ASSUME pc'[y] = "b_re1", pc[z] \in {"report", "finish"}
      PROVE  FALSE
  <2>1. Going(y)' /\ Base(y)' = loc'[z].round
    BY <1>2, <1>4 DEF Going, Base
  <2> QED
    BY <1>1, <1>4, <2>1 DEF NoSplit
<1> QED
  BY <1>3, <1>4

LEMMA HearerDecides ==
  ASSUME TypeInv, NEW y, NEW z, Linked(y, z), y[1] # z[1], loc[z].phase = loc[y].phase,
         Conf(y, z), RoundOf(z), NoSplit', loc' = loc, pc'[y] = pc[y],
         <<pc[z], pc'[z]>> \in HearerQuiet
  PROVE  /\ pc'[z] = "report" => pc[y] \notin {"b_re1", "recount", "b_re2", "neg", "start"}
         /\ pc'[z] = "neg" => pc[y] # "report"
<1>1. y \in Workers /\ z \in Workers /\ loc[y].round \in Nat /\ loc[z].round \in Nat
  BY NatLocals DEF Linked
<1>2. ASSUME pc'[z] \in {"report", "neg"}
      PROVE  /\ pc[z] \in {"ret", "decide"} /\ loc[z].round >= 1
             /\ pc[y] = "start" => loc[y].round = loc[z].round + 1
             /\ pc[y] # "start" => loc[y].round = loc[z].round
  <2>1. pc[z] \in {"ret", "decide"}
    BY <1>2 DEF HearerQuiet, CommonQuiet
  <2>2. Offered(y, z) \/ Ending(y, z) \/ Judging(y, z) \/ GoingOn(y, z)
    BY <2>1, HearerScene DEF AfterLabels
  <2>3. loc[z].round >= 1
    BY <2>1 DEF RoundOf, PreLabels
  <2>4. /\ pc[y] = "start" => loc[y].round = loc[z].round + 1
        /\ pc[y] # "start" => loc[y].round = loc[z].round
    BY <2>2 DEF Offered, Ending, Judging, GoingOn, Same, EndLabels, AfterLabels
  <2> QED
    BY <2>1, <2>3, <2>4
<1>3. ASSUME pc'[z] = "report", pc[y] \in {"b_re1", "recount", "b_re2", "neg", "start"}
      PROVE  FALSE
  <2>1. Base(y)' = loc'[z].round
    BY <1>1, <1>2, <1>3 DEF Base
  <2>2. Going(y)'
    BY <1>2, <1>3, <2>1 DEF Going
  <2> QED
    BY <1>1, <1>3, <2>1, <2>2 DEF NoSplit
<1>4. ASSUME pc'[z] = "neg", pc[y] = "report"
      PROVE  FALSE
  <2>1. Going(z)' /\ Base(z)' = loc'[y].round
    BY <1>2, <1>4 DEF Going, Base
  <2> QED
    BY <1>1, <1>4, <2>1 DEF NoSplit
<1> QED
  BY <1>3, <1>4

(* What a step of the sender makes of the conversation: it never fails. *)
LEMMA TalkerTurn ==
  ASSUME Reliable, TypeInv, TypeInv', InvRole, NEW y, NEW z, Linked(y, z), y[1] # z[1],
         loc[z].phase = loc[y].phase, Sender(y), Conf(y, z), RoundOf(y), CountsOf(y), IdleOf(y),
         Served(y), NoSplit', Acts(y)
  PROVE  /\ alive' = alive
         /\ \/ loc'[y].phase = loc[y].phase /\ Conf(y, z)'
            \/ /\ loc'[y].phase = loc[y].phase + 1 /\ SendFinish(y)
               /\ (~Sender(y)' => Ahead(y, z)')
<1>0. /\ y \in Workers /\ z \in Workers /\ y # z /\ ~Udp /\ loc \in [Workers -> LocalType]
      /\ pc[y] # "hs" /\ timeouts \in Nat /\ MaxTimeouts = 0
  BY TalkerScene DEF Linked, Reliable, TypeInv, CoreType
<1> DEFINE Goal == /\ alive' = alive
                   /\ \/ loc'[y].phase = loc[y].phase /\ Conf(y, z)'
                      \/ /\ loc'[y].phase = loc[y].phase + 1 /\ SendFinish(y)
                         /\ (~Sender(y)' => Ahead(y, z)')
<1>1. CASE SendPing(y) \/ RecvPong(y) \/ SenderNegotiate(y) \/ RecvStart(y)
  <2>1. Conf(y, z)' /\ alive' = alive
    <3>1. pc[y] = "neg" => CountAsserted(y)
      BY <1>0, CountsGive
    <3>2. SenderNegotiate(y) => pc[y] = "neg"
      BY DEF SenderNegotiate, At
    <3> QED
      BY <1>0, <1>1, <3>1, <3>2, PingSent, PongRead, CountSent, StartRead
  <2>2. loc'[y].phase = loc[y].phase
    BY <1>0, <1>1
    DEF SendPing, RecvPong, SenderNegotiate, RecvStart, FailReceived, Fail, Exit, LocalType
  <2> QED
    BY <2>1, <2>2
<1>2. CASE (SendRun(y) /\ loc[y].i < loc[y].n) \/ RecvEnd(y) \/ RecvReport(y)
  <2>1. Conf(y, z)' /\ alive' = alive
    BY <1>0, <1>2, RunSent, EndRead, ReportRead
  <2>2. loc'[y].phase = loc[y].phase
    BY <1>0, <1>2
    DEF SendRun, RecvEnd, RecvReport, FailReceived, Fail, Exit, LocalType
  <2> QED
    BY <2>1, <2>2
<1>3. CASE SendFinish(y)
  <2>1. /\ alive' = alive
        /\ \/ loc' = loc /\ Conf(y, z)'
           \/ /\ loc'[z] = loc[z] /\ loc'[y].phase = loc[y].phase + 1
              /\ (~Sender(y)' => Ahead(y, z)')
    BY <1>0, <1>3, FinishSent
  <2> QED
    BY <1>3, <2>1
<1>4. CASE \/ TalkInit(y) \/ SetCount(y) \/ Reset(y) \/ Mark(y) \/ Return(y) \/ Decide(y)
           \/ Recount(y) \/ (SendRun(y) /\ ~(loc[y].i < loc[y].n))
  <2>1. /\ alive' = alive /\ loc' = loc /\ chan' = chan /\ pc'[z] = pc[z]
        /\ <<pc[y], pc'[y]>> \in TalkerQuiet
        /\ pc[y] = "run" => loc[y].i >= loc[y].n
    BY <1>0, <1>4, QuietSteps
  <2>2. /\ pc'[y] = "report" => pc[z] # "neg"
        /\ pc'[y] = "b_re1" => pc[z] \notin {"report", "finish"}
    BY <2>1, TalkerDecides
  <2>3. StillPair(y, z)
    BY <2>1 DEF StillPair
  <2>4. Conf(y, z)'
    BY <1>0, <2>1, <2>2, <2>3, QuietTalker
  <2> QED
    BY <2>1, <2>4
<1>5. CASE RecvReset(y) \/ SendReset(y)
  BY <1>5 DEF Served, RecvReset, SendReset
<1>6. CASE RecvTimeout(y)
  BY <1>0, <1>6 DEF RecvTimeout
<1>7. ~(Handshake(y) \/ ReceiverNegotiate(y) \/ SendStart(y) \/ RecvRun(y) \/ SendEnd(y)
        \/ SendReport(y) \/ RecvFinish(y))
  BY <1>0 DEF Handshake, ReceiverNegotiate, SendStart, RecvRun, SendEnd, SendReport, RecvFinish,
              At
<1> HIDE DEF Goal
<1>8. Goal
  BY <1>1, <1>2, <1>3, <1>4, <1>5, <1>6, <1>7 DEF Acts, Step, Goal
<1> QED
  BY <1>8 DEF Goal

(* ... and neither does one of the receiver. *)
LEMMA HearerTurn ==
  ASSUME Reliable, TypeInv, TypeInv', InvRole, InvDone, NEW y, NEW z, Linked(y, z), y[1] # z[1],
         loc[z].phase = loc[y].phase, Sender(y), ~Sender(z), Conf(y, z), RoundOf(y), RoundOf(z),
         CountsOf(y), IdleOf(y), IdleOf(z), Served(z), NoSplit', Acts(z)
  PROVE  alive' = alive /\ loc'[z].phase = loc[z].phase /\ Conf(y, z)'
<1>0. /\ y \in Workers /\ z \in Workers /\ y # z /\ ~Udp /\ loc \in [Workers -> LocalType]
      /\ pc[z] \notin SenderLabels /\ timeouts \in Nat /\ MaxTimeouts = 0
  BY DEF Linked, Reliable, TypeInv, CoreType, InvRole
<1>1. pc[y] \notin PreLabels \cup {"neg"} => loc[y].n >= 1 /\ loc[y].n < CountMax
  BY <1>0, CountsGive
<1>2. pc[y] = "start" => loc[y].n >= 1 /\ loc[y].n < CountMax
  BY <1>1 DEF PreLabels
<1> DEFINE Goal == alive' = alive /\ loc'[z].phase = loc[z].phase /\ Conf(y, z)'
<1>3. CASE Handshake(z) \/ ReceiverNegotiate(z) \/ SendStart(z)
  <2>1. Conf(y, z)' /\ alive' = alive
    BY <1>0, <1>2, <1>3, PingRead, CountRead, StartSent
  <2>2. loc'[z].phase = loc[z].phase
    BY <1>0, <1>3
    DEF Handshake, ReceiverNegotiate, SendStart, FailReceived, Fail, Exit, LocalType
  <2> QED
    BY <2>1, <2>2
<1>4. CASE SendEnd(z)
  <2>0. pc[z] = "end"
    BY <1>4 DEF SendEnd, At
  <2>1. pc[y] \in StreamingLabels
    BY <2>0, HearerScene DEF Streaming, EndLabels
  <2>2. loc[y].n >= 1
    BY <1>1, <2>1 DEF PreLabels, StreamingLabels, ResetLabels, EndLabels
  <2>3. Conf(y, z)' /\ alive' = alive
    BY <1>0, <1>4, <2>2, EndSent
  <2>4. loc'[z].phase = loc[z].phase
    BY <1>0, <1>4 DEF SendEnd, LocalType
  <2> QED
    BY <2>3, <2>4
<1>5. CASE (RecvRun(z) /\ loc[z].i < loc[z].n) \/ SendReport(z) \/ RecvFinish(z)
  <2>1. Conf(y, z)' /\ alive' = alive
    BY <1>0, <1>5, RunRead, ReportSent, FinishRead
  <2>2. loc'[z].phase = loc[z].phase
    <3>1. CASE RecvFinish(z)
      BY <1>0, <3>1, FinishRead
    <3>2. CASE RecvRun(z) \/ SendReport(z)
      BY <1>0, <3>2 DEF RecvRun, SendReport, Exit, LocalType
    <3> QED
      BY <1>5, <3>1, <3>2
  <2> QED
    BY <2>1, <2>2
<1>6. CASE \/ TalkInit(z) \/ SetCount(z) \/ Reset(z) \/ Mark(z) \/ Return(z) \/ Decide(z)
           \/ Recount(z) \/ (RecvRun(z) /\ ~(loc[z].i < loc[z].n))
  <2>1. /\ alive' = alive /\ loc' = loc /\ chan' = chan /\ pc'[y] = pc[y]
        /\ <<pc[z], pc'[z]>> \in HearerQuiet
        /\ pc[z] = "run" => loc[z].i >= loc[z].n
    BY <1>0, <1>6, QuietSteps
  <2>2. /\ pc'[z] = "report" => pc[y] \notin {"b_re1", "recount", "b_re2", "neg", "start"}
        /\ pc'[z] = "neg" => pc[y] # "report"
    BY <2>1, HearerDecides
  <2>3. StillPair(y, z)
    BY <2>1 DEF StillPair
  <2>4. Conf(y, z)'
    BY <1>0, <1>2, <2>1, <2>2, <2>3, QuietHearer
  <2> QED
    BY <2>1, <2>4
<1>7. CASE RecvReset(z) \/ SendReset(z)
  BY <1>7 DEF Served, RecvReset, SendReset
<1>8. CASE RecvTimeout(z)
  BY <1>0, <1>8 DEF RecvTimeout
<1>9. ~(SendPing(z) \/ RecvPong(z) \/ SenderNegotiate(z) \/ RecvStart(z) \/ SendRun(z)
        \/ RecvEnd(z) \/ RecvReport(z) \/ SendFinish(z))
  BY <1>0 DEF SendPing, RecvPong, SenderNegotiate, RecvStart, SendRun, RecvEnd, RecvReport,
     SendFinish, At, SenderLabels
<1> HIDE DEF Goal
<1>10. Goal
  BY <1>3, <1>4, <1>5, <1>6, <1>7, <1>8, <1>9 DEF Acts, Step, Goal
<1> QED
  BY <1>10 DEF Goal

-----------------------------------------------------------------------------
(* Every conversation, whoever moves. *)

LEMMA WireAlone ==
  ASSUME TypeInv, NEW v \in Workers, Acts(v), NEW u \in Workers, u # v, u # Peer(v)
  PROVE  chan'[u] = chan[u]
<1>1. chan \in Wire /\ Peer(v) \in Workers
  BY PeerType DEF TypeInv
<1>2. CASE Listens(v)
  <2>1. PICK k \in Nat : chan' = Drop(chan, v, k)
    BY <1>2 DEF Listens
  <2> QED
    BY <1>1, <2>1 DEF Drop, Wire
<1>3. ASSUME NEW op, NEW n, NEW r, Speaks(v, op, n, r)
      PROVE  chan'[u] = chan[u]
  <2>1. PICK k \in Nat : chan' = Put(Drop(chan, v, k), v, Packet(v, op, n, r))
    BY <1>3 DEF Speaks
  <2> DEFINE mid == Drop(chan, v, k)
  <2>2. mid \in Wire /\ mid[u] = chan[u]
    BY <1>1, DropType DEF Drop, Wire
  <2> HIDE DEF mid
  <2>3. chan' = Put(mid, v, Packet(v, op, n, r))
    BY <2>1 DEF mid
  <2> QED
    BY <1>1, <2>2, <2>3 DEF Put, Wire
<1> QED
  BY <1>2, <1>3, WireStep

(* A process that has completed has said all there is to say. *)
LEMMA ServedIs ==
  ASSUME ~Udp, TypeInv, InvDone, InvConv, NoFailure, NEW w \in Workers
  PROVE  Served(w)
<1> DEFINE u == Peer(w)
<1>1. /\ u \in Workers /\ Linked(w, u) /\ w[1] \in Sides /\ u[1] \in Sides /\ u = <<u[1], u[2]>>
      /\ u[2] \in Conns /\ u[1] = Other(w[1]) /\ Peer(u) = w
  BY LinkedIs, PeerType DEF Linked, Peer
<1>2. /\ loc[w].phase \in {1, 2} /\ loc[u].phase \in {1, 2}
      /\ loc[u].phase = loc[w].phase => (Sender(u) <=> ~Sender(w))
      /\ loc[u].phase # loc[w].phase => (Sender(u) <=> Sender(w))
  BY RolesOf
<1> HIDE DEF u
<1> SUFFICES ASSUME PeerGone(w)
             PROVE  ~Sending(w) /\ (Receiving(w) => Readable(w))
  BY DEF Served
<1>3. pc[u] = "done"
  <2>1. alive[u[1]] = "completed"
    BY <1>1 DEF PeerGone, Running, NoFailure, TypeInv, CoreType
  <2> QED
    BY <1>1, <2>1 DEF InvDone
<1>4. CASE loc[u].phase = loc[w].phase /\ Sender(w)
  <2>1. Conf(w, u)
    BY <1>1, <1>4 DEF InvConv, ConvOf, u
  <2>2. pc[w] = "done"
    BY <1>3, <2>1, HearerScene DEF Parting
  <2> QED
    BY <2>2 DEF Sending, Receiving
<1>5. CASE loc[u].phase = loc[w].phase /\ ~Sender(w)
  <2>1. Conf(u, w)
    BY <1>1, <1>2, <1>5 DEF InvConv, ConvOf
  <2>2. pc[w] = "done" \/ (pc[w] = "finish" /\ Size(w) = 2)
    BY <1>3, <2>1, TalkerScene DEF Parting
  <2>3. pc[w] = "finish" => UnitsOf(w) = 2
    BY DEF UnitsOf, HandshakeLabels
  <2> QED
    BY <1>5, <2>2, <2>3, TcpUnits DEF Sending, Receiving
<1>6. CASE loc[u].phase # loc[w].phase
  <2>1. Ahead(u, w) \/ Ahead(w, u)
    BY <1>1, <1>2, <1>6 DEF InvConv, ConvOf, u
  <2> QED
    BY <1>3, <2>1 DEF Ahead
<1> QED
  BY <1>4, <1>5, <1>6

(* The two workers of a connection when one of them, v, moves. *)
LEMMA PairMoves ==
  ASSUME Reliable, TypeInv, TypeInv', InvRole, InvDone, NoSplit', NEW v \in Workers, Acts(v),
         Served(v), ConvOf(v), ConvOf(Peer(v)), RoundOf(v), RoundOf(Peer(v)), CountsOf(v),
         CountsOf(Peer(v)), IdleOf(v), IdleOf(Peer(v))
  PROVE  alive' = alive /\ ConvOf(v)' /\ ConvOf(Peer(v))'
<1> DEFINE u == Peer(v)
<1>1. /\ u \in Workers /\ Linked(v, u) /\ Linked(u, v) /\ u[1] # v[1] /\ Peer(u) = v /\ ~Udp
      /\ u # v
  BY LinkedIs DEF Linked, Reliable
<1>2. /\ loc[v].phase \in {1, 2} /\ loc[u].phase \in {1, 2}
      /\ loc[u].phase = loc[v].phase => (Sender(u) <=> ~Sender(v))
      /\ loc[u].phase # loc[v].phase => (Sender(u) <=> Sender(v))
  BY RolesOf
<1>3. pc'[u] = pc[u] /\ loc'[u] = loc[u]
  BY <1>1, StepAlone DEF Alone
<1>4. /\ ConvOf(v) /\ ConvOf(u) /\ RoundOf(u) /\ CountsOf(u) /\ IdleOf(u)
  OBVIOUS
<1>5. Peer(v) = u /\ Peer(u) = v
  BY <1>1
<1> HIDE DEF u
<1>6. Sender(u)' <=> Sender(u)
  BY <1>3 DEF Sender, Dir
<1>7. loc'[v].phase = loc[v].phase => (Sender(v)' <=> Sender(v))
  BY DEF Sender, Dir
<1>8. loc'[v].phase = loc[v].phase + 1 => (Sender(v)' <=> ~Sender(v))
  <2> SUFFICES ASSUME loc'[v].phase = loc[v].phase + 1
               PROVE  Sender(v)' <=> ~Sender(v)
    OBVIOUS
  <2>0. loc'[v].phase \in {1, 2}
    <3>1. loc'[v] \in LocalType /\ Phases \in {1, 2}
      BY DEF TypeInv, CoreType, Phases
    <3> QED
      BY <3>1 DEF LocalType
  <2>1. Dir(v) \in {0, 1} /\ Dir(v)' \in {0, 1} /\ (Dir(v)' = 0 <=> Dir(v) = 1)
    BY <1>2, <2>0 DEF Dir
  <2>2. Sender(v) <=> (v[1] = "connector" <=> Dir(v) = 0)
    BY DirIs
  <2>3. Sender(v)' <=> (v[1] = "connector" <=> Dir(v)' = 0)
    BY DEF Sender
  <2> QED
    BY <2>1, <2>2, <2>3
<1>9. CASE loc[u].phase = loc[v].phase /\ Sender(v)
  <2>1. Conf(v, u) /\ ~Sender(u)
    BY <1>2, <1>4, <1>5, <1>9 DEF ConvOf
  <2>2. /\ alive' = alive
        /\ \/ loc'[v].phase = loc[v].phase /\ Conf(v, u)'
           \/ /\ loc'[v].phase = loc[v].phase + 1
              /\ (~Sender(v)' => Ahead(v, u)')
    BY <1>1, <1>9, <2>1, TalkerTurn
  <2>3. CASE loc'[v].phase = loc[v].phase /\ Conf(v, u)'
    BY <1>2, <1>3, <1>5, <1>6, <1>9, <2>1, <2>2, <2>3 DEF ConvOf, u
  <2>4. CASE loc'[v].phase = loc[v].phase + 1 /\ (~Sender(v)' => Ahead(v, u)')
    BY <1>2, <1>3, <1>5, <1>8, <1>9, <2>2, <2>4 DEF ConvOf, u
  <2> QED
    BY <2>2, <2>3, <2>4
<1>10. CASE loc[u].phase = loc[v].phase /\ ~Sender(v)
  <2>1. Conf(u, v) /\ Sender(u)
    BY <1>2, <1>4, <1>5, <1>10 DEF ConvOf
  <2>2. alive' = alive /\ loc'[v].phase = loc[v].phase /\ Conf(u, v)'
    BY <1>1, <1>4, <1>10, <2>1, HearerTurn
  <2> QED
    BY <1>2, <1>3, <1>5, <1>7, <1>10, <2>2 DEF ConvOf, u
<1>11. CASE loc[v].phase > loc[u].phase
  <2>1. Ahead(v, u)
    BY <1>4, <1>5, <1>11 DEF ConvOf
  <2>2. /\ pc[v] \in {"b_init", "hs"} /\ Size(v) = 0 /\ ~Sender(v)
    BY <2>1 DEF Ahead
  <2>3. ~Readable(v)
    BY <1>1, <2>2, TcpUnits
  <2>4. timeouts \in Nat /\ MaxTimeouts = 0
    BY DEF TypeInv, CoreType, Reliable
  <2>5. ~RecvTimeout(v) /\ ~SendReset(v) /\ ~RecvReset(v)
    BY <2>4 DEF Served, RecvTimeout, RecvReset, SendReset
  <2>6. ~Step(v)
    BY <2>2, <2>3, <2>5
    DEF Step, TalkInit, SendPing, RecvPong, Handshake, SetCount, SenderNegotiate,
        ReceiverNegotiate, SendStart, RecvStart, Reset, SendRun, RecvRun, SendEnd, RecvEnd, Mark,
        Return, Decide, Recount, SendReport, RecvReport, SendFinish, RecvFinish, At
  <2> QED
    BY <2>5, <2>6 DEF Acts
<1>12. CASE loc[u].phase > loc[v].phase
  <2>1. Ahead(u, v) /\ ~Sender(v)
    BY <1>2, <1>4, <1>5, <1>12 DEF ConvOf, Ahead
  <2>2. pc[v] = "finish"
    BY <2>1 DEF Ahead
  <2>4. timeouts \in Nat /\ MaxTimeouts = 0
    BY DEF TypeInv, CoreType, Reliable
  <2>5. ~RecvTimeout(v) /\ ~SendReset(v) /\ ~RecvReset(v)
    BY <2>4 DEF Served, RecvTimeout, RecvReset, SendReset
  <2>6. RecvFinish(v)
    BY <2>1, <2>2, <2>5
    DEF Acts, Step, TalkInit, SendPing, RecvPong, Handshake, SetCount, SenderNegotiate,
        ReceiverNegotiate, SendStart, RecvStart, Reset, SendRun, RecvRun, SendEnd, RecvEnd, Mark,
        Return, Decide, Recount, SendReport, RecvReport, SendFinish, At
  <2>7. Opening(v, u)' /\ alive' = alive /\ loc'[v].phase = loc[u].phase
    BY <1>1, <2>1, <2>6, AheadRead
  <2>8. Conf(v, u)'
    BY <2>7 DEF Conf
  <2>9. ~Sender(u)'
    BY <1>6, <2>1 DEF Ahead
  <2> QED
    BY <1>2, <1>3, <1>5, <2>7, <2>8, <2>9 DEF ConvOf, u
<1> QED
  BY <1>2, <1>9, <1>10, <1>11, <1>12

LEMMA IdleStep ==
  ASSUME TypeInv, InvRole, NEW v \in Workers, Acts(v), IdleOf(v)
  PROVE  IdleOf(v)'
<1>1. CASE ~Sender(v) /\ ~Closes(v)
  <2>1. HearerDoes(v)
    BY <1>1, HearerSteps
  <2> QED
    BY <1>1, <2>1
    DEF HearerDoes, Stays, Passes, Greets, Accepts, Takes, Leaves, Stores, Becomes, PlainMoves,
        IdleOf, EndLabels
<1>2. CASE Sender(v) /\ ~Closes(v)
  <2>1. TalkerDoes(v)
    BY <1>2, TalkerSteps
  <2> QED
    BY <1>2, <2>1
    DEF TalkerDoes, Stays, Advances, Greeted, Offers, Gives, Learns, Adopts, Becomes, TalkerMoves,
        IdleOf, EndLabels
<1>3. CASE Closes(v)
  BY <1>3, ClosesIs DEF IdleOf, EndLabels
<1> QED
  BY <1>1, <1>2, <1>3

(* What a barrier does to the conversations. *)
LEMMA BarrierQuiet ==
  ASSUME TypeInv, InvRole, NEW s \in Sides, NEW b \in 0 .. 2, BarrierWait(s, b),
         NEW w \in Workers, pc'[w] # pc[w]
  PROVE  /\ w[1] = s /\ pc'[w] \notin {"report", "b_re1"} /\ pc[w] # "run"
         /\ <<pc[w], pc'[w]>> \in BarrierPairs
         /\ Sender(w) => <<pc[w], pc'[w]>> \in TalkerQuiet
         /\ ~Sender(w) => <<pc[w], pc'[w]>> \in HearerQuiet /\ pc'[w] # "neg"
<1>1. /\ w[1] = s /\ pc[w] \in GlobalLabels \cup DirLabels
      /\ \E serial \in BOOLEAN : pc'[w] = AfterBarrier(w, serial)
  BY BarrierLabels
<1>2. <<pc[w], pc'[w]>> \in BarrierPairs /\ (pc[w] = "b_init" => (pc'[w] = "ping" <=> Sender(w)))
  BY <1>1 DEF AfterBarrier, GlobalLabels, DirLabels, BarrierPairs
<1>3. pc[w] \in SenderLabels => Sender(w)
  BY DEF InvRole
<1>4. pc'[w] \notin {"report", "b_re1"} /\ pc[w] # "run"
  BY <1>2 DEF BarrierPairs
<1>5. Sender(w) => <<pc[w], pc'[w]>> \in TalkerQuiet
  BY <1>2 DEF BarrierPairs, TalkerQuiet, CommonQuiet
<1>6. ~Sender(w) => <<pc[w], pc'[w]>> \in HearerQuiet /\ pc'[w] # "neg"
  BY <1>2, <1>3 DEF BarrierPairs, HearerQuiet, CommonQuiet, SenderLabels
<1> QED
  BY <1>1, <1>2, <1>4, <1>5, <1>6

LEMMA ConvBarrier ==
  ASSUME TypeInv, InvRole, NEW s \in Sides, NEW b \in 0 .. 2, BarrierWait(s, b),
         NEW w \in Workers, ConvOf(w), RoundOf(w), CountsOf(w)
  PROVE  ConvOf(w)'
<1> DEFINE u == Peer(w)
<1>1. /\ u \in Workers /\ u[1] # w[1] /\ loc' = loc /\ chan' = chan
      /\ loc[u].phase = loc[w].phase => (Sender(u) <=> ~Sender(w))
  BY LinkedIs, RolesOf DEF Linked, BarrierWait
<1>2. StillPair(w, u)
  BY <1>1 DEF StillPair
<1>3. Sender(w)' <=> Sender(w)
  BY <1>1 DEF Sender, Dir
<1>4. pc'[w] = pc[w] \/ pc'[u] = pc[u]
  BY <1>1, BarrierQuiet
<1>5. /\ Sender(w) /\ loc[u].phase = loc[w].phase => Conf(w, u)
      /\ loc[w].phase > loc[u].phase => Ahead(w, u)
  BY DEF ConvOf
<1> HIDE DEF u
<1>6. ASSUME Sender(w), loc[u].phase = loc[w].phase
      PROVE  Conf(w, u)'
  <2>1. CASE pc'[w] = pc[w] /\ pc'[u] = pc[u]
    BY <1>2, <1>5, <1>6, <2>1, ConfFrame
  <2>2. CASE pc'[w] # pc[w]
    BY <1>1, <1>2, <1>4, <1>5, <1>6, <2>2, BarrierQuiet, QuietTalker
  <2>3. CASE pc'[u] # pc[u]
    <3>1. pc[w] = "start" => loc[w].n >= 1
      BY <1>6, CountsGive DEF PreLabels
    <3> QED
      BY <1>1, <1>2, <1>4, <1>5, <1>6, <2>3, <3>1, BarrierQuiet, QuietHearer
  <2> QED
    BY <2>1, <2>2, <2>3
<1>7. ASSUME loc[w].phase > loc[u].phase
      PROVE  Ahead(w, u)'
  <2>1. CASE pc'[w] = pc[w] /\ pc'[u] = pc[u]
    BY <1>2, <1>5, <1>7, <2>1, ConfFrame
  <2>2. CASE pc'[w] # pc[w]
    <3>1. Ahead(w, u) /\ ~Sender(w)
      BY <1>5, <1>7 DEF Ahead
    <3>2. pc'[w] = "hs" /\ pc'[u] = pc[u]
      BY <1>4, <2>2, <3>1, BarrierQuiet DEF Ahead, BarrierPairs, HearerQuiet, CommonQuiet
    <3> QED
      BY <1>1, <1>3, <3>1, <3>2 DEF Ahead, Size
  <2>3. CASE pc'[u] # pc[u]
    BY <1>1, <1>5, <1>7, <2>3, BarrierQuiet DEF Ahead, BarrierPairs
  <2> QED
    BY <2>1, <2>2, <2>3
<1> QED
  BY <1>1, <1>3, <1>6, <1>7 DEF ConvOf, u

-----------------------------------------------------------------------------
(* The counts, as the workers take their steps. *)

LEMMA CountSteps ==
  ASSUME TypeInv, NEW v \in Workers, Acts(v)
  PROVE  /\ cnt' = cnt \/ TalkInit(v) \/ SetCount(v) \/ Recount(v)
         /\ pc[v] = "init" /\ pc'[v] # "init" => TalkInit(v)
         /\ pc[v] = "setcount" /\ pc'[v] # "setcount" => SetCount(v)
         /\ pc[v] = "recount" /\ pc'[v] # "recount" => Recount(v)
<1>0. ASSUME FailReceived(v) \/ Exit(v) \/ \E ch : Fail(v, ch)
      PROVE  cnt' = cnt /\ pc' = pc
  BY <1>0 DEF FailReceived, Fail, Exit, shared
<1>1. CASE \/ TalkInit(v) \/ SetCount(v) \/ Recount(v)
  BY <1>1 DEF TalkInit, SetCount, Recount, At
<1>2. CASE \/ SendPing(v) \/ RecvPong(v) \/ Handshake(v) \/ SenderNegotiate(v)
           \/ ReceiverNegotiate(v) \/ SendStart(v) \/ RecvStart(v)
  BY <1>0, <1>2 DEF SendPing, RecvPong, Handshake, SenderNegotiate, ReceiverNegotiate, SendStart,
     RecvStart, At, shared
<1>3. CASE Reset(v) \/ SendRun(v) \/ RecvRun(v) \/ SendEnd(v) \/ RecvEnd(v) \/ Mark(v)
  BY <1>0, <1>3 DEF Reset, SendRun, RecvRun, SendEnd, RecvEnd, Mark, At, shared
<1>4. CASE \/ Return(v) \/ Decide(v) \/ SendReport(v) \/ RecvReport(v)
           \/ SendFinish(v) \/ RecvFinish(v)
  BY <1>0, <1>4 DEF Return, Decide, SendReport, RecvReport, SendFinish, RecvFinish, At, shared
<1>5. CASE RecvReset(v)
  BY <1>0, <1>5 DEF RecvReset, Receiving, shared
<1>6. CASE SendReset(v)
  BY <1>0, <1>6 DEF SendReset
<1>7. CASE RecvTimeout(v)
  BY <1>7 DEF RecvTimeout, Receiving, shared
<1> QED
  BY <1>1, <1>2, <1>3, <1>4, <1>5, <1>6, <1>7 DEF Acts, Step

(* A worker that sends, as long as the counts of its side do not change. *)
LEMMA OwnCounts ==
  ASSUME TypeInv, InvRole, NEW v \in Workers, Acts(v), cnt' = cnt, CountsOf(v), RoundOf(v),
         ~SetCount(v), ~Recount(v),
         Sender(v) /\ RecvEnd(v) /\ loc'[v].weak => loc[v].n < WeakLimit
  PROVE  CountsOf(v)'
<1>1. /\ loc \in [Workers -> LocalType] /\ loc[v].round \in Nat /\ CountDefault \in Nat
      /\ CountMax \in Nat /\ CountOf(v) \in Nat
  BY NatLocals, TalkAssumption, DirType, PeerType DEF TypeInv, CoreType, CountOf
<1>2. loc'[v].phase = loc[v].phase => CountOf(v)' = CountOf(v) /\ (Sender(v)' <=> Sender(v))
  BY DEF CountOf, Sender, Dir
<1>3. CASE Closes(v)
  BY <1>1, <1>2, <1>3, ClosesIs DEF CountsOf, PreLabels, AfterLabels
<1>4. CASE ~Sender(v) /\ ~Closes(v)
  <2>1. loc'[v].phase = loc[v].phase
    BY <1>4, HearerSteps
    DEF HearerDoes, Stays, Passes, Greets, Accepts, Takes, Leaves, Stores, Becomes
  <2> QED
    BY <1>2, <1>4, <2>1 DEF CountsOf
<1>5. CASE Sender(v) /\ pc[v] = "neg" /\ pc'[v] = "start"
  <2>1. SenderNegotiate(v)
    BY <1>5, EventSteps
  <2>2. loc' = [loc EXCEPT ![v].n = CountOf(v), ![v].round = @ + 1]
    BY <1>5, <2>1 DEF SenderNegotiate, Exit, CountOf
  <2>3. /\ loc'[v].n = CountOf(v) /\ loc'[v].round = loc[v].round + 1
        /\ loc'[v].phase = loc[v].phase
    BY <1>1, <2>2 DEF LocalType
  <2>4. CountOf(v) \in Counts
    BY <1>5 DEF CountsOf, PreLabels
  <2>5. CountDefault <= CountOf(v)
    BY <1>1, <2>4 DEF Counts
  <2> QED
    BY <1>1, <1>2, <1>5, <2>3, <2>4, <2>5 DEF CountsOf, AfterLabels
<1>6. CASE Sender(v) /\ ~Closes(v) /\ ~(pc[v] = "neg" /\ pc'[v] = "start")
  <2>1. TalkerDoes(v)
    BY <1>6, TalkerSteps
  <2>2. /\ loc'[v].phase = loc[v].phase /\ loc'[v].n = loc[v].n /\ loc'[v].round = loc[v].round
    BY <1>6, <2>1
    DEF TalkerDoes, Stays, Advances, Greeted, Offers, Gives, Learns, Adopts, Becomes
  <2>3. pc[v] = "setcount" => pc'[v] = "setcount"
    BY CountSteps
  <2>4. pc[v] = "recount" => pc'[v] = "recount"
    BY CountSteps
  <2>5. /\ pc'[v] = "b_count2" => pc[v] = "b_count2"
        /\ pc'[v] \notin PreLabels => pc[v] \notin PreLabels
        /\ pc'[v] \notin {"b_re2", "neg"} => pc[v] \notin {"b_re2", "neg"}
        /\ pc'[v] \in AfterLabels \cup {"b_re1", "recount"} =>
             \/ pc[v] \in AfterLabels \cup {"b_re1", "recount"} /\ loc'[v].weak = loc[v].weak
             \/ RecvEnd(v)
    BY <1>6, <2>1, <2>3, <2>4
    DEF TalkerDoes, Stays, Advances, Greeted, Offers, Gives, Learns, Adopts, Becomes, TalkerMoves,
        PreLabels, AfterLabels
  <2>6. \A u \in Team(v) : pc[u] = "setcount" => pc'[u] = "setcount"
    BY <2>3, StepAlone DEF Alone, Team
  <2>7. CountOf(v)' = CountOf(v) /\ Team(v)' = Team(v)
    BY <1>2, <2>2 DEF Team
  <2> QED
    BY <1>6, <2>2, <2>5, <2>6, <2>7 DEF CountsOf
<1> QED
  BY <1>3, <1>4, <1>5, <1>6

(* Workers of a side that test in the same direction at the same time. *)
LEMMA SameTeam ==
  ASSUME TypeInv, InvPhase, NEW v \in Workers, NEW w \in Workers, w[1] = v[1], Dir(w) = Dir(v),
         loc[w].phase = loc[v].phase
  PROVE  w \in Team(v) /\ v \in Team(w)
<1>1. CASE ~Async
  BY <1>1 DEF Team
<1>2. CASE Async
  <2>1. loc[w].phase = 1 /\ loc[v].phase = 1
    BY <1>2, PhaseType
  <2>2. w[2] \in ReverseConns <=> v[2] \in ReverseConns
    BY <2>1, DirIs
  <2> QED
    BY <2>2 DEF Team
<1> QED
  BY <1>1, <1>2

LEMMA OthersCounts ==
  ASSUME TypeInv, NEW v \in Workers, Acts(v), NEW w \in Workers, w # v, CountsOf(w),
         CountOf(w)' = CountOf(w),
         pc[v] = "setcount" /\ v \in Team(w) /\ pc[w] = "b_count2" => pc'[v] = "setcount"
  PROVE  CountsOf(w)'
<1>1. pc'[w] = pc[w] /\ loc'[w] = loc[w]
  BY StepAlone DEF Alone
<1>2. Sender(w)' <=> Sender(w)
  BY <1>1 DEF Sender, Dir
<1>3. ASSUME pc[w] = "b_count2", NEW u \in Team(w), pc[u] = "setcount"
      PROVE  pc'[u] = "setcount"
  BY <1>3, StepAlone DEF Alone, Team
<1>4. Team(w)' = Team(w)
  BY DEF Team
<1> QED
  BY <1>1, <1>2, <1>3, <1>4 DEF CountsOf

(* talk_init() clears the counts before anybody has used them. *)
LEMMA InitCounts ==
  ASSUME TypeInv, Together, InvBase, NEW v \in Workers, TalkInit(v), NEW w \in Workers,
         CountsOf(w)
  PROVE  CountsOf(w)'
<1>1. pc[v] = "init" /\ pc' = [pc EXCEPT ![v] = "b_init"] /\ loc' = loc
      /\ cnt' = [cnt EXCEPT ![v[1]] = [d \in Dirs |-> 0]]
  BY DEF TalkInit, At, Goto
<1>2. pc \in [Workers -> LabelSet] /\ cnt \in [Sides -> [Dirs -> Nat]] /\ w[1] \in Sides
  BY PeerType DEF TypeInv, CoreType
<1>3. CASE w[1] = v[1]
  <2>1. Stage(v) = "open"
    BY <1>1 DEF Stage, Section
  <2>2. Stage(w) = "open"
    BY <1>3, <2>1 DEF Together, InvStage
  <2>3. pc[w] \in {"init", "b_init"}
    BY <2>2 DEF Stage, Section
  <2>4. loc[w].round = 0 /\ pc'[w] \in {"init", "b_init"}
    BY <1>1, <1>2, <2>3 DEF InvBase, RoundOf, PreLabels
  <2> QED
    BY <1>1, <2>4 DEF CountsOf, PreLabels, AfterLabels
<1>4. CASE w[1] # v[1]
  <2>1. CountOf(w)' = CountOf(w)
    BY <1>1, <1>2, <1>4 DEF CountOf, Dir
  <2>2. Acts(v) /\ w # v
    BY <1>4 DEF Acts, Step
  <2> QED
    BY <1>1, <2>1, <2>2, OthersCounts
<1> QED
  BY <1>3, <1>4

LEMMA TeamAt ==
  ASSUME TypeInv, Together, NEW v \in Workers, NEW w \in Workers,
         pc[v] \in {"setcount", "recount"},
         w[1] = v[1], Dir(w) = Dir(v)
  PROVE  \/ /\ w \in Team(v) /\ v \in Team(w) /\ loc[w].phase = loc[v].phase /\ Sender(w)
            /\ pc[v] = "setcount" => pc[w] \in {"setcount", "b_count2"}
            /\ pc[v] = "recount" => pc[w] \in {"recount", "b_re2"}
         \/ pc[w] = "b_init"
<1>0. Sender(v) /\ loc[w].phase \in {1, 2} /\ loc[v].phase \in {1, 2}
  BY PhaseType DEF Together, InvRole, SenderLabels
<1>1. CASE loc[w].phase = loc[v].phase
  <2>1. w \in Team(v) /\ v \in Team(w)
    BY <1>1, SameTeam DEF Together
  <2>2. Sender(w) <=> Sender(v)
    BY <1>1, <2>1, TeamRole
  <2>3. Section(w) = Section(v)
    BY <2>1 DEF Together, InvSection
  <2>4. Section(v) = IF pc[v] = "setcount" THEN "first" ELSE "raise"
    BY <1>0 DEF Section
  <2>5. pc[v] = "setcount" => pc[w] \in {"setcount", "b_count2"}
    BY <2>3, <2>4 DEF Section
  <2>6. pc[v] = "recount" => pc[w] \in {"recount", "b_re2"}
    BY <2>3, <2>4 DEF Section
  <2> QED
    BY <1>0, <1>1, <2>1, <2>2, <2>5, <2>6
<1>2. CASE loc[w].phase # loc[v].phase
  BY <1>0, <1>2 DEF Together, InvPhase
<1> QED
  BY <1>1, <1>2

(* The one that sets the count ... *)
LEMMA SetCounts ==
  ASSUME TypeInv, Together, InvBase, NEW v \in Workers, SetCount(v), NEW w \in Workers,
         CountsOf(w)
  PROVE  CountsOf(w)'
<1>1. /\ pc[v] = "setcount" /\ pc' = [pc EXCEPT ![v] = "b_count2"] /\ loc' = loc
      /\ cnt' = [cnt EXCEPT ![v[1]][Dir(v)] = CountDefault]
  BY DEF SetCount, At, Goto
<1>2. /\ pc \in [Workers -> LabelSet] /\ cnt \in [Sides -> [Dirs -> Nat]] /\ w[1] \in Sides
      /\ v[1] \in Sides /\ Dir(v) \in Dirs /\ Dir(w) \in Dirs
  BY PeerType, DirType DEF TypeInv, CoreType
<1>3. CASE w[1] = v[1] /\ Dir(w) = Dir(v)
  <2>1. pc[w] \in {"setcount", "b_count2", "b_init"}
    BY <1>1, <1>3, TeamAt
  <2>2. loc[w].round = 0 /\ pc'[w] \in {"setcount", "b_count2", "b_init"}
    BY <1>1, <1>2, <2>1 DEF InvBase, RoundOf, PreLabels
  <2>3. CountOf(w)' = CountDefault
    BY <1>1, <1>2, <1>3 DEF CountOf, Dir
  <2> QED
    BY <1>1, <2>2, <2>3 DEF CountsOf, PreLabels, AfterLabels
<1>4. CASE ~(w[1] = v[1] /\ Dir(w) = Dir(v))
  <2>0. Dir(w)' = Dir(w)
    BY <1>1 DEF Dir
  <2>1. CountOf(w)' = CountOf(w)
    BY <1>1, <1>2, <1>4, <2>0 DEF CountOf
  <2>2. Acts(v) /\ w # v
    BY <1>4 DEF Acts, Step
  <2>3. ~(v \in Team(w) /\ pc[w] = "b_count2")
    <3> SUFFICES ASSUME v \in Team(w), pc[w] = "b_count2"
                 PROVE  FALSE
      OBVIOUS
    <3>1. v[1] = w[1] /\ (loc[v].phase = loc[w].phase => Dir(v) = Dir(w))
      BY TeamRole
    <3>2. loc[v].phase = loc[w].phase
      <4>1. loc[v].phase \in {1, 2} /\ loc[w].phase \in {1, 2}
        BY PhaseType
      <4>2. ~(loc[v].phase > loc[w].phase) /\ ~(loc[w].phase > loc[v].phase)
        BY <1>1, <3>1 DEF Together, InvPhase
      <4> QED
        BY <4>1, <4>2
    <3> QED
      BY <1>4, <3>1, <3>2
  <2> QED
    BY <2>1, <2>2, <2>3, OthersCounts
<1> QED
  BY <1>3, <1>4

LEMMA Raised ==
  ASSUME NEW n \in Nat, NEW m \in Nat, m >= 1
  PROVE  n * m \in Nat /\ n <= n * m
<1>1. m - 1 \in Nat /\ n * (m - 1) \in Nat
  OBVIOUS
<1>2. n * m = n * (m - 1) + n
  OBVIOUS
<1> QED
  BY <1>1, <1>2

(* ... and the one that raises it when all the streams of its team were weak. *)
LEMMA RaisedCount ==
  ASSUME Attainable, TypeInv, InvBase, InvVerdict, NEW v \in Workers, Recount(v), Sender(v),
         CountsOf(v)
  PROVE  CountOf(v)' \in Counts /\ CountOf(v) <= CountOf(v)'
<1>1. pc[v] = "recount" /\ loc' = loc
  BY DEF Recount, At
<1>2. /\ cnt \in [Sides -> [Dirs -> Nat]] /\ v[1] \in Sides /\ Dir(v) \in Dirs
      /\ CountDefault \in Nat /\ CountMax \in Nat /\ CountOf(v) \in Nat
  BY PeerType, DirType, TalkAssumption DEF TypeInv, CoreType, CountOf
<1>3. loc[v].round >= 1 /\ loc[v].n = CountOf(v) /\ CountOf(v) \in Counts
  BY <1>1 DEF InvBase, RoundOf, PreLabels, CountsOf
<1>4. Dir(v)' = Dir(v)
  BY <1>1 DEF Dir
<1>5. CASE ~NeedsRecount(v)
  <2>1. CountOf(v)' = CountOf(v)
    BY <1>4, <1>5 DEF Recount, CountOf
  <2> QED
    BY <1>2, <1>3, <2>1
<1>6. CASE NeedsRecount(v)
  <2>1. PICK m \in Muls : cnt' = [cnt EXCEPT ![v[1]][Dir(v)] = @ * m]
    BY <1>6 DEF Recount
  <2>2. CountOf(v)' = CountOf(v) * m /\ m \in Nat /\ m >= 1
    BY <1>2, <1>4, <2>1, TalkAssumption DEF CountOf
  <2>3. loc[v].weak
    <3>1. Stage(v) = "between" /\ Base(v) >= 1
      BY <1>1, <1>3, BetweenStage DEF Base
    <3>2. imWeak[v[1]][Dir(v)] = Cardinality(WeakOf(Team(v)))
      BY <3>1 DEF InvVerdict, MarksOf
    <3>3. AllWeak(v)
      BY <1>6, <3>2, TeamCounted DEF NeedsRecount
    <3> QED
      BY <3>3, TeamsAndMates DEF AllWeak
  <2>4. CountOf(v) < WeakLimit
    BY <1>1, <1>3, <2>3 DEF CountsOf
  <2>5. CountOf(v) * m < CountMax
    BY <1>2, <2>4 DEF Attainable
  <2>6. CountOf(v) * m \in Nat /\ CountOf(v) <= CountOf(v) * m
    BY <1>2, <2>2, Raised
  <2> DEFINE c == CountOf(v)
             q == CountOf(v)'
  <2>7. c \in Nat /\ q \in Nat /\ c <= q /\ q < CountMax
    BY <1>2, <2>2, <2>5, <2>6
  <2>8. CountDefault <= c
    BY <1>2, <1>3 DEF Counts
  <2> HIDE DEF c, q
  <2>9. q \in CountDefault .. CountMax - 1
    BY <1>2, <2>7, <2>8
  <2> QED
    BY <2>7, <2>9 DEF c, q, Counts
<1> QED
  BY <1>5, <1>6

LEMMA RecountCounts ==
  ASSUME Attainable, TypeInv, Together, InvBase, InvVerdict, NEW v \in Workers, Recount(v),
         SerialOf(v), CountsOf(v), NEW w \in Workers, CountsOf(w)
  PROVE  CountsOf(w)'
<1>1. pc[v] = "recount" /\ pc' = [pc EXCEPT ![v] = "b_re2"] /\ loc' = loc
  BY DEF Recount, At, Goto
<1>2. /\ pc \in [Workers -> LabelSet] /\ cnt \in [Sides -> [Dirs -> Nat]] /\ w[1] \in Sides
      /\ v[1] \in Sides /\ Dir(v) \in Dirs /\ Dir(w) \in Dirs /\ Sender(v)
      /\ CountDefault \in Nat /\ CountMax \in Nat /\ CountOf(v) \in Nat /\ loc[w].n \in Nat
  BY <1>1, PeerType, DirType, TalkAssumption, NatLocals
  DEF TypeInv, CoreType, CountOf, Together, InvRole, SenderLabels
<1>3. Dir(w)' = Dir(w) /\ Dir(v)' = Dir(v)
  BY <1>1 DEF Dir
<1>4. CASE w[1] = v[1] /\ Dir(w) = Dir(v) /\ pc[w] = "b_init"
  <2>1. loc[w].round = 0 /\ pc'[w] = "b_init"
    BY <1>1, <1>2, <1>4 DEF InvBase, RoundOf, PreLabels
  <2> QED
    BY <1>1, <2>1 DEF CountsOf, PreLabels, AfterLabels
<1>5. CASE w[1] = v[1] /\ Dir(w) = Dir(v) /\ pc[w] # "b_init"
  <2>1. w \in Team(v) /\ pc[w] \in {"recount", "b_re2"} /\ Sender(w)
    BY <1>1, <1>5, TeamAt
  <2>2. pc'[w] = "b_re2"
    BY <1>1, <1>2, <2>1 DEF SerialOf
  <2>3. loc[w].round >= 1
    BY <2>1 DEF InvBase, RoundOf, PreLabels
  <2>4. CountDefault <= loc[w].n /\ loc[w].n <= CountOf(v)
    BY <1>5, <2>1, <2>3 DEF CountsOf, CountOf
  <2>5. CountOf(v)' \in Counts /\ CountOf(v) <= CountOf(v)'
    BY <1>2, RaisedCount
  <2>6. CountOf(w)' = CountOf(v)'
    BY <1>3, <1>5 DEF CountOf
  <2>7. loc[w].n <= CountOf(v)'
    <3> DEFINE q == CountOf(v)'
               c == CountOf(v)
               n == loc[w].n
    <3>1. q \in CountDefault .. CountMax - 1 /\ c <= q /\ c \in Nat /\ n <= c /\ n \in Nat
      BY <1>2, <2>4, <2>5 DEF Counts
    <3> HIDE DEF q, c, n
    <3>2. n <= q
      BY <1>2, <3>1
    <3> QED
      BY <3>2 DEF q, n
  <2> QED
    BY <1>1, <2>2, <2>4, <2>5, <2>6, <2>7 DEF CountsOf, AfterLabels
<1>6. CASE ~(w[1] = v[1] /\ Dir(w) = Dir(v))
  <2>1. CountOf(w)' = CountOf(w)
    <3>1. cnt' = cnt \/ \E x : cnt' = [cnt EXCEPT ![v[1]][Dir(v)] = x]
      BY DEF Recount
    <3>2. ASSUME NEW x, cnt' = [cnt EXCEPT ![v[1]][Dir(v)] = x]
          PROVE  cnt'[w[1]][Dir(w)] = cnt[w[1]][Dir(w)]
      BY <1>2, <1>6, <3>2
    <3> QED
      BY <1>3, <3>1, <3>2 DEF CountOf
  <2>2. Acts(v) /\ w # v
    BY <1>6 DEF Acts, Step
  <2> QED
    BY <1>1, <2>1, <2>2, OthersCounts
<1> QED
  BY <1>4, <1>5, <1>6

(* A barrier singles out one worker of a team. *)
LEMMA SerialStep ==
  ASSUME TypeInv, InvRole, NEW v \in Workers, Acts(v), NEW w \in Workers, SerialOf(w)
  PROVE  SerialOf(w)'
<1>1. \A u \in Workers : pc'[u] \in {"setcount", "recount"} => pc'[u] = pc[u]
  <2>1. pc'[v] \in {"setcount", "recount"} => pc'[v] = pc[v]
    BY RoundStep DEF GoesOn, Begins, Stops, Turns, RoundMoves
  <2> QED
    BY <2>1, StepAlone DEF Alone
<1>2. Team(w)' = Team(w) /\ Team(w) \subseteq Workers
  BY DEF Team
<1> QED
  BY <1>1, <1>2 DEF SerialOf

LEMMA SerialBarrier ==
  ASSUME TypeInv, Together, NEW s \in Sides, NEW b \in 0 .. 2, BarrierWait(s, b),
         NEW w \in Workers, SerialOf(w)
  PROVE  SerialOf(w)'
<1> DEFINE X == WaitingAt(s, b)
<1>1. PICK serial \in X : pc' = [u \in Workers |-> IF u \in X
                                   THEN AfterBarrier(u, u = serial) ELSE pc[u]]
  BY DEF BarrierWait
<1>2. \A u \in X : u \in Workers /\ pc[u] \in GlobalLabels \cup DirLabels /\ Team(u) \subseteq X
  BY WhoMeets
<1> HIDE DEF X
<1> SUFFICES ASSUME NEW u \in Team(w), pc'[u] = pc'[w], pc'[w] \in {"setcount", "recount"}
             PROVE  u = w
  BY DEF SerialOf, Team
<1>3. u \in Workers /\ w \in Team(u)
  BY TeamRole, TeamsAndMates
<1>4. ASSUME NEW x \in X, pc'[x] \in {"setcount", "recount"}
      PROVE  x = serial
  <2>1. pc'[x] = AfterBarrier(x, x = serial) /\ pc[x] \in GlobalLabels \cup DirLabels
    BY <1>1, <1>2
  <2> QED
    BY <1>4, <2>1 DEF AfterBarrier, GlobalLabels, DirLabels
<1>5. CASE w \in X
  BY <1>2, <1>4, <1>5
<1>6. CASE w \notin X
  <2>1. u \notin X
    BY <1>2, <1>3, <1>6
  <2>2. pc'[u] = pc[u] /\ pc'[w] = pc[w]
    BY <1>1, <1>3, <1>6, <2>1
  <2> QED
    BY <2>2 DEF SerialOf
<1> QED
  BY <1>5, <1>6

(* The counts at a barrier. *)
LEMMA CountsBarrier ==
  ASSUME TypeInv, Together, NEW s \in Sides, NEW b \in 0 .. 2, BarrierWait(s, b),
         NEW w \in Workers, CountsOf(w)
  PROVE  CountsOf(w)'
<1> DEFINE X == WaitingAt(s, b)
<1>1. PICK serial \in X : pc' = [u \in Workers |-> IF u \in X
                                   THEN AfterBarrier(u, u = serial) ELSE pc[u]]
  BY DEF BarrierWait
<1>2. /\ \A u \in X : /\ u \in Workers /\ u[1] = s /\ BarrierOf(u) = b
                      /\ pc[u] \in GlobalLabels \cup DirLabels /\ Team(u) \subseteq X
      /\ \A u, x \in X : pc[u] = pc[x] /\ loc[u].phase = loc[x].phase
  BY WhoMeets DEF WaitingAt
<1>3. loc' = loc /\ cnt' = cnt
  BY DEF BarrierWait, shared
<1>4. (Sender(w)' <=> Sender(w)) /\ CountOf(w)' = CountOf(w) /\ Team(w)' = Team(w)
  BY <1>3 DEF Sender, Dir, CountOf, Team
<1> HIDE DEF X
<1>5. CASE w \notin X
  <2>1. pc'[w] = pc[w]
    BY <1>1, <1>5
  <2>2. ASSUME NEW u \in Team(w), pc[u] = "setcount"
        PROVE  pc'[u] = "setcount"
    <3>1. u \in Workers /\ u \notin X
      BY <1>2, <2>2, TeamRole DEF GlobalLabels, DirLabels
    <3> QED
      BY <1>1, <2>2, <3>1
  <2> QED
    BY <1>3, <1>4, <2>1, <2>2 DEF CountsOf
<1>6. CASE w \in X /\ Sender(w)
  <2>1. <<pc[w], pc'[w]>> \in BarrierPairs
    <3>1. pc'[w] = AfterBarrier(w, w = serial) /\ pc[w] \in GlobalLabels \cup DirLabels
      BY <1>1, <1>2, <1>6
    <3> QED
      BY <3>1 DEF AfterBarrier, GlobalLabels, DirLabels, BarrierPairs
  <2>2. pc'[w] = "b_count2" => \E u \in Team(w) : pc'[u] = "setcount"
    <3> SUFFICES ASSUME pc'[w] = "b_count2"
                 PROVE  \E u \in Team(w) : pc'[u] = "setcount"
      OBVIOUS
    <3>1. pc[w] = "b_count1" /\ pc[serial] = "b_count1"
      BY <1>2, <1>6, <2>1 DEF BarrierPairs
    <3>2. Dir(serial) = b /\ Dir(w) = b
      BY <1>2, <1>6, <3>1 DEF BarrierOf, GlobalLabels
    <3>3. serial \in Workers /\ serial[1] = w[1] /\ loc[serial].phase = loc[w].phase
      BY <1>2, <1>6
    <3>4. serial \in Team(w)
      BY <3>2, <3>3, SameTeam DEF Together
    <3>5. pc'[serial] = "setcount"
      BY <1>1, <3>1, <3>3 DEF AfterBarrier
    <3> QED
      BY <3>4, <3>5
  <2>3. pc'[w] \notin PreLabels => CountOf(w) \in Counts
    <3>1. CASE pc[w] = "b_count2"
      <4>1. \A u \in Team(w) : pc[u] = "b_count2"
        BY <1>2, <1>6, <3>1
      <4>2. CountOf(w) = CountDefault
        BY <1>6, <3>1, <4>1 DEF CountsOf
      <4> QED
        BY <4>2, TalkAssumption DEF Counts
    <3>2. CASE pc[w] # "b_count2"
      <4>1. pc'[w] \notin PreLabels => pc[w] \notin PreLabels
        BY <2>1, <3>2 DEF BarrierPairs, PreLabels
      <4> QED
        BY <1>6, <4>1 DEF CountsOf
    <3> QED
      BY <3>1, <3>2
  <2>4. /\ pc[w] \in {"b_re2", "neg"} => pc'[w] \in {"b_re2", "neg"}
        /\ pc'[w] \in AfterLabels \cup {"b_re1", "recount"} =>
             pc[w] \in AfterLabels \cup {"b_re1", "recount"}
    BY <2>1 DEF BarrierPairs, AfterLabels
  <2> QED
    BY <1>3, <1>4, <1>6, <2>2, <2>3, <2>4 DEF CountsOf
<1>7. CASE ~Sender(w)
  BY <1>4, <1>7 DEF CountsOf
<1> QED
  BY <1>5, <1>6, <1>7

-----------------------------------------------------------------------------
(* What holds as long as nothing is lost, late or killed. *)
CalmInv == InvConv /\ InvIdle /\ InvCounts /\ NoFailure

LEMMA CalmCases ==
  ASSUME Reliable, [Next]_vars
  PROVE  \/ \E w \in Workers : Acts(w)
         \/ \E s \in Sides, b \in 0 .. 2 : BarrierWait(s, b)
         \/ /\ UNCHANGED <<pc, loc, chan, cnt>>
            /\ alive' = alive \/ \E s \in Sides : alive' = [alive EXCEPT ![s] = "completed"]
<1>1. CASE Progress
  BY <1>1 DEF Progress, Acts, Complete, shared
<1>2. CASE Environment
  <2>1. ~ \E w \in Workers : Lose(w) \/ Duplicate(w)
    BY DEF Reliable, Lose, Duplicate
  <2>2. ~ \E s \in Sides : Crash(s)
    BY DEF Reliable, Crash
  <2> QED
    BY <1>2, <2>1, <2>2 DEF Environment, Acts, Spin, vars, shared
<1>3. CASE Ended \/ UNCHANGED vars
  BY <1>3 DEF Ended, vars, shared
<1> QED
  BY <1>1, <1>2, <1>3 DEF Next

(* The step of a worker, and the conversations on the other connections. *)
LEMMA ConvStep ==
  ASSUME Reliable, TypeInv, TypeInv', InvRole, InvDone, InvBase, CalmInv, NoSplit',
         NEW v \in Workers, Acts(v)
  PROVE  InvConv' /\ alive' = alive
<1> USE DEF CalmInv
<1>1. Peer(v) \in Workers /\ Peer(Peer(v)) = v
  BY PeerType, PeerOfPeer
<1>2. Served(v)
  BY ServedIs DEF Reliable
<1>3. alive' = alive /\ ConvOf(v)' /\ ConvOf(Peer(v))'
  BY <1>1, <1>2, PairMoves DEF InvConv, InvBase, InvCounts, InvIdle
<1>4. ASSUME NEW w \in Workers, w # v, w # Peer(v)
      PROVE  ConvOf(w)'
  <2> DEFINE u == Peer(w)
  <2>1. u \in Workers /\ u # v /\ u # Peer(v)
    BY <1>1, <1>4, PeerType, PeerOfPeer
  <2>2. ConvOf(w)
    BY DEF InvConv
  <2>3. /\ Sender(w) /\ loc[u].phase = loc[w].phase => Conf(w, u)
        /\ loc[w].phase > loc[u].phase => Ahead(w, u)
    BY <2>2 DEF ConvOf
  <2>4. u = Peer(w)
    OBVIOUS
  <2> HIDE DEF u
  <2>5. /\ pc'[w] = pc[w] /\ loc'[w] = loc[w] /\ chan'[w] = chan[w]
        /\ pc'[u] = pc[u] /\ loc'[u] = loc[u] /\ chan'[u] = chan[u]
    BY <1>4, <2>1, StepAlone, WireAlone DEF Alone
  <2>6. (Conf(w, u) => Conf(w, u)') /\ (Ahead(w, u) => Ahead(w, u)')
    BY <2>5, ConfFrame DEF StillPair
  <2>7. Sender(w)' <=> Sender(w)
    BY <2>5 DEF Sender, Dir
  <2>8. /\ Sender(w)' /\ loc'[u].phase = loc'[w].phase => Conf(w, u)'
        /\ loc'[w].phase > loc'[u].phase => Ahead(w, u)'
    BY <2>3, <2>5, <2>6, <2>7
  <2> QED
    BY <2>4, <2>8 DEF ConvOf
<1> QED
  BY <1>3, <1>4 DEF InvConv

LEMMA CountsStep ==
  ASSUME Reliable, Attainable, TypeInv, Together, InvBase, InvVerdict, CalmInv,
         NEW v \in Workers, Acts(v)
  PROVE  InvCounts'
<1> USE DEF CalmInv
<1>0. InvRole /\ (\A w \in Workers : SerialOf(w) /\ CountsOf(w) /\ RoundOf(w)) /\ ~Udp
  BY DEF Together, InvCounts, InvBase, Reliable
<1>1. \A w \in Workers : SerialOf(w)'
  BY <1>0, SerialStep
<1>2. CASE TalkInit(v)
  BY <1>0, <1>1, <1>2, InitCounts DEF InvCounts
<1>3. CASE SetCount(v)
  BY <1>0, <1>1, <1>3, SetCounts DEF InvCounts
<1>4. CASE Recount(v)
  BY <1>0, <1>1, <1>4, RecountCounts DEF InvCounts
<1>5. CASE ~TalkInit(v) /\ ~SetCount(v) /\ ~Recount(v)
  <2>1. cnt' = cnt /\ (pc[v] = "setcount" => pc'[v] = "setcount")
    BY <1>5, CountSteps
  <2>2. Sender(v) /\ RecvEnd(v) /\ loc'[v].weak => loc[v].n < WeakLimit
    <3> SUFFICES ASSUME Sender(v), RecvEnd(v), loc'[v].weak
                 PROVE  loc[v].n < WeakLimit
      OBVIOUS
    <3> DEFINE u == Peer(v)
    <3>1. /\ Linked(v, u) /\ u \in Workers /\ Peer(u) = v
          /\ loc[v].phase \in {1, 2} /\ loc[u].phase \in {1, 2}
      BY LinkedIs, RolesOf DEF Linked
    <3>2. ConvOf(v) /\ ConvOf(u)
      BY <3>1 DEF InvConv
    <3>3. pc[v] = "end"
      BY DEF RecvEnd, At
    <3>4. loc[u].phase = loc[v].phase
      BY <3>1, <3>2, <3>3 DEF ConvOf, Ahead
    <3>5. Conf(v, u)
      BY <3>2, <3>4 DEF ConvOf
    <3> QED
      BY <1>0, <3>1, <3>5, EndRead
  <2>3. CountsOf(v)'
    BY <1>0, <1>5, <2>1, <2>2, OwnCounts
  <2>4. ASSUME NEW w \in Workers, w # v
        PROVE  CountsOf(w)'
    <3>1. CountOf(w)' = CountOf(w)
      BY <2>1, <2>4, StepAlone DEF Alone, CountOf, Dir
    <3> QED
      BY <1>0, <2>1, <2>4, <3>1, OthersCounts
  <2> QED
    BY <1>1, <2>3, <2>4 DEF InvCounts
<1> QED
  BY <1>2, <1>3, <1>4, <1>5

LEMMA CalmNext ==
  ASSUME Reliable, Attainable, Inv, TypeInv', VerdictInv, InvDone, NoSplit', CalmInv, [Next]_vars
  PROVE  CalmInv'
<1>0. TypeInv /\ Together /\ InvRole /\ InvBase /\ InvVerdict
  BY DEF Inv, Together, VerdictInv
<1>1. ASSUME NEW v \in Workers, Acts(v)
      PROVE  CalmInv'
  <2>1. InvConv' /\ alive' = alive
    BY <1>0, <1>1, ConvStep
  <2>2. InvIdle'
    <3>1. IdleOf(v)'
      BY <1>0, <1>1, IdleStep DEF CalmInv, InvIdle
    <3>2. \A w \in Workers : w # v => IdleOf(w)'
      BY <1>0, <1>1, StepAlone DEF CalmInv, InvIdle, IdleOf, Alone
    <3> QED
      BY <3>1, <3>2 DEF InvIdle
  <2>3. InvCounts'
    BY <1>0, <1>1, CountsStep
  <2> QED
    BY <2>1, <2>2, <2>3 DEF CalmInv, NoFailure
<1>2. ASSUME NEW s \in Sides, NEW b \in 0 .. 2, BarrierWait(s, b)
      PROVE  CalmInv'
  <2>1. alive' = alive /\ loc' = loc
    BY <1>2 DEF BarrierWait
  <2>2. InvConv'
    BY <1>0, <1>2, ConvBarrier DEF CalmInv, InvConv, InvBase, InvCounts
  <2>3. InvIdle'
    <3> SUFFICES ASSUME NEW w \in Workers
                 PROVE  IdleOf(w)'
      BY DEF InvIdle
    <3>1. pc'[w] = pc[w] \/ <<pc[w], pc'[w]>> \in BarrierPairs
      BY <1>0, <1>2, BarrierQuiet
    <3>2. IdleOf(w)
      BY DEF CalmInv, InvIdle
    <3> QED
      BY <2>1, <3>1, <3>2 DEF IdleOf, BarrierPairs, EndLabels
  <2>4. InvCounts'
    BY <1>0, <1>2, SerialBarrier, CountsBarrier DEF CalmInv, InvCounts
  <2> QED
    BY <2>1, <2>2, <2>3, <2>4 DEF CalmInv, NoFailure
<1>3. ASSUME UNCHANGED <<pc, loc, chan, cnt>>,
             alive' = alive \/ \E s \in Sides : alive' = [alive EXCEPT ![s] = "completed"]
      PROVE  CalmInv'
  <2>1. NoFailure'
    BY <1>0, <1>3 DEF CalmInv, NoFailure, TypeInv, CoreType
  <2>2. InvIdle'
    BY <1>3 DEF CalmInv, InvIdle, IdleOf
  <2>3. InvCounts'
    BY <1>3 DEF CalmInv, InvCounts, SerialOf, CountsOf, CountOf, Sender, Dir, Team
  <2>4. InvConv'
    <3> SUFFICES ASSUME NEW w \in Workers
                 PROVE  ConvOf(w)'
      BY DEF InvConv
    <3>1. /\ Conf(w, Peer(w)) => Conf(w, Peer(w))'
          /\ Ahead(w, Peer(w)) => Ahead(w, Peer(w))'
      BY <1>3, ConfFrame DEF StillPair
    <3>2. ConvOf(w) /\ (Sender(w)' <=> Sender(w))
      BY <1>3 DEF CalmInv, InvConv, Sender, Dir
    <3> QED
      BY <1>3, <3>1, <3>2 DEF ConvOf
  <2> QED
    BY <2>1, <2>2, <2>3, <2>4 DEF CalmInv
<1> QED
  BY <1>1, <1>2, <1>3, CalmCases

LEMMA CalmInit == ~Udp /\ Init => CalmInv
<1> SUFFICES ASSUME Init
             PROVE  CalmInv
  OBVIOUS
<1>1. /\ TypeInv
      /\ \A w \in Workers : /\ pc[w] = "init" /\ chan[w] = <<>> /\ loc[w].phase = 1
                            /\ loc[w].i = 0 /\ loc[w].round = 0
  BY TypeInit DEF Init
<1>2. InvConv
  <2> SUFFICES ASSUME NEW w \in Workers
               PROVE  ConvOf(w)
    BY DEF InvConv
  <2> DEFINE u == Peer(w)
  <2>1. u \in Workers /\ u = Peer(w)
    BY PeerType
  <2> HIDE DEF u
  <2>2. Opening(w, u) /\ ~(loc[w].phase > loc[u].phase)
    BY <1>1, <2>1 DEF Opening, Silent, Size
  <2> QED
    BY <2>1, <2>2 DEF ConvOf, Conf
<1>3. InvIdle
  BY <1>1 DEF InvIdle, IdleOf
<1>4. InvCounts
  BY <1>1 DEF InvCounts, SerialOf, CountsOf, PreLabels, AfterLabels, Team
<1>5. NoFailure
  BY DEF Init, NoFailure
<1> QED
  BY <1>2, <1>3, <1>4, <1>5 DEF CalmInv

LEMMA CalmInvariance ==
  ASSUME Reliable, Attainable
  PROVE  Spec => []CalmInv
<1>0. ~Udp
  BY DEF Reliable
<1>1. Init => CalmInv
  BY <1>0, CalmInit
<1>2. Inv /\ VerdictInv => NoSplit
  <2> SUFFICES ASSUME Inv, VerdictInv
               PROVE  NoSplit
    OBVIOUS
  <2> QED
    BY SplitVerdict DEF Inv, NoSplit
<1>3. Inv /\ TypeInv' /\ VerdictInv /\ InvDone /\ NoSplit' /\ CalmInv /\ [Next]_vars => CalmInv'
  BY CalmNext
<1>4. Inv => TypeInv
  BY DEF Inv
<1>5. Spec => []VerdictInv
  BY <1>0, VerdictInvariance
<1> QED
  BY <1>1, <1>2, <1>3, <1>4, <1>5, Invariance, ReportsInvariance, PTL DEF Spec

(* Over TCP, if no receive times out and no process is killed, neither process ever
   fails: no receive of either side finds another message than the one it expects,
   no count is refused (talk.c, lines 328-335), the assertions on the count (lines
   888, 954 and 955) hold, and nobody is left writing to or reading from a peer that
   has gone.  For any number of connections, handshakes and packets, one or both
   directions, provided that no stream that can be weak is so long that a recount
   reaches talk_count_max (Attainable): the code raises the count without a bound
   (line 946).                                                                *)
THEOREM NeverFails ==
  ASSUME Reliable, Attainable
  PROVE  Spec => []NoFailure
<1>1. CalmInv => NoFailure
  BY DEF CalmInv
<1> QED
  BY <1>1, CalmInvariance, PTL

-----------------------------------------------------------------------------
(* The refinement of Lockstep: how far apart two workers can be. *)

(* The two workers of a connection are in the same round, or the receiver has still
   to read the count of the next.                                             *)
LEMMA PairRounds ==
  ASSUME NEW y, NEW z, Conf(y, z), RoundOf(y), RoundOf(z)
  PROVE  \/ /\ loc[y].round = loc[z].round
            /\ pc[y] \in {"start", "b_reset"} \/ pc[z] \in {"start", "b_reset"} =>
                 /\ loc[y].n = loc[z].n /\ pc[y] \in StreamingLabels \cup {"start"}
                 /\ pc[z] \in StreamingLabels \cup {"start"}
         \/ /\ loc[y].round = loc[z].round + 1 /\ pc[y] = "start"
            /\ pc[z] \in AfterLabels \cup {"neg"}
<1>1. CASE Opening(y, z) \/ Pinged(y, z) \/ Ponged(y, z)
  BY <1>1 DEF Opening, Pinged, Ponged, RoundOf, PreLabels
<1>2. CASE Greeting(y, z) \/ Offered(y, z) \/ Accepted(y, z) \/ Started(y, z)
  BY <1>2 DEF Greeting, Offered, Accepted, Started, Same, StreamingLabels, ResetLabels
<1>3. CASE Streaming(y, z)
  BY <1>3 DEF Streaming, Same
<1>4. CASE Ending(y, z) \/ Judging(y, z) \/ GoingOn(y, z) \/ Parting(y, z)
  BY <1>4 DEF Ending, Judging, GoingOn, Parting, Same, AfterLabels, EndLabels
<1> QED
  BY <1>1, <1>2, <1>3, <1>4 DEF Conf

(* The workers of a side, while one of them waits to begin a round. *)
LEMMA MatesAtNeg ==
  ASSUME TypeInv, Together, InvBase, InvVerdict, NEW w \in Workers, NEW u \in Workers,
         u[1] = w[1], pc[w] = "neg"
  PROVE  /\ loc[u].phase = loc[w].phase /\ ~Closing(u) /\ Base(u) = loc[w].round
         /\ loc[w].round >= 1 => Going(w)
         /\ \/ loc[u].round = loc[w].round /\ pc[u] \notin {"start", "b_reset"}
            \/ loc[u].round = loc[w].round + 1 /\ pc[u] \in {"start", "b_reset"}
<1>0. /\ loc[w].round \in Nat /\ loc[u].round \in Nat /\ RoundOf(w) /\ RoundOf(u)
      /\ loc[w].phase \in {1, 2} /\ loc[u].phase \in {1, 2} /\ Base(w) = loc[w].round
  BY BaseType DEF InvBase, Base
<1>1. loc[w].round >= 1 => Going(w)
  BY <1>0 DEF Going
<1>2. Closed(u) => ~(loc[w].round >= 1)
  BY <1>1 DEF InvVerdict, VerdictOf
<1>3. loc[u].phase = loc[w].phase
  <2>1. ~(loc[w].phase > loc[u].phase)
    BY DEF Together, InvPhase
  <2>2. ASSUME loc[u].phase > loc[w].phase
        PROVE  FALSE
    <3>1. pc[u] = "b_init" /\ loc[w].round >= 1
      BY <1>0, <2>2 DEF Together, InvPhase, InvBase
    <3> QED
      BY <1>0, <1>2, <2>2, <3>1 DEF Closed
  <2> QED
    BY <1>0, <2>1, <2>2
<1>4. Base(u) = loc[w].round
  BY <1>0, <1>3 DEF InvBase
<1>5. ~Closing(u)
  <2> SUFFICES ASSUME Closing(u)
               PROVE  FALSE
    OBVIOUS
  <2>1. Closed(u) /\ Base(u) = loc[u].round /\ loc[u].round >= 1
    BY <1>0 DEF Closing, Closed, Base, RoundOf, PreLabels
  <2> QED
    BY <1>2, <1>4, <2>1
<1>6. \/ loc[u].round = loc[w].round /\ pc[u] \notin {"start", "b_reset"}
      \/ loc[u].round = loc[w].round + 1 /\ pc[u] \in {"start", "b_reset"}
  BY <1>0, <1>4 DEF Base
<1> QED
  BY <1>1, <1>3, <1>4, <1>5, <1>6

(* The two workers of a connection are in the same talk while a worker on the side
   of one of them, w, waits to begin a round.                                 *)
LEMMA TalkAtNeg ==
  ASSUME TypeInv, Together, InvBase, InvVerdict, InvConv, NEW w \in Workers, NEW u \in Workers,
         u[1] = w[1], pc[w] = "neg"
  PROVE  loc[Peer(u)].phase = loc[w].phase
<1> DEFINE x == Peer(u)
           y == Peer(w)
<1>1. /\ x \in Workers /\ y \in Workers /\ Peer(x) = u /\ Peer(y) = w /\ x[1] = y[1]
      /\ x = Peer(u) /\ y = Peer(w)
  BY PeerType, PeerOfPeer DEF Peer
<1>2. /\ ConvOf(w) /\ ConvOf(u) /\ ConvOf(x) /\ ConvOf(y)
  BY <1>1 DEF InvConv
<1> HIDE DEF x, y
<1>3. loc[u].phase = loc[w].phase /\ ~Closing(u)
  BY MatesAtNeg
<1>4. /\ loc[w].phase \in {1, 2} /\ loc[x].phase \in {1, 2} /\ loc[y].phase \in {1, 2}
      /\ loc[y].phase = loc[w].phase => (Sender(y) <=> ~Sender(w))
  BY <1>1, BaseType, RolesOf
<1>5. ~(loc[x].phase > loc[u].phase)
  BY <1>1, <1>2, <1>3 DEF ConvOf, Ahead, Closing
<1>6. ASSUME loc[u].phase > loc[x].phase
      PROVE  FALSE
  <2>1. Ahead(u, x) /\ ~Sender(u)
    BY <1>1, <1>2, <1>6 DEF ConvOf, Ahead
  <2>2. ~Async
    BY <1>3, <1>4, <1>6, PhaseType
  <2>3. ~Sender(w)
    <3>1. u \in Team(w)
      BY <2>2 DEF Team
    <3> QED
      BY <1>3, <2>1, <3>1, TeamRole
  <2>4. loc[y].phase = loc[w].phase
    <3>1. ~(loc[w].phase > loc[y].phase) /\ ~(loc[y].phase > loc[w].phase)
      BY <1>1, <1>2 DEF ConvOf, Ahead
    <3> QED
      BY <1>4, <3>1
  <2>5. Conf(y, w)
    BY <1>1, <1>2, <1>4, <2>3, <2>4 DEF ConvOf
  <2>6. pc[y] # "b_init"
    BY <2>5, HearerScene
    DEF Ponged, Greeting, Offered, Ending, Judging, GoingOn, EndLabels, AfterLabels
  <2>7. loc[y].phase > loc[x].phase
    BY <1>3, <1>6, <2>4
  <2> QED
    BY <1>1, <2>6, <2>7 DEF Together, InvPhase
<1>7. loc[x].phase = loc[w].phase
  BY <1>3, <1>4, <1>5, <1>6
<1> QED
  BY <1>7 DEF x

(* The workers of the other side. *)
LEMMA PeersAtNeg ==
  ASSUME TypeInv, Together, InvBase, InvVerdict, InvConv, NoSplit, NEW w \in Workers,
         NEW u \in Workers, u[1] = w[1], pc[w] = "neg", NEW x, x = Peer(u)
  PROVE  /\ x \in Workers /\ loc[x].phase = loc[w].phase /\ ~Closing(x)
         /\ loc[x].round \in {loc[w].round, loc[w].round + 1}
         /\ loc[x].round = loc[w].round + 1 =>
              \/ Sender(x) /\ pc[x] = "start"
              \/ /\ pc[u] \in {"start", "b_reset"} /\ loc[u].n = loc[x].n
                 /\ loc[u].round = loc[x].round
                 /\ pc[x] \in StreamingLabels \cup {"start"} /\ (Sender(u) <=> ~Sender(x))
         /\ loc[u].round = loc[w].round + 1 =>
              \/ Sender(u)
              \/ /\ loc[u].n = loc[x].n /\ loc[u].round = loc[x].round /\ Sender(x)
                 /\ pc[x] \in StreamingLabels \cup {"start"}
<1>1. /\ x \in Workers /\ Peer(x) = u /\ x[1] # w[1] /\ RoundOf(x) /\ RoundOf(u)
      /\ loc[w].round \in Nat /\ loc[x].round \in Nat /\ loc[u].round \in Nat
  BY LinkedIs, BaseType DEF Linked, InvBase
<1>2. loc[x].phase = loc[w].phase /\ loc[u].phase = loc[w].phase
  BY TalkAtNeg, MatesAtNeg
<1>3. /\ \/ loc[u].round = loc[w].round /\ pc[u] \notin {"start", "b_reset"}
         \/ loc[u].round = loc[w].round + 1 /\ pc[u] \in {"start", "b_reset"}
      /\ loc[w].round >= 1 => Going(w)
  BY MatesAtNeg
<1>4. Sender(x) <=> ~Sender(u)
  BY <1>2, RolesOf
<1>5. ConvOf(u) /\ ConvOf(x)
  BY <1>1 DEF InvConv
<1>6. (Sender(u) /\ Conf(u, x)) \/ (Sender(x) /\ Conf(x, u))
  BY <1>1, <1>2, <1>4, <1>5 DEF ConvOf
<1>7. \/ /\ loc[u].round = loc[x].round
         /\ pc[u] \in {"start", "b_reset"} =>
              loc[u].n = loc[x].n /\ pc[x] \in StreamingLabels \cup {"start"}
      \/ /\ Sender(u) /\ loc[u].round = loc[x].round + 1 /\ pc[u] = "start"
         /\ pc[x] \in AfterLabels \cup {"neg"}
      \/ /\ Sender(x) /\ loc[x].round = loc[u].round + 1 /\ pc[x] = "start"
         /\ pc[u] \in AfterLabels \cup {"neg"}
  BY <1>1, <1>6, PairRounds
<1>8. loc[x].round \in {loc[w].round, loc[w].round + 1}
  BY <1>1, <1>3, <1>7 DEF AfterLabels
<1>9. ~Closing(x)
  <2> SUFFICES ASSUME Closing(x)
               PROVE  FALSE
    OBVIOUS
  <2>1. loc[x].round >= 1
    BY <1>1 DEF Closing, RoundOf, PreLabels
  <2>2. loc[x].round # loc[w].round
    <3>1. loc[w].round >= 1 => Base(w) # loc[x].round
      BY <1>1, <1>2, <1>3 DEF NoSplit, Closing
    <3>2. Base(w) = loc[w].round
      BY DEF Base
    <3> QED
      BY <2>1, <3>1, <3>2
  <2> QED
    BY <1>1, <1>3, <1>7, <1>8, <2>2
    DEF Closing, AfterLabels, StreamingLabels, ResetLabels, EndLabels
<1>10. loc[x].round = loc[w].round + 1 =>
         \/ Sender(x) /\ pc[x] = "start"
         \/ /\ pc[u] \in {"start", "b_reset"} /\ loc[u].n = loc[x].n
            /\ loc[u].round = loc[x].round
            /\ pc[x] \in StreamingLabels \cup {"start"} /\ (Sender(u) <=> ~Sender(x))
  BY <1>1, <1>3, <1>4, <1>7
<1>11. loc[u].round = loc[w].round + 1 =>
         \/ Sender(u)
         \/ /\ loc[u].n = loc[x].n /\ loc[u].round = loc[x].round /\ Sender(x)
            /\ pc[x] \in StreamingLabels \cup {"start"}
  BY <1>1, <1>3, <1>4, <1>7 DEF AfterLabels
<1> QED
  BY <1>1, <1>2, <1>8, <1>9, <1>10, <1>11

(* Worker u has begun the round that w is about to begin: the sender of its
   connection has the count of u, and has not gone on.                        *)
LEMMA BegunBy ==
  ASSUME TypeInv, Together, InvBase, InvVerdict, InvConv, NoSplit, NEW w \in Workers,
         pc[w] = "neg", NEW u \in Workers, loc[u].round = loc[w].round + 1
  PROVE  \E x \in Workers : /\ Sender(x) /\ x[2] = u[2] /\ loc[x].phase = loc[w].phase
                            /\ loc[x].n = loc[u].n /\ loc[x].round >= 1
                            /\ pc[x] \notin {"b_re2", "neg"}
<1> DEFINE x == Peer(u)
<1>1. /\ x \in Workers /\ Peer(x) = u /\ x[2] = u[2] /\ loc[w].round \in Nat
      /\ u[1] # x[1] /\ u[1] \in Sides /\ x[1] \in Sides /\ w[1] \in Sides
  BY LinkedIs, BaseType, PeerType DEF Linked, Peer
<1>2. x = Peer(u)
  OBVIOUS
<1> HIDE DEF x
<1>3. StreamingLabels \cap {"b_re2", "neg"} = {}
  BY DEF StreamingLabels, ResetLabels, EndLabels
<1>4. CASE u[1] = w[1]
  <2>1. pc[u] \in {"start", "b_reset"} /\ loc[u].phase = loc[w].phase
    BY <1>1, <1>4, MatesAtNeg
  <2>2. /\ loc[x].phase = loc[w].phase
        /\ \/ Sender(u)
           \/ /\ loc[u].n = loc[x].n /\ loc[u].round = loc[x].round /\ Sender(x)
              /\ pc[x] \in StreamingLabels \cup {"start"}
    BY <1>2, <1>4, PeersAtNeg
  <2>3. CASE Sender(u)
    BY <1>1, <2>1, <2>3
  <2>4. CASE /\ loc[u].n = loc[x].n /\ loc[u].round = loc[x].round /\ Sender(x)
             /\ pc[x] \in StreamingLabels \cup {"start"}
    BY <1>1, <1>3, <2>2, <2>4
  <2> QED
    BY <2>2, <2>3, <2>4
<1>5. CASE u[1] # w[1]
  <2>1. x[1] = w[1]
    BY <1>1, <1>5 DEF Sides
  <2>2. /\ loc[u].phase = loc[w].phase
        /\ \/ Sender(u) /\ pc[u] = "start"
           \/ /\ pc[x] \in {"start", "b_reset"} /\ loc[x].n = loc[u].n
              /\ loc[x].round = loc[u].round
              /\ pc[u] \in StreamingLabels \cup {"start"} /\ (Sender(x) <=> ~Sender(u))
    BY <1>1, <2>1, PeersAtNeg
  <2>3. loc[x].phase = loc[w].phase
    BY <1>1, <2>1, MatesAtNeg
  <2>4. CASE Sender(u)
    BY <1>1, <1>3, <2>2, <2>4
  <2>5. CASE ~Sender(u)
    BY <1>1, <2>2, <2>3, <2>5
  <2> QED
    BY <2>4, <2>5
<1> QED
  BY <1>4, <1>5

(* The senders of a direction read the count in the same place. *)
LEMMA SameCount ==
  ASSUME TypeInv, NEW x \in Workers, NEW y \in Workers, Sender(x), Sender(y),
         loc[x].phase = loc[y].phase, x[2] \in ReverseConns <=> y[2] \in ReverseConns
  PROVE  CountOf(x) = CountOf(y)
<1>1. Dir(x) = Dir(y)
  BY DirIs
<1>2. x[1] = y[1]
  <2>1. x[1] \in {"listener", "connector"} /\ y[1] \in {"listener", "connector"}
    BY PeerType DEF Sides
  <2> QED
    BY <1>1, <2>1, DirIs
<1> QED
  BY <1>1, <1>2 DEF CountOf

(* What a worker is about to stream is what those who have begun the round stream. *)
LEMMA BegunCount ==
  ASSUME TypeInv, Together, InvBase, InvVerdict, InvConv, InvCounts, NoSplit, NEW w \in Workers,
         pc[w] = "neg", NEW u \in Workers, loc[u].round = loc[w].round + 1,
         (Async /\ u[2] \in ReverseConns) <=> (Async /\ w[2] \in ReverseConns),
         NEW y \in Workers, Sender(y), y[2] = w[2], loc[y].phase = loc[w].phase
  PROVE  loc[u].n = CountOf(y)
<1>1. PICK x \in Workers : /\ Sender(x) /\ x[2] = u[2] /\ loc[x].phase = loc[w].phase
                           /\ loc[x].n = loc[u].n /\ loc[x].round >= 1
                           /\ pc[x] \notin {"b_re2", "neg"}
  BY BegunBy
<1>2. loc[x].n = CountOf(x)
  BY <1>1 DEF InvCounts, CountsOf
<1>3. x[2] \in ReverseConns <=> y[2] \in ReverseConns
  <2>1. u[2] \in Conns /\ w[2] \in Conns
    BY DEF Workers
  <2> QED
    BY <1>1, <2>1, TalkAssumption
<1>4. CountOf(x) = CountOf(y)
  BY <1>1, <1>3, SameCount
<1> QED
  BY <1>1, <1>2, <1>4

-----------------------------------------------------------------------------
(* A receiver never streams more than its sender. *)
NoMoreOf(w) == Sender(w) /\ loc[Peer(w)].phase = loc[w].phase /\ loc[Peer(w)].round >= 1 =>
                 loc[Peer(w)].n <= loc[w].n
InvNoMore == \A w \in Workers : NoMoreOf(w)

(* The count of a worker changes only where it begins a round. *)
LEMMA CountKept ==
  ASSUME TypeInv, InvRole, NEW v \in Workers, Acts(v), ~Begins(v)
  PROVE  loc'[v].n = loc[v].n
<1>1. ASSUME Stays(v) \/ Passes(v) \/ Advances(v) \/ Greets(v) \/ Takes(v) \/ Leaves(v)
             \/ Greeted(v) \/ Gives(v) \/ Adopts(v) \/ Stores(v) \/ Learns(v)
      PROVE  loc'[v].n = loc[v].n
  BY <1>1
  DEF Stays, Passes, Advances, Greets, Takes, Leaves, Greeted, Gives, Adopts, Stores, Learns,
      Becomes
<1>2. ASSUME Accepts(v) \/ Offers(v)
      PROVE  Begins(v)
  BY <1>2 DEF Accepts, Offers, Becomes, Begins
<1>3. ASSUME Closes(v)
      PROVE  loc'[v].n = loc[v].n
  BY <1>3 DEF Closes, EndTalk, TypeInv, CoreType, LocalType
<1> QED
  BY <1>1, <1>2, <1>3, TalkerSteps, HearerSteps DEF TalkerDoes, HearerDoes

LEMMA AcceptStep ==
  ASSUME TypeInv, NEW v \in Workers, Acts(v), ~Sender(v), pc[v] = "neg", pc'[v] = "start"
  PROVE  ReceiverNegotiate(v)
<1>1. ASSUME Exit(v) \/ FailReceived(v) \/ Fail(v, chan)
      PROVE  pc'[v] = pc[v]
  BY <1>1 DEF FailReceived, Fail, Exit
<1>2. ReceiverNegotiate(v) \/ RecvReset(v) \/ RecvTimeout(v) \/ SendReset(v)
  BY DEF Acts, Step, TalkInit, SendPing, RecvPong, Handshake, SetCount, SendStart, SenderNegotiate,
     RecvStart, Reset, SendRun, RecvRun, SendEnd, RecvEnd, Mark, Return, Decide, Recount,
     SendReport, RecvReport, SendFinish, RecvFinish, At
<1>3. CASE RecvReset(v) \/ RecvTimeout(v) \/ SendReset(v)
  BY <1>1, <1>3 DEF RecvReset, RecvTimeout, SendReset
<1> QED
  BY <1>2, <1>3

(* The count with which a worker begins a round is that of its sender's direction. *)
LEMMA BeginsIs ==
  ASSUME ~Udp, TypeInv, Together, InvBase, InvConv, InvCounts, NEW v \in Workers, Acts(v),
         Begins(v)
  PROVE  \E y \in Workers : /\ Sender(y) /\ y[2] = v[2] /\ loc[y].phase = loc[v].phase
                            /\ loc'[v].n = CountOf(y) /\ CountOf(y) \in Counts
                            /\ v = y \/ (~Sender(v) /\ y = Peer(v) /\ loc'[v].n = loc[y].n)
<1>1. pc[v] = "neg" /\ pc'[v] = "start" /\ loc \in [Workers -> LocalType]
  BY DEF Begins, TypeInv, CoreType
<1>2. CASE Sender(v)
  <2>1. SenderNegotiate(v)
    BY <1>1, <1>2, EventSteps
  <2>2. loc' = [loc EXCEPT ![v].n = CountOf(v), ![v].round = @ + 1]
    BY <1>1, <2>1 DEF SenderNegotiate, Exit, CountOf
  <2>3. loc'[v].n = CountOf(v)
    BY <1>1, <2>2 DEF LocalType
  <2>4. CountOf(v) \in Counts
    BY <1>1, <1>2 DEF InvCounts, CountsOf, PreLabels
  <2> QED
    BY <1>2, <2>3, <2>4
<1>3. CASE ~Sender(v)
  <2> DEFINE y == Peer(v)
  <2>1. /\ y \in Workers /\ Linked(y, v) /\ Peer(y) = v /\ y[2] = v[2] /\ y = Peer(v)
        /\ loc[v].phase \in {1, 2} /\ loc[y].phase \in {1, 2}
        /\ loc[y].phase = loc[v].phase => (Sender(y) <=> ~Sender(v))
    BY LinkedIs, RolesOf DEF Linked, Peer
  <2> HIDE DEF y
  <2>2. ConvOf(v) /\ ConvOf(y) /\ CountsOf(y) /\ RoundOf(y)
    BY <2>1 DEF InvConv, InvCounts, InvBase
  <2>3. loc[y].phase = loc[v].phase
    <3>1. ~(loc[v].phase > loc[y].phase) /\ ~(loc[y].phase > loc[v].phase)
      BY <1>1, <2>1, <2>2 DEF ConvOf, Ahead
    <3> QED
      BY <2>1, <3>1
  <2>4. Sender(y) /\ Conf(y, v)
    BY <1>3, <2>1, <2>2, <2>3 DEF ConvOf
  <2>5. pc[y] = "start" => loc[y].n < CountMax
    BY <2>1, <2>2, <2>4, CountsGive DEF PreLabels
  <2>6. ReceiverNegotiate(v)
    BY <1>1, <1>3, AcceptStep
  <2>7. /\ pc[y] = "start"
        /\ loc' = [loc EXCEPT ![v].n = loc[y].n, ![v].round = @ + 1]
    BY <1>3, <2>1, <2>4, <2>5, <2>6, CountRead
  <2>8. loc'[v].n = loc[y].n
    BY <1>1, <2>7 DEF LocalType
  <2>9. loc[y].n = CountOf(y) /\ CountOf(y) \in Counts
    BY <2>2, <2>4, <2>7 DEF RoundOf, CountsOf, PreLabels
  <2> QED
    BY <1>3, <2>1, <2>3, <2>4, <2>8, <2>9
<1> QED
  BY <1>2, <1>3

LEMMA NoMoreStep ==
  ASSUME ~Udp, TypeInv, TypeInv', Together, InvBase, InvConv, InvCounts, InvNoMore,
         NEW v \in Workers, Acts(v), NEW w \in Workers
  PROVE  NoMoreOf(w)'
<1> DEFINE u == Peer(w)
<1>1. /\ u \in Workers /\ u # w /\ Peer(u) = w /\ RoundOf(u) /\ RoundOf(w) /\ InvRole
      /\ loc[w].phase \in {1, 2} /\ loc[u].phase \in {1, 2} /\ u = Peer(w)
      /\ loc[w].round \in Nat /\ loc[u].round \in Nat /\ loc[w].n \in Nat /\ loc[u].n \in Nat
      /\ loc[u].phase = loc[w].phase => (Sender(u) <=> ~Sender(w))
  BY LinkedIs, RolesOf, NatLocals DEF Linked, InvBase, Together
<1>2. ConvOf(w) /\ ConvOf(u) /\ NoMoreOf(w) /\ CountsOf(w)
  BY <1>1 DEF InvConv, InvCounts, InvNoMore
<1>3. \A x \in Workers : x # v => loc'[x] = loc[x]
  BY StepAlone DEF Alone
<1> HIDE DEF u
<1>4. \A x \in Workers : loc'[x].phase = loc[x].phase => (Sender(x)' <=> Sender(x))
  BY DEF Sender, Dir
<1> SUFFICES ASSUME Sender(w)', loc'[u].phase = loc'[w].phase, loc'[u].round >= 1
             PROVE  loc'[u].n <= loc'[w].n
  BY <1>1 DEF NoMoreOf
<1>5. CASE w # v /\ u # v
  BY <1>1, <1>2, <1>3, <1>4, <1>5 DEF NoMoreOf
<1>6. CASE w = v
  <2>1. loc'[u] = loc[u]
    BY <1>1, <1>3, <1>6
  <2>2. CASE Turns(v)
    <3>1. loc[u].phase > loc[w].phase
      BY <1>1, <1>6, <2>1, <2>2 DEF Turns
    <3>2. Ahead(u, w)
      BY <1>1, <1>2, <3>1 DEF ConvOf
    <3> QED
      BY <1>1, <2>1, <3>2 DEF Ahead, RoundOf, PreLabels
  <2>3. CASE ~Turns(v)
    <3>1. loc'[v].phase = loc[v].phase
      BY <1>1, <2>3, RoundStep DEF GoesOn, Begins, Stops
    <3>2. Sender(w) /\ loc[u].phase = loc[w].phase /\ loc[u].n <= loc[w].n /\ Conf(w, u)
      BY <1>1, <1>2, <1>4, <1>6, <2>1, <3>1 DEF NoMoreOf, ConvOf
    <3>3. CASE ~Begins(v)
      BY <1>1, <1>6, <2>1, <3>2, <3>3, CountKept
    <3>4. CASE Begins(v)
      <4>1. loc'[v].n = CountOf(v) /\ CountOf(v) \in Counts
        BY <1>6, <3>2, <3>4, BeginsIs
      <4>2. loc[w].round >= 1
        BY <1>1, <2>1, <3>2, PairRounds
      <4>3. loc[w].n <= CountOf(w)
        BY <1>2, <3>2, <4>2 DEF CountsOf
      <4>4. CountOf(w) \in Nat
        BY <1>6, <4>1, TalkAssumption DEF Counts
      <4> QED
        BY <1>1, <1>6, <2>1, <3>2, <4>1, <4>3, <4>4
    <3> QED
      BY <3>3, <3>4
  <2> QED
    BY <2>2, <2>3
<1>7. CASE u = v
  <2>1. loc'[w] = loc[w] /\ (Sender(w)' <=> Sender(w))
    BY <1>1, <1>3, <1>4, <1>7
  <2>2. ~Turns(v)
    BY <1>7 DEF Turns
  <2>3. loc'[v].phase = loc[v].phase
    BY <1>1, <2>2, RoundStep DEF GoesOn, Begins, Stops
  <2>4. CASE ~Begins(v)
    <3>1. loc'[v].round = loc[v].round /\ loc'[v].n = loc[v].n
      BY <1>1, <2>2, <2>4, RoundStep, CountKept DEF GoesOn, Stops
    <3> QED
      BY <1>1, <1>2, <1>7, <2>1, <2>3, <3>1 DEF NoMoreOf
  <2>5. CASE Begins(v)
    <3>1. ~Sender(v)
      BY <1>1, <1>7, <2>1, <2>3
    <3>2. loc'[v].n = loc[w].n
      BY <1>1, <1>7, <2>5, <3>1, BeginsIs
    <3> QED
      BY <1>1, <1>7, <2>1, <3>2
  <2> QED
    BY <2>4, <2>5
<1> QED
  BY <1>5, <1>6, <1>7

-----------------------------------------------------------------------------
(* The steps of Lockstep. *)

(* The state of Lockstep. *)
TalkNow == [w \in Workers |-> loc[w].phase]
RoundNow == [w \in Workers |-> loc[w].round]
CountNow == [w \in Workers |-> IF loc[w].round = 0 THEN 0 ELSE loc[w].n]
ClosedNow == [w \in Workers |-> Closing(w)]

(* All the workers, while one of them waits to begin a round. *)
LEMMA AllAtNeg ==
  ASSUME TypeInv, Together, InvBase, InvVerdict, InvConv, NoSplit, NEW w \in Workers,
         pc[w] = "neg", NEW u \in Workers
  PROVE  /\ loc[u].phase = loc[w].phase /\ ~Closing(u)
         /\ loc[u].round \in {loc[w].round, loc[w].round + 1}
<1>1. CASE u[1] = w[1]
  BY <1>1, MatesAtNeg
<1>2. CASE u[1] # w[1]
  <2> DEFINE x == Peer(u)
  <2>1. x \in Workers /\ Peer(x) = u /\ x[1] # u[1]
    BY LinkedIs DEF Linked
  <2> HIDE DEF x
  <2>2. x[1] = w[1]
    <3>1. x[1] \in {"listener", "connector"} /\ u[1] \in {"listener", "connector"}
          /\ w[1] \in {"listener", "connector"}
      BY <2>1, PeerType DEF Sides
    <3> QED
      BY <1>2, <2>1, <3>1
  <2> QED
    BY <2>1, <2>2, PeersAtNeg
<1> QED
  BY <1>1, <1>2

LEMMA BeginRefines ==
  ASSUME ~Udp, TypeInv, Together, InvBase, InvVerdict, InvConv, InvCounts, InvNoMore, NoSplit,
         NEW v \in Workers, Acts(v), Begins(v)
  PROVE  Agreement!Begin(v)
<1>0. /\ pc[v] = "neg" /\ pc'[v] = "start" /\ loc'[v].phase = loc[v].phase
      /\ loc'[v].round = loc[v].round + 1 /\ loc[v].round \in Nat /\ loc[v].n \in Nat
      /\ CountDefault \in Nat /\ CountMax \in Nat
  BY NatLocals, TalkAssumption DEF Begins
<1>1. \A u \in Workers : u # v => loc'[u] = loc[u] /\ pc'[u] = pc[u]
  BY StepAlone DEF Alone
<1>2. \A u \in Workers : /\ loc[u].phase = loc[v].phase /\ ~Closing(u)
                         /\ loc[u].round \in {loc[v].round, loc[v].round + 1}
  BY <1>0, AllAtNeg
<1>3. PICK y \in Workers :
        /\ Sender(y) /\ y[2] = v[2] /\ loc[y].phase = loc[v].phase
        /\ loc'[v].n = CountOf(y) /\ CountOf(y) \in Counts
        /\ v = y \/ (~Sender(v) /\ y = Peer(v) /\ loc'[v].n = loc[y].n)
  BY BeginsIs
<1> DEFINE c == loc'[v].n
<1>4. c \in CountDefault .. CountMax /\ c \in Nat
  BY <1>0, <1>3 DEF Counts
<1>5. loc[v].round # 0 => c >= loc[v].n
  <2> SUFFICES ASSUME loc[v].round # 0
               PROVE  c >= loc[v].n
    OBVIOUS
  <2>1. loc[v].round >= 1
    BY <1>0
  <2>2. CASE v = y
    <3>1. loc[v].n <= CountOf(v)
      BY <1>3, <2>1, <2>2 DEF InvCounts, CountsOf
    <3>2. c = CountOf(v)
      BY <1>3, <2>2
    <3> HIDE DEF c
    <3> QED
      BY <1>0, <1>4, <3>1, <3>2
  <2>3. CASE y = Peer(v) /\ c = loc[y].n
    <3>1. Peer(y) = v
      BY <2>3, PeerOfPeer
    <3>2. loc[v].n <= loc[y].n
      BY <1>3, <2>1, <3>1 DEF InvNoMore, NoMoreOf
    <3> HIDE DEF c
    <3> QED
      BY <1>0, <1>4, <2>3, <3>2
  <2> QED
    BY <1>3, <2>2, <2>3
<1>6. ASSUME NEW u \in Workers,
             (Async /\ u[2] \in ReverseConns) <=> (Async /\ v[2] \in ReverseConns),
             loc[u].round > loc[v].round
      PROVE  loc[u].n = c /\ loc[u].round # 0
  <2>1. loc[u].round = loc[v].round + 1
    BY <1>0, <1>2, <1>6
  <2>2. loc[u].n = CountOf(y)
    BY <1>0, <1>3, <1>6, <2>1, BegunCount
  <2> QED
    BY <1>0, <1>3, <2>1, <2>2
<1> HIDE DEF c
<1>7. /\ TalkNow' = TalkNow /\ ClosedNow' = ClosedNow
      /\ RoundNow' = [RoundNow EXCEPT ![v] = @ + 1]
  <2>1. TalkNow' = TalkNow /\ RoundNow' = [RoundNow EXCEPT ![v] = @ + 1]
    BY <1>0, <1>1 DEF TalkNow, RoundNow
  <2>2. ASSUME NEW u \in Workers
        PROVE  Closing(u)' = Closing(u)
    <3>1. CASE u = v
      BY <1>0, <3>1 DEF Closing
    <3>2. CASE u # v
      <4>1. pc'[u] = pc[u]
        BY <1>1, <3>2
      <4> QED
        BY <4>1, Zenon DEF Closing
    <3> QED
      BY <3>1, <3>2
  <2>3. ClosedNow' = ClosedNow
    BY <2>2, Zenon DEF ClosedNow
  <2> QED
    BY <2>1, <2>3
<1>8. CountNow' = [CountNow EXCEPT ![v] = c]
  <2>1. loc'[v].round # 0 /\ loc'[v].n = c
    BY <1>0 DEF c
  <2>2. CountNow' = [w \in Workers |-> IF w = v THEN c ELSE CountNow[w]]
    BY <1>1, <2>1 DEF CountNow
  <2> QED
    BY <2>2 DEF CountNow
<1>9. ~Closing(v)
  BY <1>2
<1>10. c \in Agreement!Agreeable(v)
  <2>1. c >= CountNow[v]
    BY <1>4, <1>5 DEF CountNow
  <2>2. ASSUME NEW u \in Workers,
               (Async /\ u[2] \in ReverseConns) = (Async /\ v[2] \in ReverseConns),
               RoundNow[u] > RoundNow[v]
        PROVE  CountNow[u] = c
    <3>1. loc[u].round > loc[v].round
      BY <2>2 DEF RoundNow
    <3>2. (Async /\ u[2] \in ReverseConns) <=> (Async /\ v[2] \in ReverseConns)
      BY <2>2, Zenon
    <3> QED
      BY <1>6, <3>1, <3>2 DEF CountNow
  <2> QED
    BY <1>4, <2>1, <2>2 DEF Agreement!Agreeable, CountNow, RoundNow
<1> QED
  BY <1>2, <1>7, <1>8, <1>9, <1>10
  DEF Agreement!Begin, TalkNow, RoundNow, CountNow, ClosedNow

(* The workers of a side when one of them closes the talk. *)
LEMMA MatesAtClose ==
  ASSUME TypeInv, Together, InvBase, NEW v \in Workers, pc[v] \in {"ret", "decide"},
         NEW u \in Workers, u[1] = v[1],
         loc[u].phase = loc[v].phase => loc[u].round <= loc[v].round
  PROVE  \/ /\ loc[u].phase = loc[v].phase /\ loc[u].round = loc[v].round
            /\ pc[u] \notin {"start", "b_reset"}
         \/ loc[u].phase = loc[v].phase + 1 /\ loc[u].round = 0 /\ pc[u] = "b_init"
<1>1. /\ loc[v].round \in Nat /\ loc[u].round \in Nat /\ RoundOf(u)
      /\ loc[v].phase \in {1, 2} /\ loc[u].phase \in {1, 2} /\ Base(v) = loc[v].round
  BY BaseType DEF InvBase, Base
<1>2. ~(loc[v].phase > loc[u].phase)
  BY DEF Together, InvPhase
<1>3. CASE loc[u].phase > loc[v].phase
  <2>1. pc[u] = "b_init"
    BY <1>3 DEF Together, InvPhase
  <2> QED
    BY <1>1, <1>3, <2>1 DEF RoundOf, PreLabels
<1>4. CASE loc[u].phase = loc[v].phase
  <2>1. Base(u) = loc[v].round
    BY <1>1, <1>4 DEF InvBase
  <2> QED
    BY <1>1, <1>4, <2>1 DEF Base
<1> QED
  BY <1>1, <1>2, <1>3, <1>4

(* The workers of the other side: x is on the side of v. *)
LEMMA PeersAtClose ==
  ASSUME TypeInv, Together, InvBase, InvConv, NEW v \in Workers, pc[v] \in {"ret", "decide"},
         NEW u \in Workers, NEW x, x = Peer(u), x[1] = v[1],
         loc[x].phase = loc[v].phase => loc[x].round <= loc[v].round,
         loc[u].phase = loc[v].phase => loc[u].round <= loc[v].round,
         Closing(u) /\ loc[u].phase = loc[v].phase => loc[v].round <= loc[u].round
  PROVE  \/ loc[u].phase = loc[v].phase /\ loc[u].round = loc[v].round
         \/ loc[u].phase = loc[v].phase + 1 /\ loc[u].round = 0
<1>1. /\ x \in Workers /\ Peer(x) = u /\ RoundOf(x) /\ RoundOf(u) /\ RoundOf(v)
      /\ loc[v].round \in Nat /\ loc[x].round \in Nat /\ loc[u].round \in Nat
      /\ loc[v].phase \in {1, 2} /\ loc[x].phase \in {1, 2} /\ loc[u].phase \in {1, 2}
      /\ loc[u].phase = loc[x].phase => (Sender(u) <=> ~Sender(x))
  BY LinkedIs, RolesOf, BaseType DEF Linked, InvBase
<1>2. ConvOf(u) /\ ConvOf(x)
  BY <1>1 DEF InvConv
<1>3. /\ loc[u].phase > loc[x].phase => Ahead(u, x)
      /\ loc[x].phase > loc[u].phase => Ahead(x, u)
      /\ loc[u].phase = loc[x].phase =>
           (Sender(u) /\ Conf(u, x)) \/ (Sender(x) /\ Conf(x, u))
  BY <1>1, <1>2 DEF ConvOf
<1>4. loc[v].round >= 1
  BY <1>1 DEF RoundOf, PreLabels
<1>5. loc[u].phase = loc[x].phase =>
        \/ loc[u].round = loc[x].round
        \/ loc[u].round = loc[x].round + 1 /\ pc[x] \in AfterLabels \cup {"neg"}
        \/ loc[x].round = loc[u].round + 1 /\ pc[x] = "start"
  BY <1>1, <1>3, PairRounds
<1>6. CASE /\ loc[x].phase = loc[v].phase /\ loc[x].round = loc[v].round
           /\ pc[x] \notin {"start", "b_reset"}
  <2>1. CASE loc[u].phase > loc[x].phase
    BY <1>1, <1>3, <1>6, <2>1 DEF Ahead, RoundOf, PreLabels
  <2>2. ~(loc[x].phase > loc[u].phase)
    BY <1>1, <1>3, <1>4, <1>6 DEF Ahead, RoundOf, PreLabels
  <2>3. CASE loc[u].phase = loc[x].phase
    BY <1>1, <1>5, <1>6, <2>3
  <2> QED
    BY <1>1, <2>1, <2>2, <2>3
<1>7. CASE loc[x].phase = loc[v].phase + 1 /\ loc[x].round = 0 /\ pc[x] = "b_init"
  <2>1. CASE loc[u].phase = loc[x].phase
    BY <1>1, <1>5, <1>7, <2>1 DEF AfterLabels
  <2>2. CASE loc[x].phase > loc[u].phase
    <3>1. loc[u].phase = loc[v].phase /\ Closing(u)
      BY <1>1, <1>3, <1>7, <2>2 DEF Ahead, Closing
    <3> QED
      BY <1>1, <3>1
  <2>3. ~(loc[u].phase > loc[x].phase)
    BY <1>1, <1>7
  <2> QED
    BY <1>1, <2>1, <2>2, <2>3
<1> QED
  BY <1>1, <1>6, <1>7, MatesAtClose

(* A worker that goes on to report the result of its round closes the talk. *)
LEMMA CloseRefines ==
  ASSUME TypeInv, Together, InvBase, InvConv, SameVerdict', NEW v \in Workers, Acts(v),
         GoesOn(v), loc'[v].n = loc[v].n, pc[v] \in {"ret", "decide"}, pc'[v] = "report"
  PROVE  Agreement!Close(v)
<1>1. \A u \in Workers : u # v => loc'[u] = loc[u] /\ pc'[u] = pc[u]
  BY StepAlone DEF Alone
<1>2. /\ loc'[v].phase = loc[v].phase /\ loc'[v].round = loc[v].round
      /\ loc[v].round \in Nat /\ loc[v].round >= 1
  <2>1. RoundOf(v) /\ loc[v].round \in Nat
    BY BaseType DEF InvBase
  <2> QED
    BY <2>1 DEF GoesOn, RoundOf, PreLabels
<1>3. \A u \in Workers : loc'[u].phase = loc[u].phase /\ loc'[u].round = loc[u].round
                         /\ loc'[u].n = loc[u].n
  BY <1>1, <1>2
<1>4. ASSUME NEW u \in Workers
      PROVE  /\ loc[u].phase = loc[v].phase => loc[u].round <= loc[v].round
             /\ Closing(u) /\ loc[u].phase = loc[v].phase => loc[v].round <= loc[u].round
  <2>1. loc[u].phase = loc[v].phase => loc[u].round <= loc[v].round
    BY <1>3 DEF SameVerdict
  <2>2. Closing(u) /\ u # v => pc'[u] \in {"report", "finish", "done"}
    BY <1>1 DEF Closing
  <2>3. Closing(u) /\ u # v /\ loc[u].phase = loc[v].phase => loc[v].round <= loc[u].round
    BY <1>3, <2>2 DEF SameVerdict
  <2> QED
    BY <1>2, <2>1, <2>3
<1>5. ASSUME NEW u \in Workers
      PROVE  \/ loc[u].phase = loc[v].phase /\ loc[u].round = loc[v].round
             \/ loc[u].phase = loc[v].phase + 1 /\ loc[u].round = 0
  <2>1. CASE u[1] = v[1]
    BY <1>4, <2>1, MatesAtClose
  <2>2. CASE u[1] # v[1]
    <3> DEFINE x == Peer(u)
    <3>1. x \in Workers /\ Peer(x) = u /\ x[1] # u[1] /\ x = Peer(u)
      BY LinkedIs DEF Linked
    <3> HIDE DEF x
    <3>2. x[1] = v[1]
      <4>1. x[1] \in {"listener", "connector"} /\ u[1] \in {"listener", "connector"}
            /\ v[1] \in {"listener", "connector"}
        BY <3>1, PeerType DEF Sides
      <4> QED
        BY <2>2, <3>1, <4>1
    <3> QED
      BY <1>4, <3>1, <3>2, PeersAtClose
  <2> QED
    BY <2>1, <2>2
<1>6. TalkNow' = TalkNow /\ RoundNow' = RoundNow /\ CountNow' = CountNow
  BY <1>3 DEF TalkNow, RoundNow, CountNow
<1>7. ~Closing(v) /\ Closing(v)'
  BY DEF Closing
<1>8. ASSUME NEW u \in Workers, u # v
      PROVE  Closing(u)' = Closing(u)
  <2>1. pc'[u] = pc[u]
    BY <1>1, <1>8
  <2> QED
    BY <2>1, Zenon DEF Closing
<1>9. ClosedNow' = [ClosedNow EXCEPT ![v] = TRUE]
  <2>1. ASSUME NEW u \in Workers
        PROVE  Closing(u)' = IF u = v THEN TRUE ELSE Closing(u)
    <3>1. CASE u = v
      BY <1>7, <3>1 DEF Closing
    <3>2. CASE u # v
      BY <1>8, <3>2, Zenon
    <3> QED
      BY <3>1, <3>2
  <2>2. ClosedNow' = [u \in Workers |-> IF u = v THEN TRUE ELSE Closing(u)]
    BY <2>1, Zenon DEF ClosedNow
  <2> QED
    BY <2>2, Zenon DEF ClosedNow
<1>10. \A u \in Workers : /\ Agreement!NotBehind(u, v)
                          /\ TalkNow[u] = TalkNow[v] => RoundNow[u] = RoundNow[v]
  <2> SUFFICES ASSUME NEW u \in Workers
               PROVE  /\ Agreement!NotBehind(u, v)
                      /\ TalkNow[u] = TalkNow[v] => RoundNow[u] = RoundNow[v]
    OBVIOUS
  <2>1. loc[u].phase \in {1, 2} /\ loc[v].phase \in {1, 2}
    BY BaseType
  <2> QED
    BY <1>5, <2>1 DEF Agreement!NotBehind, TalkNow, RoundNow
<1> QED
  BY <1>2, <1>6, <1>7, <1>9, <1>10
  DEF Agreement!Close, TalkNow, RoundNow, CountNow, ClosedNow

(* A worker that has ended its talk goes on to the next. *)
LEMMA TurnRefines ==
  ASSUME TypeInv, TypeInv', NEW v \in Workers, Acts(v), Turns(v)
  PROVE  Agreement!NextTalk(v)
<1>1. \A u \in Workers : u # v => loc'[u] = loc[u] /\ pc'[u] = pc[u]
  BY StepAlone DEF Alone
<1>2. /\ loc'[v].phase = loc[v].phase + 1 /\ loc'[v].round = 0
      /\ loc[v].phase \in {1, 2} /\ Closing(v) /\ ~Closing(v)'
  BY BaseType DEF Turns, Closing
<1>3. loc[v].phase < Phases
  <2>1. loc'[v] \in LocalType /\ Phases \in {1, 2}
    BY PhaseType DEF TypeInv, CoreType
  <2>2. loc'[v].phase \in 1 .. Phases
    BY <2>1 DEF LocalType
  <2> QED
    BY <1>2, <2>1, <2>2
<1>4. TalkNow' = [TalkNow EXCEPT ![v] = @ + 1] /\ RoundNow' = [RoundNow EXCEPT ![v] = 0]
  BY <1>1, <1>2 DEF TalkNow, RoundNow
<1>5. CountNow' = [CountNow EXCEPT ![v] = 0]
  <2>1. CountNow' = [w \in Workers |-> IF w = v THEN 0 ELSE CountNow[w]]
    BY <1>1, <1>2 DEF CountNow
  <2> QED
    BY <2>1 DEF CountNow
<1>6. ClosedNow' = [ClosedNow EXCEPT ![v] = FALSE]
  <2>1. ASSUME NEW u \in Workers
        PROVE  Closing(u)' = IF u = v THEN FALSE ELSE Closing(u)
    <3>1. CASE u = v
      <4>1. pc'[v] \notin {"report", "finish", "done"}
        BY DEF Turns
      <4>2. Closing(v)' = FALSE
        BY <4>1 DEF Closing
      <4> QED
        BY <3>1, <4>2
    <3>2. CASE u # v
      <4>1. pc'[u] = pc[u]
        BY <1>1, <3>2
      <4> QED
        BY <3>2, <4>1, Zenon DEF Closing
    <3> QED
      BY <3>1, <3>2
  <2>2. ClosedNow' = [u \in Workers |-> IF u = v THEN FALSE ELSE Closing(u)]
    BY <2>1, Zenon DEF ClosedNow
  <2> QED
    BY <2>2, Zenon DEF ClosedNow
<1> QED
  BY <1>2, <1>3, <1>4, <1>5, <1>6
  DEF Agreement!NextTalk, TalkNow, RoundNow, CountNow, ClosedNow

(* No other step is seen in Lockstep. *)
LEMMA NothingSeen ==
  ASSUME \A u \in Workers : /\ loc'[u].phase = loc[u].phase /\ loc'[u].round = loc[u].round
                            /\ loc'[u].n = loc[u].n /\ (Closing(u)' <=> Closing(u))
  PROVE  UNCHANGED Agreement!vars
<1>1. TalkNow' = TalkNow /\ RoundNow' = RoundNow /\ CountNow' = CountNow
  BY DEF TalkNow, RoundNow, CountNow
<1>2. ASSUME NEW u \in Workers
      PROVE  Closing(u)' = Closing(u)
  <2>1. (pc'[u] \in {"report", "finish", "done"}) <=> (pc[u] \in {"report", "finish", "done"})
    BY DEF Closing
  <2> QED
    BY <2>1 DEF Closing
<1>3. ClosedNow' = ClosedNow
  BY <1>2, Zenon DEF ClosedNow
<1> QED
  BY <1>1, <1>3 DEF Agreement!vars, TalkNow, RoundNow, CountNow, ClosedNow

LEMMA ActRefines ==
  ASSUME ~Udp, TypeInv, TypeInv', Together, InvBase, InvVerdict, InvConv, InvCounts, InvNoMore,
         NoSplit, SameVerdict', NEW v \in Workers, Acts(v)
  PROVE  \/ Agreement!Begin(v) \/ Agreement!Close(v) \/ Agreement!NextTalk(v)
         \/ UNCHANGED Agreement!vars
<1>0. InvRole
  BY DEF Together
<1>1. CASE Begins(v)
  BY <1>1, BeginRefines
<1>2. CASE Turns(v)
  BY <1>2, TurnRefines
<1>3. CASE ~Begins(v) /\ ~Turns(v)
  <2>1. loc'[v].n = loc[v].n
    BY <1>0, <1>3, CountKept
  <2>2. GoesOn(v) \/ Stops(v)
    BY <1>0, <1>3, RoundStep
  <2>3. CASE GoesOn(v) /\ pc[v] \in {"ret", "decide"} /\ pc'[v] = "report"
    BY <2>1, <2>3, CloseRefines
  <2>4. CASE ~(GoesOn(v) /\ pc[v] \in {"ret", "decide"} /\ pc'[v] = "report")
    <3>1. Closing(v)' <=> Closing(v)
      <4>1. CASE Stops(v)
        BY <4>1 DEF Stops, Closing
      <4>2. CASE GoesOn(v) /\ pc'[v] = pc[v]
        BY <4>2 DEF Closing
      <4>3. CASE GoesOn(v) /\ <<pc[v], pc'[v]>> \in RoundMoves
        BY <2>4, <4>3 DEF RoundMoves, Closing
      <4> QED
        BY <2>2, <4>1, <4>2, <4>3 DEF GoesOn
    <3>2. loc'[v].phase = loc[v].phase /\ loc'[v].round = loc[v].round
      BY <2>2 DEF GoesOn, Stops
    <3>3. \A u \in Workers : u # v => loc'[u] = loc[u] /\ pc'[u] = pc[u]
      BY StepAlone DEF Alone
    <3>4. ASSUME NEW u \in Workers
          PROVE  /\ loc'[u].phase = loc[u].phase /\ loc'[u].round = loc[u].round
                 /\ loc'[u].n = loc[u].n /\ (Closing(u)' <=> Closing(u))
      <4>1. CASE u = v
        BY <2>1, <3>1, <3>2, <4>1
      <4>2. CASE u # v
        BY <3>3, <4>2 DEF Closing
      <4> QED
        BY <4>1, <4>2
    <3> QED
      BY <3>4, NothingSeen
  <2> QED
    BY <2>3, <2>4
<1> QED
  BY <1>1, <1>2, <1>3

LEMMA LockstepStep ==
  ASSUME Reliable, Inv, TypeInv', VerdictInv, CalmInv, InvNoMore, NoSplit, SameVerdict',
         [Next]_vars
  PROVE  [Agreement!Next]_(Agreement!vars) /\ InvNoMore'
<1>0. ~Udp /\ TypeInv /\ Together /\ InvRole /\ InvBase /\ InvVerdict /\ InvConv /\ InvCounts
  BY DEF Reliable, Inv, Together, VerdictInv, CalmInv
<1>1. ASSUME NEW v \in Workers, Acts(v)
      PROVE  [Agreement!Next]_(Agreement!vars) /\ InvNoMore'
  <2>1. InvNoMore'
    BY <1>0, <1>1, NoMoreStep DEF InvNoMore
  <2>2. \/ Agreement!Begin(v) \/ Agreement!Close(v) \/ Agreement!NextTalk(v)
        \/ UNCHANGED Agreement!vars
    BY <1>0, <1>1, ActRefines
  <2> QED
    BY <2>1, <2>2 DEF Agreement!Next
<1>2. ASSUME loc' = loc, \A u \in Workers : Closing(u)' <=> Closing(u)
      PROVE  UNCHANGED Agreement!vars /\ InvNoMore'
  <2>1. UNCHANGED Agreement!vars
    BY <1>2, NothingSeen
  <2>2. InvNoMore'
    BY <1>2 DEF InvNoMore, NoMoreOf, Sender, Dir
  <2> QED
    BY <2>1, <2>2
<1>3. ASSUME NEW s \in Sides, NEW b \in 0 .. 2, BarrierWait(s, b)
      PROVE  UNCHANGED Agreement!vars /\ InvNoMore'
  <2>1. loc' = loc
    BY <1>3 DEF BarrierWait
  <2>2. ASSUME NEW u \in Workers
        PROVE  Closing(u)' <=> Closing(u)
    <3>1. CASE pc'[u] = pc[u]
      BY <3>1 DEF Closing
    <3>2. CASE pc'[u] # pc[u]
      <4>1. <<pc[u], pc'[u]>> \in BarrierPairs
        BY <1>0, <1>3, <3>2, BarrierQuiet
      <4> QED
        BY <4>1 DEF BarrierPairs, Closing
    <3> QED
      BY <3>1, <3>2
  <2> QED
    BY <1>2, <2>1, <2>2
<1>4. ASSUME UNCHANGED <<pc, loc>>
      PROVE  UNCHANGED Agreement!vars /\ InvNoMore'
  BY <1>2, <1>4 DEF Closing
<1> QED
  BY <1>1, <1>3, <1>4, CalmCases

(* The workers of the two processes measure in lockstep (module Lockstep).  Over
   TCP, if no receive times out and no process is killed, what talk_sender() and
   talk_receiver() do with messages, flags and barriers amounts to this: nobody
   negotiates the count of a round (talk.c, lines 275-361) before all the workers
   of both machines have begun the round before; those of a direction begin it with
   the same count, never a lower one; and all leave the loop (lines 916 and 962)
   after the same round.  For any number of connections, rounds and packets, under
   the hypothesis of NeverFails.                                              *)
THEOREM LockstepRefined ==
  ASSUME Reliable, Attainable
  PROVE  Spec => RefinesLockstep
<1>0. ~Udp
  BY DEF Reliable
<1>1. Init => Agreement!Init
  <2> SUFFICES ASSUME Init
               PROVE  Agreement!Init
    OBVIOUS
  <2>1. ASSUME NEW w \in Workers
        PROVE  Closing(w) = FALSE
    <3>1. pc[w] \notin {"report", "finish", "done"}
      BY DEF Init
    <3> QED
      BY <3>1 DEF Closing
  <2>2. ClosedNow = [w \in Workers |-> FALSE]
    BY <2>1, Zenon DEF ClosedNow
  <2>3. /\ TalkNow = [w \in Workers |-> 1] /\ RoundNow = [w \in Workers |-> 0]
        /\ CountNow = [w \in Workers |-> 0]
    BY DEF Init, TalkNow, RoundNow, CountNow
  <2> QED
    BY <2>2, <2>3 DEF Agreement!Init, TalkNow, RoundNow, CountNow, ClosedNow
<1>2. Init => InvNoMore
  <2> SUFFICES ASSUME Init, NEW w \in Workers
               PROVE  NoMoreOf(w)
    BY DEF InvNoMore
  <2>1. Peer(w) \in Workers
    BY PeerType
  <2> QED
    BY <2>1 DEF Init, NoMoreOf
<1>3. Inv /\ VerdictInv => NoSplit
  <2> SUFFICES ASSUME Inv, VerdictInv
               PROVE  NoSplit
    OBVIOUS
  <2> QED
    BY SplitVerdict DEF Inv, NoSplit
<1>4. /\ Inv /\ TypeInv' /\ VerdictInv /\ CalmInv /\ InvNoMore /\ NoSplit /\ SameVerdict'
      /\ [Next]_vars
      => [Agreement!Next]_(Agreement!vars) /\ InvNoMore'
  BY LockstepStep
<1>5. Inv => TypeInv
  BY DEF Inv
<1>6. Spec => []VerdictInv
  BY <1>0, VerdictInvariance
<1>7. Spec => []SameVerdict
  BY <1>0, VerdictsAgree
<1>8. Spec => []CalmInv
  BY CalmInvariance
<1> QED
  BY <1>1, <1>2, <1>3, <1>4, <1>5, <1>6, <1>7, <1>8, Invariance, PTL
  DEF Spec, RefinesLockstep, Agreement!Safe
=============================================================================
