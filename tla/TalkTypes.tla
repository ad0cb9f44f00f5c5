----------------------------- MODULE TalkTypes -----------------------------
(* The types of the variables of module Talk, for any number of connections and
   every kind of test.  Apart from the bookkeeping it takes one idea: that no
   segment on the wire is empty, so that a worker that has read a packet has a
   header, and a body if it asked for one, also when the datagram is not the
   one it expected.                                                           *)
EXTENDS Talk, SequenceTheorems, WellFoundedInduction, TLAPS

Ops == {"PING", "PONG", "COUNT", "START", "RUN", "END", "ENDWEAK",
        "REPORT", "FINISH", "FAIL", "body"}

(* What is received together: a header, a body or both. *)
Segment == {q \in Seq(UnitType) : Len(q) \in {1, 2}}
Wire == [Workers -> Seq(Segment)]

(* The types of the variables but the wire. *)
CoreType == /\ alive \in [Sides -> {"running", "failed", "completed"}]
            /\ pc \in [Workers -> LabelSet]
            /\ loc \in [Workers -> LocalType]
            /\ report \in [Workers -> [Dirs -> ReportType]]
            /\ weak \in [Sides -> Nat]
            /\ imWeak \in [Sides -> [Dirs -> Nat]]
            /\ cnt \in [Sides -> [Dirs -> Nat]]
            /\ timeouts \in Nat /\ losses \in Nat

TypeInv == CoreType /\ chan \in Wire

-----------------------------------------------------------------------------
(* The operators of the wire. *)

LEMMA PeerType ==
  ASSUME NEW w \in Workers
  PROVE  /\ w = <<w[1], w[2]>> /\ w[1] \in Sides /\ w[2] \in Conns
         /\ Other(w[1]) \in Sides /\ Other(w[1]) # w[1]
         /\ Peer(w) \in Workers /\ Peer(w) # w
<1>1. w = <<w[1], w[2]>> /\ w[1] \in Sides /\ w[2] \in Conns
  BY DEF Workers
<1>2. \E o \in Sides : o # w[1]
  BY <1>1 DEF Sides
<1>3. Other(w[1]) \in Sides /\ Other(w[1]) # w[1]
  BY <1>2 DEF Other
<1> QED
  BY <1>1, <1>3 DEF Peer, Workers

LEMMA UnitIsTyped ==
  ASSUME NEW op \in Ops, NEW n \in Nat, NEW r \in ReportType
  PROVE  Unit(op, n, r) \in UnitType
BY DEF Unit, UnitType, Ops

LEMMA NoReportType == NoReport \in ReportType
BY DEF NoReport, ReportType

(* A packet is one or two units long, and goes out as one segment or as one for
   every unit.                                                                *)
LEMMA PacketType ==
  ASSUME NEW w, NEW op \in Ops, NEW n \in Nat, NEW r \in ReportType
  PROVE  Packet(w, op, n, r) \in Segment
<1> DEFINE head == Unit(op, n, NoReport)
           body == Unit("body", 0, r)
<1>1. head \in UnitType /\ body \in UnitType
  BY UnitIsTyped, NoReportType DEF Ops
<1> HIDE DEF head, body
<1>2. <<head, body>> \in Seq(UnitType) /\ Len(<<head, body>>) = 2
  BY <1>1
<1>3. UnitsOf(w) \in {1, 2}
  BY DEF UnitsOf
<1>4. \A i \in 1 .. UnitsOf(w) : <<head, body>>[i] \in UnitType
  BY <1>1, <1>3
<1>5. /\ SubSeq(<<head, body>>, 1, UnitsOf(w)) \in Seq(UnitType)
      /\ Len(SubSeq(<<head, body>>, 1, UnitsOf(w))) = UnitsOf(w)
  BY <1>3, <1>4, SubSeqProperties
<1>6. Packet(w, op, n, r) = SubSeq(<<head, body>>, 1, UnitsOf(w))
  BY DEF Packet, head, body
<1> QED
  BY <1>3, <1>5, <1>6 DEF Segment

LEMMA SegmentsType ==
  ASSUME NEW pkt \in Segment
  PROVE  Segments(pkt) \in Seq(Segment)
<1>1. CASE Udp
  <2>1. Segments(pkt) = <<pkt>>
    BY <1>1 DEF Segments
  <2> QED
    BY <2>1
<1>2. CASE ~Udp
  <2>1. pkt \in Seq(UnitType) /\ Len(pkt) \in Nat /\ DOMAIN pkt = 1 .. Len(pkt)
    BY LenProperties DEF Segment
  <2>2. \A i \in 1 .. Len(pkt) : <<pkt[i]>> \in Segment
    BY <2>1 DEF Segment
  <2>3. Segments(pkt) = [i \in 1 .. Len(pkt) |-> <<pkt[i]>>]
    BY <1>2, <2>1 DEF Segments
  <2> QED
    BY <2>1, <2>2, <2>3
<1> QED
  BY <1>1, <1>2

LEMMA PutType ==
  ASSUME NEW ch \in Wire, NEW w \in Workers, NEW pkt \in Segment
  PROVE  Put(ch, w, pkt) \in Wire
<1>1. ch[Peer(w)] \in Seq(Segment) /\ Segments(pkt) \in Seq(Segment)
  BY PeerType, SegmentsType DEF Wire
<1>2. ch[Peer(w)] \o Segments(pkt) \in Seq(Segment)
  BY <1>1, ConcatProperties
<1> QED
  BY <1>2 DEF Put, Wire

LEMMA DropType ==
  ASSUME NEW ch \in Wire, NEW w \in Workers, NEW k \in Nat
  PROVE  Drop(ch, w, k) \in Wire
<1>1. ch[w] \in Seq(Segment) /\ Len(ch[w]) \in Nat
  BY DEF Wire
<1>2. \A i \in k + 1 .. Len(ch[w]) : ch[w][i] \in Segment
  BY <1>1, ElementOfSeq
<1>3. SubSeq(ch[w], k + 1, Len(ch[w])) \in Seq(Segment)
  BY <1>1, <1>2, SubSeqProperties
<1> QED
  BY <1>3 DEF Drop, Wire

LEMMA LeastOf ==
  ASSUME NEW T \in SUBSET Nat, T # {}
  PROVE  \E i \in T : \A j \in T : i <= j
<1> DEFINE R == {ss \in Nat \X Nat : ss[1] < ss[2]}
<1>1. IsWellFoundedOn(R, Nat)
  BY NatLessThanWellFounded DEF OpToRel
<1>2. \A i, j \in Nat : <<j, i>> \notin R => i <= j
  OBVIOUS
<1> HIDE DEF R
<1>3. PICK i \in T : \A j \in T : <<j, i>> \notin R
  BY <1>1, WFMin
<1> QED
  BY <1>2, <1>3

(* What a worker that can read a packet finds: a header, if it asked for a
   payload also a body, and something to take off the wire.                   *)
LEMMA GotType ==
  ASSUME NEW w \in Workers, chan \in Wire
  PROVE  /\ Needed(w) \in Nat \ {0}
         /\ Readable(w) => Got(w) \in UnitType
         /\ Readable(w) /\ UnitsOf(w) = 2 => GotBody(w) \in UnitType
<1>1. /\ chan[w] \in Seq(Segment) /\ Len(chan[w]) \in Nat
      /\ DOMAIN chan[w] = 1 .. Len(chan[w])
  BY LenProperties DEF Wire
<1>2. \A i \in 1 .. Len(chan[w]) :
        /\ chan[w][i] \in Seq(UnitType) /\ Len(chan[w][i]) \in {1, 2}
        /\ chan[w][i][1] \in UnitType
        /\ Len(chan[w][i]) = 2 => chan[w][i][2] \in UnitType
  <2> SUFFICES ASSUME NEW i \in 1 .. Len(chan[w])
               PROVE  /\ chan[w][i] \in Seq(UnitType) /\ Len(chan[w][i]) \in {1, 2}
                      /\ chan[w][i][1] \in UnitType
                      /\ Len(chan[w][i]) = 2 => chan[w][i][2] \in UnitType
    OBVIOUS
  <2>1. chan[w][i] \in Segment
    BY <1>1, ElementOfSeq
  <2> QED
    BY <2>1, ElementOfSeq DEF Segment
<1> DEFINE long == {i \in DOMAIN chan[w] : Len(chan[w][i]) = 2}
<1>3. UnitsOf(w) \in {1, 2}
  BY DEF UnitsOf
<1>4. CASE Udp /\ UnitsOf(w) = 2
  <2>1. CASE long = {}
    <3>1. Needed(w) = Len(chan[w]) + 1
      BY <1>4, <2>1 DEF Needed
    <3> QED
      BY <1>1, <3>1 DEF Readable
  <2>2. CASE long # {}
    <3>1. long \subseteq 1 .. Len(chan[w]) /\ long \in SUBSET Nat
      BY <1>1
    <3>2. \E i \in long : \A j \in long : i <= j
      BY <2>2, <3>1, LeastOf
    <3>3. Needed(w) = CHOOSE i \in long : \A j \in long : i <= j
      BY <1>4, <2>2 DEF Needed
    <3>4. Needed(w) \in long
      BY <3>2, <3>3
    <3>5. Needed(w) \in 1 .. Len(chan[w]) /\ Len(chan[w][Needed(w)]) = 2
      BY <3>1, <3>4
    <3>6. Got(w) \in UnitType
      BY <1>1, <1>2, <3>5 DEF Got
    <3>7. GotBody(w) \in UnitType
      <4>1. CASE Len(chan[w][1]) = 2
        BY <1>1, <1>2, <3>5, <4>1 DEF GotBody
      <4>2. CASE Len(chan[w][1]) # 2
        <5>1. 2 \in 1 .. Len(chan[w])
          BY <1>1, <3>5, <4>2
        <5> QED
          BY <1>2, <4>2, <5>1 DEF GotBody
      <4> QED
        BY <4>1, <4>2
    <3> QED
      BY <1>1, <3>5, <3>6, <3>7
  <2> QED
    BY <2>1, <2>2
<1>5. CASE ~(Udp /\ UnitsOf(w) = 2)
  <2>1. Needed(w) = UnitsOf(w)
    BY <1>5 DEF Needed
  <2>2. Readable(w) => 1 \in 1 .. Len(chan[w])
    BY <1>1, <1>3, <2>1 DEF Readable
  <2>3. Readable(w) /\ UnitsOf(w) = 2 => 2 \in 1 .. Len(chan[w])
    BY <1>1, <1>3, <2>1 DEF Readable
  <2>4. Readable(w) => Got(w) \in UnitType
    BY <1>2, <2>2 DEF Got
  <2>5. Readable(w) /\ UnitsOf(w) = 2 => GotBody(w) \in UnitType
    BY <1>2, <2>2, <2>3 DEF GotBody
  <2> QED
    BY <1>3, <2>1, <2>4, <2>5
<1> QED
  BY <1>4, <1>5

-----------------------------------------------------------------------------
(* The steps. *)

LEMMA WireIsTyped ==
  chan \in Wire => chan \in [Workers -> Seq(Seq(UnitType))]
<1>1. Segment \subseteq Seq(UnitType)
  BY DEF Segment
<1>2. \A q \in Seq(Segment) : q \in Seq(Seq(UnitType))
  BY <1>1, SeqMonotonic
<1> QED
  BY <1>2 DEF Wire

LEMMA DirType ==
  ASSUME NEW w
  PROVE  Dir(w) \in Dirs
BY DEF Dir, Dirs

(* A field of a report, and a mark, are replaced. *)
LEMMA ReportUpdated ==
  ASSUME NEW w \in Workers, NEW d \in Dirs, NEW n \in Nat,
         report \in [Workers -> [Dirs -> ReportType]]
  PROVE  /\ [report EXCEPT ![w][d].count = n] \in [Workers -> [Dirs -> ReportType]]
         /\ [report EXCEPT ![w][d].recv = n] \in [Workers -> [Dirs -> ReportType]]
<1>1. report[w] \in [Dirs -> ReportType] /\ report[w][d] \in ReportType
  OBVIOUS
<1>2. /\ [report[w][d] EXCEPT !.count = n] \in ReportType
      /\ [report[w][d] EXCEPT !.recv = n] \in ReportType
  BY <1>1 DEF ReportType
<1>3. /\ [report[w] EXCEPT ![d].count = n] \in [Dirs -> ReportType]
      /\ [report[w] EXCEPT ![d].recv = n] \in [Dirs -> ReportType]
  BY <1>1, <1>2
<1> QED
  BY <1>3

LEMMA MarkUpdated ==
  ASSUME NEW s \in Sides, NEW d \in Dirs, imWeak \in [Sides -> [Dirs -> Nat]]
  PROVE  [imWeak EXCEPT ![s][d] = @ + 1] \in [Sides -> [Dirs -> Nat]]
<1>1. imWeak[s] \in [Dirs -> Nat] /\ imWeak[s][d] \in Nat
  OBVIOUS
<1>2. [imWeak[s] EXCEPT ![d] = @ + 1] \in [Dirs -> Nat]
  BY <1>1
<1> QED
  BY <1>2

(* The end of a talk. *)
LEMMA EndTalkType ==
  ASSUME NEW w \in Workers, CoreType, EndTalk(w),
         UNCHANGED <<alive, report, weak, imWeak, cnt>>,
         timeouts' \in Nat, losses' \in Nat
  PROVE  CoreType'
<1>1. Phases \in {1, 2} /\ loc[w] \in LocalType
  BY DEF CoreType, Phases
<1>2. pc' \in [Workers -> LabelSet]
  BY DEF EndTalk, Goto, CoreType, LabelSet, HandshakeLabels
<1>3. loc' \in [Workers -> LocalType]
  <2>1. CASE loc[w].phase < Phases
    <3>1. loc[w].phase + 1 \in 1 .. Phases
      BY <1>1, <2>1 DEF LocalType
    <3> DEFINE next == [loc[w] EXCEPT !.phase = @ + 1, !.i = 0, !.round = 0]
    <3>2. next \in LocalType
      BY <1>1, <3>1 DEF LocalType
    <3>3. loc' = [loc EXCEPT ![w] = next]
      BY <2>1 DEF EndTalk, CoreType
    <3> QED
      BY <3>2, <3>3 DEF CoreType
  <2>2. CASE ~(loc[w].phase < Phases)
    BY <2>2 DEF EndTalk, CoreType
  <2> QED
    BY <2>1, <2>2
<1> QED
  BY <1>2, <1>3 DEF CoreType

(* A process that fails. *)
LEMMA ExitType ==
  ASSUME NEW w \in Workers, CoreType, alive' = [alive EXCEPT ![w[1]] = "failed"],
         UNCHANGED <<pc, loc, report, weak, imWeak, cnt>>,
         timeouts' \in Nat, losses' \in Nat
  PROVE  CoreType'
BY DEF CoreType

LEMMA FailType ==
  ASSUME NEW w \in Workers, TypeInv, NEW k \in Nat,
         Fail(w, Drop(chan, w, k)) \/ Fail(w, chan)
  PROVE  TypeInv'
<1>1. Packet(w, "FAIL", 0, NoReport) \in Segment
  BY PacketType, NoReportType DEF Ops
<1>2. Drop(chan, w, k) \in Wire /\ chan \in Wire
  BY DropType DEF TypeInv
<1>3. chan' \in Wire
  BY <1>1, <1>2, PutType DEF Fail
<1>4. CoreType'
  BY ExitType DEF Fail, Exit, TypeInv, CoreType, shared, faults
<1> QED
  BY <1>3, <1>4 DEF TypeInv

(* A worker that sends a packet of its own. *)
LEMMA SendType ==
  ASSUME NEW w \in Workers, chan \in Wire, NEW op \in Ops, NEW n \in Nat,
         NEW r \in ReportType, Send(w, op, n, r)
  PROVE  chan' \in Wire
BY PacketType, PutType DEF Send

LEMMA ConsumeType ==
  ASSUME NEW w \in Workers, chan \in Wire, Consume(w)
  PROVE  chan' \in Wire
BY GotType, DropType DEF Consume

LEMMA HandshakeStepType ==
  ASSUME TypeInv, NEW w \in Workers,
         TalkInit(w) \/ SendPing(w) \/ RecvPong(w) \/ Handshake(w) \/ SetCount(w)
  PROVE  TypeInv'
<1> USE DEF TypeInv
<1>0. Needed(w) \in Nat
  BY GotType
<1>1. CASE TalkInit(w)
  BY <1>1 DEF TalkInit, Goto, CoreType, LabelSet, HandshakeLabels, Dirs, faults
<1>2. CASE SendPing(w)
  <2>1. chan' \in Wire
    BY <1>2, TalkAssumption, SendType, NoReportType DEF SendPing, Ops
  <2> QED
    BY <1>2, <2>1 DEF SendPing, Goto, CoreType, LabelSet, HandshakeLabels, shared, faults
<1>3. CASE RecvPong(w)
  <2>1. CASE FailReceived(w)
    BY <1>0, <2>1, FailType DEF FailReceived
  <2>2. CASE ~FailReceived(w)
    <3>1. chan' \in Wire
      BY <1>3, <2>2, ConsumeType DEF RecvPong
    <3>2. loc' \in [Workers -> LocalType]
      <4> DEFINE k == IF loc[w].i + 1 < HandshakeIter THEN loc[w].i + 1 ELSE 0
      <4>1. k \in Nat
        BY TalkAssumption DEF CoreType, LocalType
      <4>2. loc' = [loc EXCEPT ![w].i = k]
        BY <1>3, <2>2 DEF RecvPong
      <4> HIDE DEF k
      <4> QED
        BY <4>1, <4>2 DEF CoreType, LocalType
    <3>3. pc' \in [Workers -> LabelSet]
      BY <1>3, <2>2 DEF RecvPong, Goto, CoreType, LabelSet, HandshakeLabels, DirLabels
    <3>4. UNCHANGED <<alive, report, weak, imWeak, cnt, timeouts, losses>>
      BY <1>3, <2>2 DEF RecvPong, shared, faults
    <3> QED
      BY <3>1, <3>2, <3>3, <3>4 DEF CoreType
  <2> QED
    BY <2>1, <2>2
<1>4. CASE Handshake(w)
  <2>1. CASE FailReceived(w)
    BY <1>0, <2>1, FailType DEF FailReceived
  <2>2. CASE ~FailReceived(w)
    <3>1. Packet(w, "PONG", HandshakeIter, NoReport) \in Segment
      BY TalkAssumption, PacketType, NoReportType DEF Ops
    <3>2. Drop(chan, w, Needed(w)) \in Wire
      BY <1>0, DropType
    <3>3. chan' \in Wire
      BY <1>4, <2>2, <3>1, <3>2, PutType DEF Handshake
    <3>4. loc' \in [Workers -> LocalType]
      <4> DEFINE k == IF loc[w].i + 1 < HandshakeIter THEN loc[w].i + 1 ELSE 0
      <4>1. k \in Nat
        BY TalkAssumption DEF CoreType, LocalType
      <4>2. loc' = [loc EXCEPT ![w].i = k]
        BY <1>4, <2>2 DEF Handshake
      <4> HIDE DEF k
      <4> QED
        BY <4>1, <4>2 DEF CoreType, LocalType
    <3>5. pc' \in [Workers -> LabelSet]
      BY <1>4, <2>2 DEF Handshake, Goto, CoreType, LabelSet, HandshakeLabels
    <3>6. UNCHANGED <<alive, report, weak, imWeak, cnt, timeouts, losses>>
      BY <1>4, <2>2 DEF Handshake, shared, faults
    <3> QED
      BY <3>3, <3>4, <3>5, <3>6 DEF CoreType
  <2> QED
    BY <2>1, <2>2
<1>5. CASE SetCount(w)
  BY <1>5, TalkAssumption, DirType DEF SetCount, Goto, CoreType, LabelSet, HandshakeLabels, faults
<1> QED
  BY <1>1, <1>2, <1>3, <1>4, <1>5

LEMMA RoundStepType ==
  ASSUME TypeInv, NEW w \in Workers,
         \/ SenderNegotiate(w) \/ ReceiverNegotiate(w) \/ SendStart(w) \/ RecvStart(w)
         \/ Reset(w)
  PROVE  TypeInv'
<1> USE DEF TypeInv
<1>0. /\ Needed(w) \in Nat /\ Dir(w) \in Dirs /\ w[1] \in Sides
      /\ loc[w] \in LocalType /\ cnt[w[1]][Dir(w)] \in Nat
  BY GotType, DirType, PeerType DEF CoreType
<1>1. ASSUME NEW c \in Nat,
             loc' = [loc EXCEPT ![w].n = c, ![w].round = @ + 1],
             report' = [report EXCEPT ![w][Dir(w)].count = c],
             Goto(w, "start"), UNCHANGED <<alive, shared, faults>>
      PROVE  CoreType'
  <2>1. loc' \in [Workers -> LocalType]
    BY <1>1 DEF CoreType, LocalType
  <2>2. report' \in [Workers -> [Dirs -> ReportType]]
    BY <1>0, <1>1, ReportUpdated DEF CoreType
  <2>3. pc' \in [Workers -> LabelSet]
    BY <1>1 DEF Goto, CoreType, LabelSet
  <2> QED
    BY <1>1, <2>1, <2>2, <2>3 DEF CoreType, shared, faults
<1>2. CASE SenderNegotiate(w)
  <2>1. CASE ~CountAsserted(w)
    BY <1>2, <2>1, ExitType DEF SenderNegotiate, Exit, CoreType, shared, faults
  <2>2. CASE CountAsserted(w)
    <3>1. chan' \in Wire
      BY <1>0, <1>2, <2>2, SendType, NoReportType DEF SenderNegotiate, Ops
    <3> QED
      BY <1>0, <1>1, <1>2, <2>2, <3>1 DEF SenderNegotiate
  <2> QED
    BY <2>1, <2>2
<1>3. CASE ReceiverNegotiate(w)
  <2>1. CASE FailReceived(w)
    BY <1>0, <2>1, FailType DEF FailReceived
  <2>2. CASE ~FailReceived(w)
    <3>1. chan' \in Wire
      BY <1>3, <2>2, ConsumeType DEF ReceiverNegotiate
    <3>2. Got(w).n \in Nat
      BY <1>3, GotType DEF ReceiverNegotiate, UnitType
    <3> QED
      BY <1>1, <1>3, <2>2, <3>1, <3>2 DEF ReceiverNegotiate
  <2> QED
    BY <2>1, <2>2
<1>4. ASSUME Goto(w, "b_reset"), UNCHANGED <<alive, loc, report, shared, faults>>
      PROVE  CoreType'
  BY <1>4 DEF Goto, CoreType, LabelSet, GlobalLabels, shared, faults
<1>5. CASE SendStart(w)
  <2>1. loc[w].n \in Nat
    BY <1>0 DEF LocalType
  <2>2. chan' \in Wire
    BY <1>5, <2>1, SendType, NoReportType DEF SendStart, Ops
  <2> QED
    BY <1>4, <1>5, <2>2 DEF SendStart
<1>6. CASE RecvStart(w)
  <2>1. CASE FailReceived(w)
    BY <1>0, <2>1, FailType DEF FailReceived
  <2>2. CASE ~FailReceived(w)
    <3>1. chan' \in Wire
      BY <1>6, <2>2, ConsumeType DEF RecvStart
    <3> QED
      BY <1>4, <1>6, <2>2, <3>1 DEF RecvStart
  <2> QED
    BY <2>1, <2>2
<1>7. CASE Reset(w)
  BY <1>0, <1>7 DEF Reset, Goto, CoreType, LabelSet, GlobalLabels, faults
<1> QED
  BY <1>2, <1>3, <1>5, <1>6, <1>7

LEMMA StreamStepType ==
  ASSUME TypeInv, NEW w \in Workers,
         SendRun(w) \/ RecvRun(w) \/ SendEnd(w) \/ RecvEnd(w) \/ Mark(w)
  PROVE  TypeInv'
<1> USE DEF TypeInv
<1>0. /\ Needed(w) \in Nat /\ Dir(w) \in Dirs /\ w[1] \in Sides
      /\ loc[w] \in LocalType /\ loc[w].i \in Nat /\ loc[w].i + 1 \in Nat
  BY GotType, DirType, PeerType DEF CoreType, LocalType
<1>1. ASSUME loc' = [loc EXCEPT ![w].i = @ + 1], UNCHANGED <<alive, pc, report, shared, faults>>
      PROVE  CoreType'
  BY <1>0, <1>1 DEF CoreType, LocalType, shared, faults
<1>2. ASSUME Goto(w, "b_end"), UNCHANGED <<alive, loc, report, shared, faults>>
      PROVE  CoreType'
  BY <1>2 DEF Goto, CoreType, LabelSet, DirLabels, shared, faults
<1>3. CASE SendRun(w)
  <2>1. CASE loc[w].i < loc[w].n
    <3>1. chan' \in Wire
      BY <1>0, <1>3, <2>1, SendType, NoReportType DEF SendRun, Ops
    <3> QED
      BY <1>1, <1>3, <2>1, <3>1 DEF SendRun
  <2>2. CASE ~(loc[w].i < loc[w].n)
    BY <1>2, <1>3, <2>2 DEF SendRun
  <2> QED
    BY <2>1, <2>2
<1>4. CASE RecvRun(w)
  <2>1. CASE Consume(w) /\ Exit(w)
    BY <2>1, ConsumeType, ExitType DEF Exit, CoreType, shared, faults
  <2>2. CASE /\ Consume(w)
             /\ loc' = [loc EXCEPT ![w].i = @ + 1]
             /\ UNCHANGED <<alive, pc, report, shared, faults>>
    BY <1>1, <2>2, ConsumeType
  <2>3. CASE Goto(w, "b_end") /\ UNCHANGED <<alive, loc, report, shared, chan, faults>>
    BY <1>2, <2>3
  <2> QED
    BY <1>4, <2>1, <2>2, <2>3 DEF RecvRun
<1>5. ASSUME NEW wk \in BOOLEAN, loc' = [loc EXCEPT ![w].weak = wk, ![w].i = 0],
             Goto(w, "b_mark"), report' \in [Workers -> [Dirs -> ReportType]],
             UNCHANGED <<alive, shared, faults>>
      PROVE  CoreType'
  <2>1. loc' \in [Workers -> LocalType]
    BY <1>5 DEF CoreType, LocalType
  <2>2. pc' \in [Workers -> LabelSet]
    BY <1>5 DEF Goto, CoreType, LabelSet, GlobalLabels
  <2> QED
    BY <1>5, <2>1, <2>2 DEF CoreType, shared, faults
<1>6. CASE SendEnd(w)
  <2>1. PICK wk \in BOOLEAN :
          /\ Send(w, IF wk THEN "ENDWEAK" ELSE "END", 0, NoReport)
          /\ loc' = [loc EXCEPT ![w].weak = wk, ![w].i = 0]
    BY <1>6 DEF SendEnd
  <2>2. (IF wk THEN "ENDWEAK" ELSE "END") \in Ops
    BY DEF Ops
  <2>3. chan' \in Wire
    BY <2>1, <2>2, SendType, NoReportType
  <2>4. report' \in [Workers -> [Dirs -> ReportType]]
    BY <1>0, <1>6, ReportUpdated DEF SendEnd, CoreType
  <2> QED
    BY <1>5, <1>6, <2>1, <2>3, <2>4 DEF SendEnd
<1>7. CASE RecvEnd(w)
  <2>1. CASE FailReceived(w)
    BY <1>0, <2>1, FailType DEF FailReceived
  <2>2. CASE ~FailReceived(w)
    <3>1. chan' \in Wire
      BY <1>7, <2>2, ConsumeType DEF RecvEnd
    <3>2. (Got(w).op = "ENDWEAK") \in BOOLEAN
      OBVIOUS
    <3>3. UNCHANGED <<alive, report, shared, faults>> /\ Goto(w, "b_mark")
      BY <1>7, <2>2 DEF RecvEnd
    <3> QED
      BY <1>5, <1>7, <2>2, <3>1, <3>2, <3>3 DEF RecvEnd, CoreType
  <2> QED
    BY <2>1, <2>2
<1>8. CASE Mark(w)
  <2>1. pc' \in [Workers -> LabelSet]
    BY <1>8 DEF Mark, Goto, CoreType, LabelSet, GlobalLabels
  <2>2. weak' \in [Sides -> Nat]
    BY <1>0, <1>8 DEF Mark, CoreType
  <2>3. imWeak' \in [Sides -> [Dirs -> Nat]]
    <3>1. \/ imWeak' = [imWeak EXCEPT ![w[1]][Dir(w)] = @ + 1]
          \/ imWeak' = imWeak
      BY <1>8 DEF Mark
    <3>2. imWeak \in [Sides -> [Dirs -> Nat]]
      BY DEF CoreType
    <3> QED
      BY <1>0, <3>1, <3>2, MarkUpdated
  <2> QED
    BY <1>8, <2>1, <2>2, <2>3 DEF Mark, CoreType, faults
<1> QED
  BY <1>3, <1>4, <1>6, <1>7, <1>8

LEMMA CountUpdated ==
  ASSUME NEW s \in Sides, NEW d \in Dirs, NEW m \in Nat, cnt \in [Sides -> [Dirs -> Nat]]
  PROVE  [cnt EXCEPT ![s][d] = @ * m] \in [Sides -> [Dirs -> Nat]]
<1>1. cnt[s] \in [Dirs -> Nat] /\ cnt[s][d] \in Nat /\ cnt[s][d] * m \in Nat
  OBVIOUS
<1>2. [cnt[s] EXCEPT ![d] = @ * m] \in [Dirs -> Nat]
  BY <1>1
<1> QED
  BY <1>2

LEMMA JudgeStepType ==
  ASSUME TypeInv, NEW w \in Workers, Return(w) \/ Decide(w) \/ Recount(w)
  PROVE  TypeInv'
<1> USE DEF TypeInv
<1>0. Dir(w) \in Dirs /\ w[1] \in Sides
  BY DirType, PeerType
<1>1. ASSUME NEW l \in LabelSet, Goto(w, l)
      PROVE  pc' \in [Workers -> LabelSet]
  BY <1>1 DEF Goto, CoreType
<1>2. CASE Return(w)
  <2>1. (IF weak[w[1]] > 0 THEN "decide" ELSE "report") \in LabelSet
    BY DEF LabelSet
  <2>2. pc' \in [Workers -> LabelSet]
    BY <1>1, <1>2, <2>1 DEF Return
  <2> QED
    BY <1>2, <2>2 DEF Return, CoreType, shared, faults
<1>3. CASE Decide(w)
  <2>1. (IF ~NeedsRestart(w) THEN "report"
         ELSE IF Sender(w) THEN "b_re1" ELSE "neg") \in LabelSet
    BY DEF LabelSet, DirLabels
  <2>2. pc' \in [Workers -> LabelSet]
    BY <1>1, <1>3, <2>1 DEF Decide
  <2> QED
    BY <1>3, <2>2 DEF Decide, CoreType, shared, faults
<1>4. CASE Recount(w)
  <2>1. "b_re2" \in LabelSet
    BY DEF LabelSet, DirLabels
  <2>2. pc' \in [Workers -> LabelSet]
    BY <1>1, <1>4, <2>1 DEF Recount
  <2>3. cnt' \in [Sides -> [Dirs -> Nat]]
    <3>1. cnt' = cnt \/ \E m \in Nat : cnt' = [cnt EXCEPT ![w[1]][Dir(w)] = @ * m]
      <4>1. cnt' = cnt \/ \E m \in Muls : cnt' = [cnt EXCEPT ![w[1]][Dir(w)] = @ * m]
        BY <1>4 DEF Recount
      <4>2. Muls \subseteq Nat
        BY TalkAssumption
      <4> QED
        BY <4>1, <4>2
    <3>2. cnt \in [Sides -> [Dirs -> Nat]]
      BY DEF CoreType
    <3>3. \A m \in Nat : [cnt EXCEPT ![w[1]][Dir(w)] = @ * m] \in [Sides -> [Dirs -> Nat]]
      BY <1>0, <3>2, CountUpdated
    <3> QED
      BY <3>1, <3>2, <3>3
  <2> QED
    BY <1>4, <2>2, <2>3 DEF Recount, CoreType, faults
<1> QED
  BY <1>2, <1>3, <1>4

LEMMA ReportStepType ==
  ASSUME TypeInv, NEW w \in Workers,
         \/ SendReport(w) \/ RecvReport(w) \/ SendFinish(w) \/ RecvFinish(w)
         \/ RecvReset(w)
  PROVE  TypeInv'
<1> USE DEF TypeInv
<1>0. Needed(w) \in Nat /\ Dir(w) \in Dirs /\ w[1] \in Sides
  BY GotType, DirType, PeerType
<1>1. ASSUME Goto(w, "finish"), report' \in [Workers -> [Dirs -> ReportType]],
             UNCHANGED <<alive, loc, shared, faults>>
      PROVE  CoreType'
  <2>1. pc' \in [Workers -> LabelSet]
    BY <1>1 DEF Goto, CoreType, LabelSet
  <2> QED
    BY <1>1, <2>1 DEF CoreType, shared, faults
<1>2. CASE SendReport(w)
  <2>1. report[w][Dir(w)] \in ReportType
    BY <1>0 DEF CoreType
  <2>2. chan' \in Wire
    BY <1>2, <2>1, SendType DEF SendReport, Ops
  <2> QED
    BY <1>1, <1>2, <2>2 DEF SendReport, CoreType
<1>3. CASE RecvReport(w)
  <2>1. CASE FailReceived(w)
    BY <1>0, <2>1, FailType DEF FailReceived
  <2>2. CASE ~FailReceived(w)
    <3>1. chan' \in Wire
      BY <1>3, <2>2, ConsumeType DEF RecvReport
    <3>2. UnitsOf(w) = 2 /\ Readable(w)
      BY <1>3 DEF RecvReport, At, UnitsOf, HandshakeLabels
    <3>3. GotBody(w).report \in ReportType
      BY <3>2, GotType DEF UnitType
    <3>4. report' = [report EXCEPT ![w][Dir(w)] = GotBody(w).report]
      BY <1>3, <2>2 DEF RecvReport
    <3>5. report' \in [Workers -> [Dirs -> ReportType]]
      BY <1>0, <3>3, <3>4 DEF CoreType
    <3> QED
      BY <1>1, <1>3, <2>2, <3>1, <3>5 DEF RecvReport
  <2> QED
    BY <2>1, <2>2
<1>4. CASE SendFinish(w)
  <2>1. chan' \in Wire
    BY <1>4, SendType, NoReportType DEF SendFinish, Ops
  <2> QED
    BY <1>4, <2>1, EndTalkType DEF SendFinish, CoreType, shared, faults
<1>5. CASE RecvFinish(w)
  <2>1. chan' \in Wire
    BY <1>5, ConsumeType DEF RecvFinish
  <2> QED
    BY <1>5, <2>1, EndTalkType DEF RecvFinish, CoreType, shared, faults
<1>6. CASE RecvReset(w)
  <2>1. CASE Exit(w) /\ UNCHANGED chan
    BY <2>1, ExitType DEF Exit, CoreType, shared, faults
  <2>2. CASE EndTalk(w) /\ UNCHANGED <<alive, report, shared, chan, faults>>
    BY <2>2, EndTalkType DEF CoreType, shared, faults
  <2>3. CASE Fail(w, chan)
    BY <1>0, <2>3, FailType
  <2> QED
    BY <1>6, <2>1, <2>2, <2>3 DEF RecvReset
<1> QED
  BY <1>2, <1>3, <1>4, <1>5, <1>6

LEMMA BarrierStepType ==
  ASSUME TypeInv, NEW s \in Sides, NEW b \in 0 .. 2, BarrierWait(s, b)
  PROVE  TypeInv'
<1>1. PICK serial \in WaitingAt(s, b) :
        pc' = [w \in Workers |-> IF w \in WaitingAt(s, b)
                                 THEN AfterBarrier(w, w = serial) ELSE pc[w]]
  BY DEF BarrierWait
<1>2. \A w \in WaitingAt(s, b) : AfterBarrier(w, w = serial) \in LabelSet
  BY DEF WaitingAt, AfterBarrier, LabelSet, GlobalLabels, DirLabels, HandshakeLabels
<1>3. pc' \in [Workers -> LabelSet]
  BY <1>1, <1>2 DEF TypeInv, CoreType
<1> QED
  BY <1>3 DEF TypeInv, CoreType, BarrierWait, shared, faults

LEMMA EnvironmentType ==
  ASSUME TypeInv, NEW w \in Workers,
         RecvTimeout(w) \/ SendReset(w) \/ Spin(w) \/ Lose(w) \/ Duplicate(w)
  PROVE  TypeInv'
<1> USE DEF TypeInv
<1>1. CASE RecvTimeout(w)
  <2>1. timeouts' \in Nat /\ losses' \in Nat
    BY <1>1 DEF RecvTimeout, CoreType
  <2>2. PICK k \in 0 .. Needed(w) - 1 :
          \/ /\ chan' = Drop(chan, w, k) /\ Goto(w, "b_end")
             /\ UNCHANGED <<alive, loc, report, shared>>
          \/ /\ chan' = Drop(chan, w, k) /\ EndTalk(w)
             /\ UNCHANGED <<alive, report, shared>>
          \/ /\ chan' = Put(Drop(chan, w, k), w, Packet(w, "FAIL", 0, NoReport))
             /\ alive' = [alive EXCEPT ![w[1]] = "failed"]
             /\ UNCHANGED <<pc, loc, report, shared>>
    BY <1>1 DEF RecvTimeout
  <2>3. Drop(chan, w, k) \in Wire
    BY GotType, DropType
  <2>4. Packet(w, "FAIL", 0, NoReport) \in Segment
    BY PacketType, NoReportType DEF Ops
  <2>5. chan' \in Wire
    BY <2>2, <2>3, <2>4, PutType
  <2>6. CASE Goto(w, "b_end") /\ UNCHANGED <<alive, loc, report, shared>>
    BY <2>1, <2>5, <2>6 DEF Goto, CoreType, LabelSet, DirLabels, shared
  <2>7. CASE EndTalk(w) /\ UNCHANGED <<alive, report, shared>>
    BY <2>1, <2>5, <2>7, EndTalkType DEF shared
  <2>8. CASE alive' = [alive EXCEPT ![w[1]] = "failed"] /\ UNCHANGED <<pc, loc, report, shared>>
    BY <2>1, <2>5, <2>8, ExitType DEF shared
  <2> QED
    BY <2>2, <2>6, <2>7, <2>8
<1>2. CASE SendReset(w)
  BY <1>2, ExitType DEF SendReset, Exit, CoreType, shared, faults
<1>3. CASE Spin(w)
  BY <1>3 DEF Spin, CoreType, vars, shared, faults
<1>4. chan[w] \in Seq(Segment) /\ DOMAIN chan[w] = 1 .. Len(chan[w]) /\ Len(chan[w]) \in Nat
  BY LenProperties DEF Wire
<1>5. CASE Lose(w)
  <2>1. PICK i \in 1 .. Len(chan[w]) :
          chan' = [chan EXCEPT ![w] = SubSeq(@, 1, i - 1) \o SubSeq(@, i + 1, Len(@))]
    BY <1>4, <1>5 DEF Lose
  <2>2. \A j \in 1 .. Len(chan[w]) : chan[w][j] \in Segment
    BY <1>4, ElementOfSeq
  <2>3. SubSeq(chan[w], 1, i - 1) \in Seq(Segment)
    <3>1. \A j \in 1 .. i - 1 : chan[w][j] \in Segment
      BY <1>4, <2>2
    <3> QED
      BY <3>1, SubSeqProperties
  <2>4. SubSeq(chan[w], i + 1, Len(chan[w])) \in Seq(Segment)
    <3>1. \A j \in i + 1 .. Len(chan[w]) : chan[w][j] \in Segment
      BY <1>4, <2>2
    <3> QED
      BY <1>4, <3>1, SubSeqProperties
  <2>5. chan' \in Wire
    BY <2>1, <2>3, <2>4, ConcatProperties DEF Wire
  <2> QED
    BY <1>5, <2>5 DEF Lose, CoreType, shared
<1>6. CASE Duplicate(w)
  <2>1. PICK i \in 1 .. Len(chan[w]) : chan' = [chan EXCEPT ![w] = Append(@, @[i])]
    BY <1>4, <1>6 DEF Duplicate
  <2>2. chan[w][i] \in Segment
    BY <1>4, ElementOfSeq
  <2>3. Append(chan[w], chan[w][i]) \in Seq(Segment)
    BY <1>4, <2>2
  <2>4. chan' \in Wire
    BY <2>1, <2>3 DEF Wire
  <2> QED
    BY <1>6, <2>4 DEF Duplicate, CoreType, shared
<1> QED
  BY <1>1, <1>2, <1>3, <1>5, <1>6

LEMMA TypeStep == TypeInv /\ [Next]_vars => TypeInv'
<1> SUFFICES ASSUME TypeInv, [Next]_vars
             PROVE  TypeInv'
  OBVIOUS
<1>1. ASSUME NEW w \in Workers, Step(w)
      PROVE  TypeInv'
  BY <1>1, HandshakeStepType, RoundStepType, StreamStepType, JudgeStepType,
     ReportStepType DEF Step
<1>2. ASSUME NEW s \in Sides, Complete(s) \/ Crash(s)
      PROVE  TypeInv'
  BY <1>2 DEF Complete, Crash, TypeInv, CoreType, shared, faults
<1>3. CASE Progress
  BY <1>1, <1>2, <1>3, BarrierStepType DEF Progress
<1>4. CASE Environment
  BY <1>2, <1>4, EnvironmentType DEF Environment
<1>5. CASE Ended \/ UNCHANGED vars
  BY <1>5 DEF Ended, TypeInv, CoreType, vars, shared, faults
<1> QED
  BY <1>3, <1>4, <1>5 DEF Next

LEMMA TypeInit == Init => TypeInv
<1> SUFFICES ASSUME Init
             PROVE  TypeInv
  OBVIOUS
<1>1. <<>> \in Seq(Segment)
  OBVIOUS
<1>2. [phase |-> 1, i |-> 0, n |-> 0, weak |-> FALSE, round |-> 0] \in LocalType
  BY DEF LocalType, Phases
<1>3. [d \in Dirs |-> NoReport] \in [Dirs -> ReportType]
  BY NoReportType
<1> QED
  BY <1>1, <1>2, <1>3 DEF Init, TypeInv, CoreType, Wire, LabelSet

(* The variables of talk.c, process.c and net.c that the model keeps have their
   types in every reachable state: in particular a count that is received is a
   number, a report that is taken over is a report, and no worker is anywhere
   but at a label of the model.                                               *)
THEOREM TypeCorrect == Spec => []TypeOK
<1>1. TypeInv => TypeOK
  BY WireIsTyped DEF TypeInv, CoreType, TypeOK
<1> QED
  BY <1>1, TypeInit, TypeStep, PTL DEF Spec
=============================================================================
