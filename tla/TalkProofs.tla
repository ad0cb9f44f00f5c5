---------------------------- MODULE TalkProofs ----------------------------
(* For any number of connections, in every kind of test, over TCP or UDP and
   whatever is lost, times out or crashes: the marks of the weak streams are
   clear while the packets flow, and complete when they are read, although they
   are shared by all the workers of a process and read without a lock.        *)
EXTENDS TalkTypes, FiniteSetTheorems

-----------------------------------------------------------------------------
(* The inductive invariant.  Between two barriers a worker is in a section of the
   talk; the barriers of the program keep the workers of a side together.     *)

SenderLabels == {"ping", "pong", "b_count1", "setcount", "b_count2",
                 "b_re1", "recount", "b_re2"}

(* Which labels a worker can be at. *)
InvRole == \A w \in Workers :
             /\ pc[w] \in SenderLabels => Sender(w)
             /\ pc[w] = "hs" => ~Sender(w)
             /\ pc[w] = "b_end2" => Async
             /\ pc[w] = "init" => loc[w].phase = 1

(* The section of w.  A worker that waits for the next talk belongs to the last
   section of the previous one, in which it had the other role.  A receiver
   meets nobody between the end of a stream and the start of the next.        *)
Section(w) ==
  IF pc[w] = "init" THEN "open"
  ELSE IF pc[w] = "b_init" THEN IF loc[w].phase = 1 THEN "open"
                                ELSE IF Sender(w) THEN "follow" ELSE "judge"
  ELSE IF pc[w] \in {"reset", "b_start"} THEN "clear"
  ELSE IF pc[w] \in {"run", "b_end"} THEN "stream"
  ELSE IF pc[w] = "b_end2" THEN "drain"
  ELSE IF pc[w] \in {"end", "b_mark"} THEN "stop"
  ELSE IF pc[w] \in {"mark", "b_ret"} THEN "mark"
  ELSE IF ~Sender(w) THEN "follow"
  ELSE IF pc[w] \in {"ping", "pong", "b_count1"} THEN "greet"
  ELSE IF pc[w] \in {"setcount", "b_count2"} THEN "first"
  ELSE IF pc[w] \in {"neg", "start", "b_reset"} THEN "agree"
  ELSE IF pc[w] \in {"recount", "b_re2"} THEN "raise"
  ELSE "judge"

(* The sections between which only the workers of a direction meet. *)
Stage(w) ==
  IF Section(w) \in {"greet", "first", "agree", "judge", "raise", "follow"}
  THEN "between"
  ELSE IF Section(w) = "drain" THEN "stream" ELSE Section(w)

(* The workers of a team are in the same section, ... *)
InvSection == \A w \in Workers : \A u \in Team(w) : Section(u) = Section(w)

(* ... those of a side in the same stage, ... *)
InvStage == \A w, u \in Workers : w[1] = u[1] => Stage(u) = Stage(w)

(* ... and in the same talk, unless some wait for the next to begin. *)
InvPhase == \A w, u \in Workers :
              w[1] = u[1] /\ loc[w].phase > loc[u].phase => pc[w] = "b_init"

Mates(w) == {u \in Workers : u[1] = w[1]}

(* The weak streams of the workers S that have been marked. *)
Marked(S) == {u \in S : loc[u].weak /\ pc[u] # "mark"}

(* The marks are clear from the reset to the end of the stream, ... *)
InvClear == \A w \in Workers :
              pc[w] \in StreamLabels \cup {"b_start"} =>
                weak[w[1]] = 0 /\ imWeak[w[1]][Dir(w)] = 0

(* ... count the workers that have made their mark, ... *)
InvMarking == \A w \in Workers :
                Section(w) = "mark" =>
                  /\ imWeak[w[1]][Dir(w)] = Cardinality(Marked(Team(w)))
                  /\ weak[w[1]] = Cardinality(Marked(Mates(w)))

(* ... and stay as they are until the last worker has read them. *)
InvMarks ==
  \A w \in Workers : pc[w] \in {"ret", "decide", "b_re1", "recount"} =>
    /\ imWeak[w[1]][Dir(w)] = Cardinality({u \in Team(w) : loc[u].weak})
    /\ weak[w[1]] = Cardinality({u \in Mates(w) : loc[u].weak})

Together == InvRole /\ InvSection /\ InvStage /\ InvPhase
MarkInv == InvClear /\ InvMarking /\ InvMarks

Inv == TypeInv /\ Together /\ MarkInv

-----------------------------------------------------------------------------
(* Roles, teams and sections. *)

LEMMA PhaseType ==
  ASSUME TypeInv, NEW w \in Workers
  PROVE  loc[w].phase \in 1 .. Phases /\ Phases \in {1, 2} /\ (Async => Phases = 1)
BY DEF TypeInv, CoreType, LocalType, Phases

(* The direction and with it the role of a worker depend on the order in which it
   runs the directions and on the talk it is in.                              *)
LEMMA DirIs ==
  ASSUME NEW w
  PROVE  /\ Dir(w) \in {0, 1}
         /\ Dir(w) = 1 <=> (w[2] \in ReverseConns <=> loc[w].phase = 1)
         /\ Sender(w) <=> (w[1] = "connector" <=> Dir(w) = 0)
         /\ Sender(w) \in BOOLEAN
BY DEF Dir, Sender

(* The workers of a team that are in the same talk have the same role. *)
LEMMA TeamRole ==
  ASSUME NEW w \in Workers, NEW u \in Team(w)
  PROVE  /\ u \in Workers /\ u[1] = w[1]
         /\ u[2] \in ReverseConns <=> w[2] \in ReverseConns
         /\ loc[u].phase = loc[w].phase => Dir(u) = Dir(w) /\ Sender(u) = Sender(w)
<1>1. u \in Workers /\ u[1] = w[1] /\ u[2] \in Conns /\ w[2] \in Conns
  BY DEF Team, Workers
<1>2. u[2] \in ReverseConns <=> w[2] \in ReverseConns
  <2>1. CASE Async
    BY <2>1 DEF Team
  <2>2. CASE ~Async
    BY <1>1, <2>2, TalkAssumption
  <2> QED
    BY <2>1, <2>2
<1>3. loc[u].phase = loc[w].phase => Dir(u) = Dir(w)
  BY <1>2, DirIs
<1>4. loc[u].phase = loc[w].phase => (Sender(u) <=> Sender(w))
  BY <1>1, <1>3, DirIs
<1> QED
  BY <1>1, <1>2, <1>3, <1>4, DirIs

LEMMA TeamsAndMates ==
  ASSUME NEW w \in Workers
  PROVE  /\ w \in Team(w) /\ w \in Mates(w)
         /\ Team(w) \subseteq Mates(w)
         /\ \A u \in Team(w) : Team(u) = Team(w)
         /\ \A u \in Mates(w) : Mates(u) = Mates(w)
         /\ ~Async => Team(w) = Mates(w)
BY DEF Team, Mates

LEMMA MatesFinite ==
  ASSUME NEW s \in Sides
  PROVE  \A S \in SUBSET Conns : /\ IsFiniteSet({s} \X S)
                                 /\ Cardinality({s} \X S) = Cardinality(S)
<1> SUFFICES ASSUME NEW S \in SUBSET Conns
             PROVE  IsFiniteSet({s} \X S) /\ Cardinality({s} \X S) = Cardinality(S)
  OBVIOUS
<1>1. IsFiniteSet({s}) /\ Cardinality({s}) = 1
  BY FS_Singleton
<1>2. IsFiniteSet(S) /\ Cardinality(S) \in Nat
  BY TalkAssumption, FS_Subset, FS_CardinalityType
<1>3. IsFiniteSet({s} \X S) /\ Cardinality({s} \X S) = Cardinality({s}) * Cardinality(S)
  BY <1>1, <1>2, FS_Product, Zenon
<1> QED
  BY <1>1, <1>2, <1>3

-----------------------------------------------------------------------------
(* Who meets at a barrier. *)

(* A set of workers of a side with connections in S that is as large as S is all
   of them.                                                                   *)
LEMMA AllOfThem ==
  ASSUME NEW s \in Sides, NEW S \in SUBSET Conns, NEW X \in SUBSET ({s} \X S),
         Cardinality(X) = Cardinality(S)
  PROVE  X = {s} \X S
<1>1. IsFiniteSet({s} \X S) /\ Cardinality({s} \X S) = Cardinality(S)
  BY MatesFinite
<1> QED
  BY <1>1, FS_Subset

(* The number of threads that worker_init() initialises a barrier for is that of
   the workers who use it.                                                    *)
LEMMA BarrierSizes ==
  /\ ~Async => \A b \in 0 .. 2 : BarrierSize(b) = Cardinality(Conns)
  /\ Async => /\ BarrierSize(0) = Cardinality(Conns \ ReverseConns)
              /\ BarrierSize(1) = Cardinality(ReverseConns)
              /\ BarrierSize(2) = Cardinality(Conns)
<1>1. CASE ~Async
  <2>1. CASE ReverseConns = {}
    <3>1. Conns \ ReverseConns = Conns /\ Conns # {}
      BY <2>1, TalkAssumption
    <3>2. BarrierSize(0) = Cardinality(Conns)
      BY <3>1 DEF BarrierSize
    <3>3. BarrierSize(1) = Cardinality(Conns)
      BY <2>1 DEF BarrierSize, workerCount
    <3>4. BarrierSize(2) = Cardinality(Conns)
      BY DEF BarrierSize, workerCount
    <3> QED
      BY <1>1, <3>2, <3>3, <3>4
  <2>2. CASE ReverseConns = Conns
    <3>1. Conns \ ReverseConns = {} /\ Conns # {}
      BY <2>2, TalkAssumption
    <3>2. BarrierSize(0) = Cardinality(Conns)
      BY <3>1 DEF BarrierSize, workerCount
    <3>3. BarrierSize(1) = Cardinality(Conns)
      BY <2>2, <3>1 DEF BarrierSize
    <3>4. BarrierSize(2) = Cardinality(Conns)
      BY DEF BarrierSize, workerCount
    <3> QED
      BY <1>1, <3>2, <3>3, <3>4
  <2> QED
    BY <1>1, <2>1, <2>2, TalkAssumption
<1>2. CASE Async
  <2>1. /\ Cardinality(Conns) \in Nat /\ Cardinality(ReverseConns) \in Nat
        /\ Cardinality(Conns) # 0
        /\ 2 * Cardinality(ReverseConns) = Cardinality(Conns)
    <3>1. IsFiniteSet(Conns) /\ IsFiniteSet(ReverseConns) /\ Conns # {}
      BY TalkAssumption, FS_Subset
    <3> QED
      BY <1>2, <3>1, TalkAssumption, FS_CardinalityType, FS_EmptySet
  <2>2. ReverseConns # {} /\ ReverseConns # Conns
    BY <2>1, FS_EmptySet
  <2>3. Conns \ ReverseConns # {}
    BY <2>2, TalkAssumption
  <2>4. BarrierSize(0) = Cardinality(Conns \ ReverseConns)
    BY <2>3 DEF BarrierSize
  <2>5. BarrierSize(1) = Cardinality(ReverseConns)
    BY <2>2 DEF BarrierSize
  <2>6. BarrierSize(2) = Cardinality(Conns)
    BY DEF BarrierSize, workerCount
  <2> QED
    BY <1>2, <2>4, <2>5, <2>6
<1> QED
  BY <1>1, <1>2, TalkAssumption

(* A section has one barrier at its end, as far as workers in the same talk are
   concerned, ...                                                             *)
LEMMA OneBarrier ==
  ASSUME InvRole, NEW w \in Workers, NEW u \in Workers,
         pc[w] \in GlobalLabels \cup DirLabels, pc[u] \in GlobalLabels \cup DirLabels,
         Section(u) = Section(w), loc[u].phase = loc[w].phase, Sender(u) = Sender(w)
  PROVE  pc[u] = pc[w]
<1>1. /\ pc[w] \in SenderLabels => Sender(w)
      /\ pc[u] \in SenderLabels => Sender(u)
  BY DEF InvRole
<1> QED
  BY <1>1 DEF Section, GlobalLabels, DirLabels, SenderLabels

(* ... and a stage has one barrier for all the workers of an asynchronous test. *)
LEMMA OneGlobalBarrier ==
  ASSUME NEW w \in Workers, NEW u \in Workers,
         pc[w] \in GlobalLabels, pc[u] \in GlobalLabels,
         Stage(u) = Stage(w), loc[u].phase = 1, loc[w].phase = 1
  PROVE  pc[u] = pc[w]
BY DEF Stage, Section, GlobalLabels

(* When a barrier lets workers go, they are a whole team, or the whole side, and
   all of them have come to the same barrier of the same talk.                *)
LEMMA WhoMeets ==
  ASSUME TypeInv, Together, NEW s \in Sides, NEW b \in 0 .. 2, BarrierWait(s, b)
  PROVE  /\ \A w \in WaitingAt(s, b) :
              /\ w \in Workers /\ w[1] = s /\ pc[w] \in GlobalLabels \cup DirLabels
              /\ Team(w) \subseteq WaitingAt(s, b)
              /\ pc[w] \in GlobalLabels \/ ~Async => Mates(w) \subseteq WaitingAt(s, b)
         /\ \A w, u \in WaitingAt(s, b) :
              pc[u] = pc[w] /\ loc[u].phase = loc[w].phase
<1> DEFINE X == WaitingAt(s, b)
<1>1. /\ Cardinality(X) = BarrierSize(b)
      /\ \A w \in X : /\ w \in Workers /\ w[1] = s /\ w[2] \in Conns /\ w = <<s, w[2]>>
                      /\ pc[w] \in GlobalLabels \cup DirLabels
                      /\ BarrierOf(w) = b
  BY DEF BarrierWait, WaitingAt, Workers
<1>2. \A w \in X : Mates(w) = {s} \X Conns
  BY <1>1 DEF Mates, Workers
<1> HIDE DEF X
<1>3. CASE ~Async
  <2>1. X = {s} \X Conns
    <3>1. X \in SUBSET ({s} \X Conns)
      BY <1>1
    <3>2. Cardinality(X) = Cardinality(Conns)
      BY <1>1, <1>3, BarrierSizes
    <3> QED
      BY <3>1, <3>2, AllOfThem
  <2>2. \A w, u \in X : /\ loc[u].phase = loc[w].phase
                        /\ Section(u) = Section(w) /\ Sender(u) = Sender(w)
    <3> SUFFICES ASSUME NEW w \in X, NEW u \in X
                 PROVE  /\ loc[u].phase = loc[w].phase
                        /\ Section(u) = Section(w) /\ Sender(u) = Sender(w)
      OBVIOUS
    <3>1. u \in Team(w)
      BY <1>1, <1>3 DEF Team
    <3>2. Dir(u) = b /\ Dir(w) = b
      BY <1>1, <1>3 DEF BarrierOf, GlobalBarrier
    <3>3. loc[u].phase = 1 <=> loc[w].phase = 1
      BY <1>1, <3>1, <3>2, TeamRole, DirIs
    <3>4. loc[u].phase = loc[w].phase
      BY <1>1, <3>3, PhaseType
    <3> QED
      BY <1>1, <3>1, <3>4, TeamRole DEF Together, InvSection
  <2>3. \A w, u \in X : pc[u] = pc[w]
    BY <1>1, <2>2, OneBarrier DEF Together
  <2> QED
    BY <1>1, <1>2, <2>1, <2>2, <2>3, TeamsAndMates DEF X
<1>4. CASE Async
  <2>0. \A w \in Workers : loc[w].phase = 1
    BY <1>4, PhaseType
  <2>1. ASSUME b = 2
        PROVE  /\ X = {s} \X Conns
               /\ \A w, u \in X : pc[u] = pc[w]
    <3>1. X \in SUBSET ({s} \X Conns)
      BY <1>1
    <3>2. Cardinality(X) = Cardinality(Conns)
      BY <1>1, <1>4, <2>1, BarrierSizes
    <3>3. X = {s} \X Conns
      BY <3>1, <3>2, AllOfThem
    <3>4. \A w \in X : pc[w] \in GlobalLabels
      BY <1>1, <2>1, DirIs DEF BarrierOf
    <3>5. \A w, u \in X : Stage(u) = Stage(w)
      BY <1>1 DEF Together, InvStage
    <3> QED
      BY <1>1, <2>0, <3>3, <3>4, <3>5, OneGlobalBarrier
  <2>2. ASSUME b # 2
        PROVE  /\ \A w \in X : pc[w] \notin GlobalLabels /\ Team(w) \subseteq X
               /\ \A w, u \in X : pc[u] = pc[w]
    <3>1. \A w \in X : pc[w] \notin GlobalLabels /\ Dir(w) = b
      BY <1>1, <1>4, <2>2 DEF BarrierOf, GlobalBarrier
    <3>2. \A w \in X : w[2] \in ReverseConns <=> b = 1
      BY <1>1, <2>0, <3>1, DirIs
    <3> DEFINE S == IF b = 1 THEN ReverseConns ELSE Conns \ ReverseConns
    <3>3. S \in SUBSET Conns
      BY TalkAssumption
    <3>4. X \in SUBSET ({s} \X S)
      BY <1>1, <3>2
    <3>5. Cardinality(X) = Cardinality(S)
      BY <1>1, <1>4, <2>2, BarrierSizes
    <3>6. X = {s} \X S
      BY <3>3, <3>4, <3>5, AllOfThem
    <3>7. \A w \in X : Team(w) \subseteq X
      BY <1>1, <1>4, <3>2, <3>6 DEF Team, Workers
    <3>8. \A w, u \in X : u \in Team(w)
      BY <1>1, <3>2 DEF Team
    <3>9. \A w, u \in X : Section(u) = Section(w) /\ Sender(u) = Sender(w)
      BY <1>1, <2>0, <3>8, TeamRole DEF Together, InvSection
    <3>10. \A w, u \in X : pc[u] = pc[w]
      BY <1>1, <2>0, <3>9, OneBarrier DEF Together
    <3> QED
      BY <3>1, <3>7, <3>10
  <2>3. \A w \in X : Team(w) \subseteq Mates(w)
    BY <1>1, TeamsAndMates
  <2> QED
    BY <1>1, <1>2, <1>4, <2>0, <2>1, <2>2, <2>3 DEF X
<1> QED
  BY <1>3, <1>4, TalkAssumption

-----------------------------------------------------------------------------
(* The steps, as far as the invariant can tell them apart. *)

(* What no step but a few changes of worker u. *)
Kept(u) == loc'[u].phase = loc[u].phase /\ loc'[u].weak = loc[u].weak
MarksKept == weak' = weak /\ imWeak' = imWeak

(* Nothing that matters changes: packets, failures, crashes. *)
Quiet == pc' = pc /\ MarksKept /\ \A u \in Workers : Kept(u)

(* A worker goes from one label of a section to another. *)
CommonMoves == {<<"neg", "start">>, <<"start", "b_reset">>, <<"run", "b_end">>,
                <<"ret", "decide">>, <<"ret", "report">>, <<"decide", "report">>,
                <<"report", "finish">>, <<"finish", "done">>}
SenderMoves == {<<"ping", "pong">>, <<"pong", "ping">>, <<"pong", "b_count1">>,
                <<"setcount", "b_count2">>, <<"decide", "b_re1">>, <<"recount", "b_re2">>}
ReceiverMoves == {<<"hs", "hs">>, <<"hs", "neg">>, <<"decide", "neg">>}
Moves(w) == CommonMoves \cup IF Sender(w) THEN SenderMoves ELSE ReceiverMoves

Move(w) == /\ MarksKept /\ \A u \in Workers : Kept(u)
           /\ \E l \in LabelSet : <<pc[w], l>> \in Moves(w) /\ Goto(w, l)

(* A worker goes on to the next talk. *)
Turn(w) == /\ MarksKept
           /\ pc[w] = "finish" /\ Goto(w, "b_init")
           /\ loc[w].phase < Phases /\ loc'[w].phase = loc[w].phase + 1
           /\ loc'[w].weak = loc[w].weak
           /\ \A u \in Workers \ {w} : Kept(u)

(* A worker learns, or decides, whether its stream was weak. *)
Judge(w) == /\ MarksKept
            /\ pc[w] = "end" /\ Goto(w, "b_mark")
            /\ loc'[w].phase = loc[w].phase
            /\ \A u \in Workers \ {w} : Kept(u)

Kinds(w) == Move(w) \/ Turn(w) \/ Judge(w) \/ TalkInit(w) \/ Reset(w) \/ Mark(w)

LEMMA KeptWhenUnchanged == UNCHANGED loc => \A u \in Workers : Kept(u)
BY DEF Kept

LEMMA ExitIsQuiet ==
  ASSUME NEW w, Exit(w)
  PROVE  Quiet
BY DEF Exit, Quiet, MarksKept, Kept, shared

LEMMA FailIsQuiet ==
  ASSUME NEW w, NEW ch, Fail(w, ch)
  PROVE  Quiet
BY ExitIsQuiet DEF Fail

LEMMA EndTalkKinds ==
  ASSUME TypeInv, NEW w \in Workers, pc[w] = "finish", EndTalk(w), MarksKept
  PROVE  Move(w) \/ Turn(w)
<1>1. CASE loc[w].phase < Phases
  <2>1. /\ Goto(w, "b_init")
        /\ loc' = [loc EXCEPT ![w].phase = @ + 1, ![w].i = 0, ![w].round = 0]
    BY <1>1 DEF EndTalk
  <2>2. loc'[w].phase = loc[w].phase + 1 /\ loc'[w].weak = loc[w].weak
    BY <2>1 DEF TypeInv, CoreType, LocalType
  <2>3. \A u \in Workers \ {w} : loc'[u] = loc[u]
    BY <2>1 DEF TypeInv, CoreType
  <2> QED
    BY <1>1, <2>1, <2>2, <2>3 DEF Turn, Kept
<1>2. CASE ~(loc[w].phase < Phases)
  <2>1. UNCHANGED loc /\ Goto(w, "done")
    BY <1>2 DEF EndTalk
  <2> QED
    BY <2>1, KeptWhenUnchanged DEF Move, Moves, CommonMoves, LabelSet
<1> QED
  BY <1>1, <1>2

LEMMA StepKinds ==
  ASSUME TypeInv, InvRole, NEW w \in Workers, Step(w)
  PROVE  Quiet \/ Kinds(w)
<1>0. /\ loc \in [Workers -> LocalType] /\ loc[w] \in LocalType
      /\ \A u \in Workers : loc[u] \in LocalType
  BY DEF TypeInv, CoreType
<1>m. ASSUME NEW l \in LabelSet, <<pc[w], l>> \in Moves(w), Goto(w, l), MarksKept,
             \A u \in Workers : Kept(u)
      PROVE  Move(w)
  BY <1>m DEF Move
<1>1. ASSUME NEW k, loc' = [loc EXCEPT ![w].i = k]
      PROVE  \A u \in Workers : Kept(u)
  BY <1>0, <1>1 DEF Kept, LocalType
<1>2. ASSUME NEW n, NEW r, loc' = [loc EXCEPT ![w].n = n, ![w].round = r]
      PROVE  \A u \in Workers : Kept(u)
  BY <1>0, <1>2 DEF Kept, LocalType
<1>3. CASE TalkInit(w) \/ Reset(w) \/ Mark(w)
  BY <1>3 DEF Kinds
<1>4. CASE SendPing(w)
  <2>1. pc[w] = "ping" /\ Goto(w, "pong") /\ MarksKept /\ UNCHANGED loc
    BY <1>4 DEF SendPing, At, shared, MarksKept
  <2>2. Sender(w)
    BY <2>1 DEF InvRole, SenderLabels
  <2>3. "pong" \in LabelSet /\ <<"ping", "pong">> \in Moves(w)
    BY <2>2 DEF LabelSet, HandshakeLabels, Moves, SenderMoves
  <2> QED
    BY <1>m, <2>1, <2>3, KeptWhenUnchanged DEF Kinds
<1>5. CASE RecvPong(w)
  <2>1. CASE FailReceived(w)
    BY <2>1, FailIsQuiet DEF FailReceived
  <2>2. CASE ~FailReceived(w)
    <3> DEFINE more == loc[w].i + 1 < HandshakeIter
               l == IF more THEN "ping" ELSE "b_count1"
               k == IF more THEN loc[w].i + 1 ELSE 0
    <3>1. pc[w] = "pong" /\ Goto(w, l) /\ loc' = [loc EXCEPT ![w].i = k]
      BY <1>5, <2>2 DEF RecvPong, At
    <3>2. MarksKept
      BY <1>5, <2>2 DEF RecvPong, shared, MarksKept
    <3>3. Sender(w)
      BY <3>1 DEF InvRole, SenderLabels
    <3>4. l \in LabelSet /\ <<"pong", l>> \in Moves(w)
      BY <3>3 DEF LabelSet, HandshakeLabels, Moves, SenderMoves
    <3> HIDE DEF l, k
    <3> QED
      BY <1>m, <1>1, <3>1, <3>2, <3>4 DEF Kinds
  <2> QED
    BY <2>1, <2>2
<1>6. CASE Handshake(w)
  <2>1. CASE FailReceived(w)
    BY <2>1, FailIsQuiet DEF FailReceived
  <2>2. CASE ~FailReceived(w)
    <3> DEFINE more == loc[w].i + 1 < HandshakeIter
               l == IF more THEN "hs" ELSE "neg"
               k == IF more THEN loc[w].i + 1 ELSE 0
    <3>1. pc[w] = "hs" /\ Goto(w, l) /\ loc' = [loc EXCEPT ![w].i = k]
      BY <1>6, <2>2 DEF Handshake, At
    <3>2. MarksKept
      BY <1>6, <2>2 DEF Handshake, shared, MarksKept
    <3>3. ~Sender(w)
      BY <3>1 DEF InvRole
    <3>4. l \in LabelSet /\ <<"hs", l>> \in Moves(w)
      BY <3>3 DEF LabelSet, HandshakeLabels, Moves, ReceiverMoves
    <3> HIDE DEF l, k
    <3> QED
      BY <1>m, <1>1, <3>1, <3>2, <3>4 DEF Kinds
  <2> QED
    BY <2>1, <2>2
<1>7. CASE SetCount(w)
  <2>1. pc[w] = "setcount" /\ Goto(w, "b_count2") /\ MarksKept /\ UNCHANGED loc
    BY <1>7 DEF SetCount, At, MarksKept
  <2>2. Sender(w)
    BY <2>1 DEF InvRole, SenderLabels
  <2>3. "b_count2" \in LabelSet /\ <<"setcount", "b_count2">> \in Moves(w)
    BY <2>2 DEF LabelSet, DirLabels, Moves, SenderMoves
  <2> QED
    BY <1>m, <2>1, <2>3, KeptWhenUnchanged DEF Kinds
<1>8. CASE SenderNegotiate(w) \/ ReceiverNegotiate(w)
  <2>1. CASE FailReceived(w) \/ Exit(w)
    BY <2>1, FailIsQuiet, ExitIsQuiet DEF FailReceived
  <2>2. CASE ~FailReceived(w) /\ ~Exit(w)
    <3>1. pc[w] = "neg" /\ Goto(w, "start") /\ MarksKept
      BY <1>8, <2>2 DEF SenderNegotiate, ReceiverNegotiate, At, shared, MarksKept
    <3>2. \E n : loc' = [loc EXCEPT ![w].n = n, ![w].round = loc[w].round + 1]
      BY <1>8, <2>2 DEF SenderNegotiate, ReceiverNegotiate
    <3>3. \A u \in Workers : Kept(u)
      BY <1>2, <3>2
    <3>4. "start" \in LabelSet /\ <<"neg", "start">> \in Moves(w)
      BY DEF LabelSet, Moves, CommonMoves
    <3> QED
      BY <1>m, <3>1, <3>3, <3>4 DEF Kinds
  <2> QED
    BY <2>1, <2>2
<1>9. CASE SendStart(w) \/ RecvStart(w)
  <2>1. CASE FailReceived(w)
    BY <2>1, FailIsQuiet DEF FailReceived
  <2>2. CASE ~FailReceived(w)
    <3>1. pc[w] = "start" /\ Goto(w, "b_reset") /\ MarksKept /\ UNCHANGED loc
      BY <1>9, <2>2 DEF SendStart, RecvStart, At, shared, MarksKept
    <3>2. "b_reset" \in LabelSet /\ <<"start", "b_reset">> \in Moves(w)
      BY DEF LabelSet, GlobalLabels, Moves, CommonMoves
    <3> QED
      BY <1>m, <3>1, <3>2, KeptWhenUnchanged DEF Kinds
  <2> QED
    BY <2>1, <2>2
<1>10. CASE SendRun(w) \/ RecvRun(w)
  <2>1. pc[w] = "run"
    BY <1>10 DEF SendRun, RecvRun, At
  <2>2. \/ Exit(w)
        \/ /\ \E k : loc' = [loc EXCEPT ![w].i = k]
           /\ UNCHANGED pc /\ MarksKept
        \/ Goto(w, "b_end") /\ UNCHANGED loc /\ MarksKept
    BY <1>10 DEF SendRun, RecvRun, shared, MarksKept
  <2>3. "b_end" \in LabelSet /\ <<"run", "b_end">> \in Moves(w)
    BY DEF LabelSet, DirLabels, Moves, CommonMoves
  <2> QED
    BY <1>m, <1>1, <2>1, <2>2, <2>3, ExitIsQuiet, KeptWhenUnchanged DEF Kinds, Quiet
<1>11. CASE SendEnd(w) \/ RecvEnd(w)
  <2>1. CASE FailReceived(w)
    BY <2>1, FailIsQuiet DEF FailReceived
  <2>2. CASE ~FailReceived(w)
    <3>1. pc[w] = "end" /\ Goto(w, "b_mark") /\ MarksKept
      BY <1>11, <2>2 DEF SendEnd, RecvEnd, At, shared, MarksKept
    <3>2. \E wk : loc' = [loc EXCEPT ![w].weak = wk, ![w].i = 0]
      BY <1>11, <2>2 DEF SendEnd, RecvEnd
    <3>3. loc'[w].phase = loc[w].phase /\ \A u \in Workers \ {w} : Kept(u)
      BY <1>0, <3>2 DEF LocalType, Kept
    <3> QED
      BY <3>1, <3>3 DEF Kinds, Judge
  <2> QED
    BY <2>1, <2>2
<1>12. CASE Return(w) \/ Decide(w)
  <2>1. PICK l : Goto(w, l) /\ <<pc[w], l>> \in Moves(w) /\ l \in LabelSet
    <3>1. CASE Return(w)
      <4>1. pc[w] = "ret" /\ (Goto(w, "decide") \/ Goto(w, "report"))
        BY <3>1 DEF Return, At
      <4> QED
        BY <4>1 DEF LabelSet, Moves, CommonMoves
    <3>2. CASE Decide(w)
      <4>1. /\ pc[w] = "decide"
            /\ \/ Goto(w, "report")
               \/ Sender(w) /\ Goto(w, "b_re1")
               \/ ~Sender(w) /\ Goto(w, "neg")
        BY <3>2 DEF Decide, At
      <4> QED
        BY <4>1 DEF LabelSet, DirLabels, Moves, CommonMoves, SenderMoves, ReceiverMoves
    <3> QED
      BY <1>12, <3>1, <3>2
  <2>2. MarksKept /\ UNCHANGED loc
    BY <1>12 DEF Return, Decide, shared, MarksKept
  <2> QED
    BY <1>m, <2>1, <2>2, KeptWhenUnchanged DEF Kinds
<1>13. CASE Recount(w)
  <2>1. pc[w] = "recount" /\ Goto(w, "b_re2") /\ MarksKept /\ UNCHANGED loc
    BY <1>13 DEF Recount, At, MarksKept
  <2>2. Sender(w)
    BY <2>1 DEF InvRole, SenderLabels
  <2>3. "b_re2" \in LabelSet /\ <<"recount", "b_re2">> \in Moves(w)
    BY <2>2 DEF LabelSet, DirLabels, Moves, SenderMoves
  <2> QED
    BY <1>m, <2>1, <2>3, KeptWhenUnchanged DEF Kinds
<1>14. CASE SendReport(w) \/ RecvReport(w)
  <2>1. CASE FailReceived(w)
    BY <2>1, FailIsQuiet DEF FailReceived
  <2>2. CASE ~FailReceived(w)
    <3>1. pc[w] = "report" /\ Goto(w, "finish") /\ MarksKept /\ UNCHANGED loc
      BY <1>14, <2>2 DEF SendReport, RecvReport, At, shared, MarksKept
    <3>2. "finish" \in LabelSet /\ <<"report", "finish">> \in Moves(w)
      BY DEF LabelSet, Moves, CommonMoves
    <3> QED
      BY <1>m, <3>1, <3>2, KeptWhenUnchanged DEF Kinds
  <2> QED
    BY <2>1, <2>2
<1>15. CASE SendFinish(w) \/ RecvFinish(w)
  <2>1. pc[w] = "finish" /\ EndTalk(w) /\ MarksKept
    BY <1>15 DEF SendFinish, RecvFinish, At, shared, MarksKept
  <2> QED
    BY <2>1, EndTalkKinds DEF Kinds
<1>16. CASE RecvReset(w)
  <2>1. \/ Exit(w) \/ Fail(w, chan)
        \/ pc[w] = "finish" /\ EndTalk(w) /\ UNCHANGED <<weak, imWeak>>
    BY <1>16 DEF RecvReset, shared
  <2> QED
    BY <2>1, ExitIsQuiet, FailIsQuiet, EndTalkKinds DEF Kinds, MarksKept
<1> QED
  BY <1>3, <1>4, <1>5, <1>6, <1>7, <1>8, <1>9, <1>10, <1>11, <1>12, <1>13, <1>14,
     <1>15, <1>16 DEF Step

(* The step of a process, of its environment, or none at all. *)
LEMMA NextKinds ==
  ASSUME TypeInv, InvRole, [Next]_vars
  PROVE  \/ Quiet
         \/ \E w \in Workers : Kinds(w)
         \/ \E s \in Sides, b \in 0 .. 2 : BarrierWait(s, b)
<1>1. CASE Progress
  <2>1. ASSUME NEW s \in Sides, Complete(s)
        PROVE  Quiet
    BY <2>1 DEF Complete, Quiet, MarksKept, Kept, shared
  <2> QED
    BY <1>1, <2>1, StepKinds DEF Progress
<1>2. CASE Environment
  <2>1. ASSUME NEW w \in Workers, RecvTimeout(w)
        PROVE  Quiet \/ Kinds(w)
    <3>1. \/ pc[w] = "run" /\ Goto(w, "b_end") /\ UNCHANGED <<loc, weak, imWeak>>
          \/ pc[w] = "finish" /\ EndTalk(w) /\ UNCHANGED <<weak, imWeak>>
          \/ UNCHANGED <<pc, loc, weak, imWeak>>
      BY <2>1 DEF RecvTimeout, shared
    <3>2. "b_end" \in LabelSet /\ <<"run", "b_end">> \in Moves(w)
      BY DEF LabelSet, DirLabels, Moves, CommonMoves
    <3> QED
      BY <3>1, <3>2, EndTalkKinds, KeptWhenUnchanged DEF Kinds, Move, Quiet, MarksKept
  <2>2. ASSUME NEW w \in Workers, SendReset(w) \/ Spin(w) \/ Lose(w) \/ Duplicate(w)
        PROVE  Quiet
    BY <2>2, ExitIsQuiet
    DEF SendReset, Spin, Lose, Duplicate, Quiet, MarksKept, Kept, vars, shared
  <2>3. ASSUME NEW s \in Sides, Crash(s)
        PROVE  Quiet
    BY <2>3 DEF Crash, Quiet, MarksKept, Kept, shared
  <2> QED
    BY <1>2, <2>1, <2>2, <2>3 DEF Environment
<1>3. CASE Ended \/ UNCHANGED vars
  BY <1>3 DEF Ended, Quiet, MarksKept, Kept, vars, shared
<1> QED
  BY <1>1, <1>2, <1>3 DEF Next

-----------------------------------------------------------------------------
(* The workers stay together. *)

LEMMA SameSection ==
  ASSUME NEW w, pc'[w] = pc[w], loc'[w].phase = loc[w].phase
  PROVE  /\ Dir(w)' = Dir(w) /\ Sender(w)' = Sender(w)
         /\ Section(w)' = Section(w) /\ Stage(w)' = Stage(w)
<1>1. Dir(w)' = Dir(w)
  BY DEF Dir
<1>2. Sender(w)' = Sender(w)
  BY <1>1 DEF Sender
<1>3. Section(w)' = Section(w)
  BY <1>2 DEF Section
<1> QED
  BY <1>1, <1>2, <1>3 DEF Stage

(* The label that worker w may be at, by itself. *)
RoleOf(w) == /\ pc[w] \in SenderLabels => Sender(w)
             /\ pc[w] = "hs" => ~Sender(w)
             /\ pc[w] = "b_end2" => Async
             /\ pc[w] = "init" => loc[w].phase = 1

(* A worker that stays in its section leaves the others where they are. *)
LEMMA OneMoves ==
  ASSUME TypeInv, TypeInv', Together, NEW w \in Workers,
         \A u \in Workers \ {w} : pc'[u] = pc[u] /\ loc'[u].phase = loc[u].phase,
         RoleOf(w)', Section(w)' = Section(w), pc[w] # "b_init",
         loc'[w].phase >= loc[w].phase,
         loc'[w].phase = loc[w].phase \/ pc'[w] = "b_init"
  PROVE  Together'
<1>1. \A u \in Workers : Section(u)' = Section(u) /\ Stage(u)' = Stage(u)
  <2>1. \A u \in Workers \ {w} : Section(u)' = Section(u) /\ Stage(u)' = Stage(u)
    BY SameSection
  <2>2. Stage(w)' = Stage(w)
    BY DEF Stage
  <2> QED
    BY <2>1, <2>2
<1>2. InvRole'
  <2>1. \A u \in Workers \ {w} : RoleOf(u)'
    BY SameSection DEF Together, InvRole, RoleOf
  <2> QED
    BY <2>1 DEF InvRole, RoleOf
<1>3. InvSection'
  BY <1>1 DEF Together, InvSection, Team
<1>4. InvStage'
  BY <1>1 DEF Together, InvStage
<1>5. InvPhase'
  <2>1. \A u \in Workers : loc[u].phase \in Nat /\ loc'[u].phase \in Nat
    BY DEF TypeInv, CoreType, LocalType
  <2> SUFFICES ASSUME NEW v \in Workers, NEW u \in Workers, v[1] = u[1],
                      loc'[v].phase > loc'[u].phase
               PROVE  pc'[v] = "b_init"
    BY DEF InvPhase
  <2>2. CASE v = w
    <3>1. CASE loc'[w].phase = loc[w].phase
      BY <2>1, <2>2, <3>1 DEF Together, InvPhase
    <3> QED
      BY <2>2, <3>1
  <2>3. CASE v # w
    BY <2>1, <2>3 DEF Together, InvPhase
  <2> QED
    BY <2>2, <2>3
<1> QED
  BY <1>2, <1>3, <1>4, <1>5 DEF Together

LEMMA GotoIs ==
  ASSUME TypeInv, NEW w \in Workers, NEW l, Goto(w, l)
  PROVE  pc'[w] = l /\ \A u \in Workers \ {w} : pc'[u] = pc[u]
BY DEF TypeInv, CoreType, Goto

LEMMA MoveTogether ==
  ASSUME TypeInv, TypeInv', Together, NEW w \in Workers, Move(w)
  PROVE  Together'
<1>1. PICK l \in LabelSet : <<pc[w], l>> \in Moves(w) /\ Goto(w, l)
  BY DEF Move
<1>2. pc'[w] = l /\ \A u \in Workers \ {w} : pc'[u] = pc[u]
  BY <1>1, GotoIs
<1>3. \A u \in Workers : loc'[u].phase = loc[u].phase
  BY DEF Move, Kept
<1>4. Dir(w)' = Dir(w)
  BY <1>3 DEF Dir
<1>5. Sender(w)' = Sender(w)
  BY <1>4 DEF Sender
<1>6. RoleOf(w) /\ Sender(w) \in BOOLEAN
  BY DirIs DEF Together, InvRole, RoleOf
<1>7. /\ Section(w)' = Section(w) /\ RoleOf(w)' /\ pc[w] # "b_init"
  <2>1. CASE Sender(w)
    <3>1. <<pc[w], l>> \in CommonMoves \cup SenderMoves
      BY <1>1, <2>1 DEF Moves
    <3> QED
      BY <1>2, <1>3, <1>5, <1>6, <2>1, <3>1
      DEF CommonMoves, SenderMoves, Section, RoleOf, SenderLabels
  <2>2. CASE ~Sender(w)
    <3>1. <<pc[w], l>> \in CommonMoves \cup ReceiverMoves
      BY <1>1, <2>2 DEF Moves
    <3> QED
      BY <1>2, <1>3, <1>5, <1>6, <2>2, <3>1
      DEF CommonMoves, ReceiverMoves, Section, RoleOf, SenderLabels
  <2> QED
    BY <2>1, <2>2
<1>8. loc[w].phase \in Nat
  BY DEF TypeInv, CoreType, LocalType
<1> QED
  BY <1>2, <1>3, <1>7, <1>8, OneMoves

(* The role of a worker is the opposite one in the next talk. *)
LEMMA TurnTogether ==
  ASSUME TypeInv, TypeInv', Together, NEW w \in Workers, Turn(w)
  PROVE  Together'
<1>1. pc'[w] = "b_init" /\ \A u \in Workers \ {w} : pc'[u] = pc[u]
  BY GotoIs DEF Turn
<1>2. loc[w].phase = 1 /\ loc'[w].phase = 2 /\ pc[w] = "finish"
  BY PhaseType DEF Turn
<1>3. \A u \in Workers \ {w} : loc'[u].phase = loc[u].phase
  BY DEF Turn, Kept
<1>4. Dir(w)' = 1 <=> ~(Dir(w) = 1)
  BY <1>2 DEF Dir
<1>5. Sender(w)' <=> ~Sender(w)
  BY <1>4, DirIs DEF Sender, Dir
<1>6. Section(w)' = Section(w)
  BY <1>1, <1>2, <1>5 DEF Section
<1>7. RoleOf(w)'
  BY <1>1 DEF RoleOf, SenderLabels
<1> QED
  BY <1>1, <1>2, <1>3, <1>6, <1>7, OneMoves

LEMMA OtherTogether ==
  ASSUME TypeInv, TypeInv', Together, NEW w \in Workers,
         Judge(w) \/ TalkInit(w) \/ Reset(w) \/ Mark(w)
  PROVE  Together'
<1>1. PICK l : /\ Goto(w, l)
               /\ <<pc[w], l>> \in {<<"end", "b_mark">>, <<"init", "b_init">>,
                                    <<"reset", "b_start">>, <<"mark", "b_ret">>}
  BY DEF Judge, TalkInit, Reset, Mark, At
<1>2. pc'[w] = l /\ \A u \in Workers \ {w} : pc'[u] = pc[u]
  BY <1>1, GotoIs
<1>3. \A u \in Workers : loc'[u].phase = loc[u].phase
  BY DEF Judge, TalkInit, Reset, Mark, Kept
<1>4. RoleOf(w)
  BY DEF Together, InvRole, RoleOf
<1>5. Section(w)' = Section(w) /\ RoleOf(w)' /\ pc[w] # "b_init"
  BY <1>1, <1>2, <1>3, <1>4 DEF Section, RoleOf, SenderLabels
<1>6. loc[w].phase \in Nat
  BY DEF TypeInv, CoreType, LocalType
<1> QED
  BY <1>2, <1>3, <1>5, <1>6, OneMoves

(* The section that follows the barrier at which w is. *)
SectionAfter(w) ==
  CASE pc[w] = "b_init"   -> IF Sender(w) THEN "greet" ELSE "follow"
    [] pc[w] = "b_count1" -> "first"
    [] pc[w] = "b_reset"  -> "clear"
    [] pc[w] = "b_start"  -> "stream"
    [] pc[w] = "b_end"    -> IF Async THEN "drain" ELSE "stop"
    [] pc[w] = "b_end2"   -> "stop"
    [] pc[w] = "b_mark"   -> "mark"
    [] pc[w] = "b_ret"    -> IF Sender(w) THEN "judge" ELSE "follow"
    [] pc[w] = "b_re1"    -> "raise"
    [] OTHER -> "agree"

(* What a barrier changes. *)
LEMMA BarrierMoves ==
  ASSUME TypeInv, Together, NEW s \in Sides, NEW b \in 0 .. 2, BarrierWait(s, b)
  PROVE  /\ UNCHANGED <<loc, weak, imWeak>>
         /\ \A w \in Workers : Dir(w)' = Dir(w) /\ Sender(w)' = Sender(w)
         /\ \A w \in Workers \ WaitingAt(s, b) :
              pc'[w] = pc[w] /\ Section(w)' = Section(w) /\ Stage(w)' = Stage(w)
         /\ \A w \in WaitingAt(s, b) :
              /\ \E serial \in BOOLEAN : pc'[w] = AfterBarrier(w, serial)
              /\ RoleOf(w)' /\ Section(w)' = SectionAfter(w)
<1> DEFINE X == WaitingAt(s, b)
<1>1. UNCHANGED <<loc, weak, imWeak>>
  BY DEF BarrierWait, shared
<1>2. PICK serial \in X : pc' = [w \in Workers |-> IF w \in X
                                   THEN AfterBarrier(w, w = serial) ELSE pc[w]]
  BY DEF BarrierWait
<1>3. \A w \in X : w \in Workers /\ pc[w] \in GlobalLabels \cup DirLabels
  BY DEF WaitingAt
<1>4. \A w \in Workers : Dir(w)' = Dir(w) /\ Sender(w)' = Sender(w)
  BY <1>1 DEF Dir, Sender
<1> HIDE DEF X
<1>5. \A w \in Workers \ X :
        pc'[w] = pc[w] /\ Section(w)' = Section(w) /\ Stage(w)' = Stage(w)
  BY <1>1, <1>2, SameSection
<1>6. \A w \in X : \E first \in BOOLEAN : pc'[w] = AfterBarrier(w, first)
  BY <1>2, <1>3
<1>7. ASSUME NEW w \in X
      PROVE  RoleOf(w)' /\ Section(w)' = SectionAfter(w)
  <2>1. PICK first \in BOOLEAN : pc'[w] = AfterBarrier(w, first)
    BY <1>6
  <2>2. RoleOf(w) /\ Sender(w)' = Sender(w) /\ loc'[w].phase = loc[w].phase
    BY <1>1, <1>3, <1>4 DEF Together, InvRole, RoleOf
  <2>3. pc[w] \in GlobalLabels \cup DirLabels
    BY <1>3
  <2>4. RoleOf(w)'
    BY <2>1, <2>2, <2>3
    DEF AfterBarrier, RoleOf, SenderLabels, GlobalLabels, DirLabels
  <2>5. Section(w)' = SectionAfter(w)
    BY <2>1, <2>2, <2>3
    DEF AfterBarrier, RoleOf, SenderLabels, GlobalLabels, DirLabels, Section, SectionAfter
  <2> QED
    BY <2>4, <2>5
<1> QED
  BY <1>1, <1>4, <1>5, <1>6, <1>7 DEF X

LEMMA BarrierTogether ==
  ASSUME TypeInv, Together, NEW s \in Sides, NEW b \in 0 .. 2, BarrierWait(s, b)
  PROVE  Together'
<1> DEFINE X == WaitingAt(s, b)
<1>1. /\ \A w \in X : /\ w \in Workers /\ w[1] = s /\ pc[w] \in GlobalLabels \cup DirLabels
                      /\ Team(w) \subseteq X
                      /\ pc[w] \in GlobalLabels \/ ~Async => Mates(w) \subseteq X
      /\ \A w, u \in X : pc[u] = pc[w] /\ loc[u].phase = loc[w].phase
  BY WhoMeets
<1>2. /\ UNCHANGED loc
      /\ \A w \in Workers : Dir(w)' = Dir(w) /\ Sender(w)' = Sender(w)
      /\ \A w \in Workers \ X :
           pc'[w] = pc[w] /\ Section(w)' = Section(w) /\ Stage(w)' = Stage(w)
      /\ \A w \in X : RoleOf(w)' /\ Section(w)' = SectionAfter(w)
  BY BarrierMoves
<1> HIDE DEF X
<1>3. InvRole'
  <2>1. \A w \in Workers \ X : RoleOf(w)'
    BY <1>2 DEF Together, InvRole, RoleOf
  <2> QED
    BY <1>2, <2>1 DEF InvRole, RoleOf
<1>4. InvSection'
  <2> SUFFICES ASSUME NEW w \in Workers, NEW u \in Team(w)
               PROVE  Section(u)' = Section(w)'
    BY DEF InvSection, Team
  <2>1. u \in Workers /\ (u \in X <=> w \in X)
    BY <1>1, TeamsAndMates, TeamRole
  <2>2. CASE w \in X
    <3>1. pc[u] = pc[w] /\ Sender(u) = Sender(w)
      BY <1>1, <2>1, <2>2, TeamRole
    <3>2. SectionAfter(u) = SectionAfter(w)
      BY <3>1 DEF SectionAfter
    <3> QED
      BY <1>2, <2>1, <2>2, <3>2
  <2>3. CASE w \notin X
    BY <1>2, <2>1, <2>3 DEF Together, InvSection
  <2> QED
    BY <2>2, <2>3
<1>5. InvStage'
  <2> SUFFICES ASSUME NEW w \in Workers, NEW u \in Workers, w[1] = u[1]
               PROVE  Stage(u)' = Stage(w)'
    BY DEF InvStage
  <2>1. Stage(u) = Stage(w)
    BY DEF Together, InvStage
  <2>2. ASSUME NEW v \in X, pc[v] \in DirLabels, Async \/ pc[v] # "b_end"
        PROVE  Stage(v)' = Stage(v)
    <3>1. pc[v] \in SenderLabels => Sender(v)
      BY <1>1 DEF Together, InvRole
    <3>2. Section(v)' = SectionAfter(v)
      BY <1>2
    <3> QED
      BY <2>2, <3>1, <3>2 DEF Stage, Section, SectionAfter, DirLabels, SenderLabels
  <2>3. CASE \E v \in X : pc[v] \in DirLabels /\ (Async \/ pc[v] # "b_end")
    <3>1. \A v \in Workers : Stage(v)' = Stage(v)
      BY <1>1, <1>2, <2>2, <2>3
    <3> QED
      BY <2>1, <3>1
  <2>4. CASE ~ \E v \in X : pc[v] \in DirLabels /\ (Async \/ pc[v] # "b_end")
    <3>1. \A v \in X : Mates(v) \subseteq X
      BY <1>1, <2>4
    <3>2. u \in X <=> w \in X
      BY <3>1 DEF Mates
    <3>3. CASE w \in X
      <4>1. pc[u] = pc[w] /\ pc[w] \in GlobalLabels \cup DirLabels
        BY <1>1, <3>2, <3>3
      <4>2. Section(u)' = SectionAfter(u) /\ Section(w)' = SectionAfter(w)
        BY <1>2, <3>2, <3>3
      <4>3. CASE pc[w] \in {"b_init", "b_ret"}
        <5>1. \A v \in {u, w} : SectionAfter(v) \in {"greet", "follow", "judge"}
          BY <4>1, <4>3 DEF SectionAfter
        <5> QED
          BY <4>2, <5>1 DEF Stage
      <4>4. CASE pc[w] \notin {"b_init", "b_ret"}
        <5>1. SectionAfter(u) = SectionAfter(w)
          BY <4>1, <4>4 DEF SectionAfter
        <5> QED
          BY <4>2, <5>1 DEF Stage
      <4> QED
        BY <4>3, <4>4
    <3>4. CASE w \notin X
      BY <1>2, <2>1, <3>2, <3>4
    <3> QED
      BY <3>3, <3>4
  <2> QED
    BY <2>3, <2>4
<1>6. InvPhase'
  <2> SUFFICES ASSUME NEW w \in Workers, NEW u \in Workers, w[1] = u[1],
                      loc'[w].phase > loc'[u].phase
               PROVE  pc'[w] = "b_init"
    BY DEF InvPhase
  <2>1. pc[w] = "b_init" /\ loc[w].phase > loc[u].phase
    BY <1>2 DEF Together, InvPhase
  <2>2. loc[w].phase \in Nat /\ loc[u].phase \in Nat
    BY DEF TypeInv, CoreType, LocalType
  <2>3. w \notin X
    BY <1>1, <2>1, <2>2 DEF Mates, GlobalLabels
  <2> QED
    BY <1>2, <2>1, <2>3
<1> QED
  BY <1>3, <1>4, <1>5, <1>6 DEF Together

-----------------------------------------------------------------------------
(* The marks. *)

(* What the invariant says of the marks that concern worker v. *)
MarkOf(v) ==
  /\ pc[v] \in StreamLabels \cup {"b_start"} =>
       weak[v[1]] = 0 /\ imWeak[v[1]][Dir(v)] = 0
  /\ Section(v) = "mark" => /\ imWeak[v[1]][Dir(v)] = Cardinality(Marked(Team(v)))
                            /\ weak[v[1]] = Cardinality(Marked(Mates(v)))
  /\ pc[v] \in {"ret", "decide", "b_re1", "recount"} =>
       /\ imWeak[v[1]][Dir(v)] = Cardinality({u \in Team(v) : loc[u].weak})
       /\ weak[v[1]] = Cardinality({u \in Mates(v) : loc[u].weak})

LEMMA MarkInvIs == MarkInv <=> \A v \in Workers : MarkOf(v)
BY DEF MarkInv, InvClear, InvMarking, InvMarks, MarkOf

LEMMA StageOf ==
  ASSUME NEW w
  PROVE  /\ Stage(w) = "open" => pc[w] \in {"init", "b_init"}
         /\ Stage(w) = "clear" <=> pc[w] \in {"reset", "b_start"}
         /\ Stage(w) = "stream" <=> pc[w] \in {"run", "b_end", "b_end2"}
         /\ Stage(w) = "stop" <=> pc[w] \in {"end", "b_mark"}
         /\ Stage(w) = "mark" <=> pc[w] \in {"mark", "b_ret"}
         /\ Section(w) = "mark" <=> pc[w] \in {"mark", "b_ret"}
         /\ pc[w] = "init" => Stage(w) = "open"
BY DEF Stage, Section

(* The marks stay right for a worker that stays where it is while nobody of its
   side makes a mark or changes its mind.                                     *)
LEMMA MarkFrame ==
  ASSUME MarkInv, NEW v \in Workers, pc'[v] = pc[v], loc'[v].phase = loc[v].phase,
         weak'[v[1]] = weak[v[1]], imWeak'[v[1]] = imWeak[v[1]],
         \A u \in Mates(v) : /\ loc'[u].weak = loc[u].weak
                             /\ pc'[u] = "mark" <=> pc[u] = "mark"
  PROVE  MarkOf(v)'
<1>1. Dir(v)' = Dir(v) /\ Section(v)' = Section(v)
  BY SameSection
<1>2. Team(v) \subseteq Mates(v)
  BY TeamsAndMates
<1>3. /\ Marked(Team(v))' = Marked(Team(v)) /\ Marked(Mates(v))' = Marked(Mates(v))
  BY <1>2 DEF Marked, Team, Mates
<1>4. /\ {u \in Team(v) : loc[u].weak}' = {u \in Team(v) : loc[u].weak}
      /\ {u \in Mates(v) : loc[u].weak}' = {u \in Mates(v) : loc[u].weak}
  BY <1>2 DEF Team, Mates
<1>5. MarkOf(v)
  BY MarkInvIs
<1> QED
  BY <1>1, <1>3, <1>4, <1>5 DEF MarkOf

LEMMA QuietMarks ==
  ASSUME MarkInv, Quiet
  PROVE  MarkInv'
<1>1. \A v \in Workers : MarkOf(v)'
  BY MarkFrame DEF Quiet, MarksKept, Kept, Mates
<1> QED
  BY <1>1, MarkInvIs DEF MarkInv, InvClear, InvMarking, InvMarks, MarkOf

LEMMA MoveMarks ==
  ASSUME TypeInv, Together, MarkInv, NEW w \in Workers, Move(w)
  PROVE  MarkInv'
<1>1. PICK l \in LabelSet : <<pc[w], l>> \in Moves(w) /\ Goto(w, l)
  BY DEF Move
<1>2. pc'[w] = l /\ \A u \in Workers \ {w} : pc'[u] = pc[u]
  BY <1>1, GotoIs
<1>3. MarksKept /\ \A u \in Workers : Kept(u)
  BY DEF Move
<1>4. <<pc[w], l>> \in CommonMoves \cup SenderMoves \cup ReceiverMoves
  BY <1>1 DEF Moves
<1>5. /\ pc[w] \notin {"mark", "b_ret"} /\ l \notin {"mark", "b_ret"}
      /\ l \in StreamLabels \cup {"b_start"} => pc[w] \in StreamLabels
      /\ l \in {"ret", "decide", "b_re1", "recount"} => pc[w] \in {"ret", "decide"}
  BY <1>4 DEF CommonMoves, SenderMoves, ReceiverMoves, StreamLabels
<1>6. \A v \in Workers \ {w} : MarkOf(v)'
  BY <1>2, <1>3, <1>5, MarkFrame DEF MarksKept, Kept, Mates
<1>7. MarkOf(w)'
  <2>1. Section(w)' # "mark"
    BY <1>2, <1>5 DEF Section
  <2>2. Dir(w)' = Dir(w)
    BY <1>3 DEF Dir, Kept
  <2>3. /\ {u \in Team(w) : loc[u].weak}' = {u \in Team(w) : loc[u].weak}
        /\ {u \in Mates(w) : loc[u].weak}' = {u \in Mates(w) : loc[u].weak}
    BY <1>3 DEF Team, Mates, Kept
  <2>4. MarkOf(w)
    BY MarkInvIs
  <2> QED
    BY <1>2, <1>3, <1>5, <2>1, <2>2, <2>3, <2>4 DEF MarkOf, MarksKept
<1> QED
  BY <1>6, <1>7, MarkInvIs DEF MarkInv, InvClear, InvMarking, InvMarks, MarkOf

LEMMA TurnMarks ==
  ASSUME TypeInv, Together, MarkInv, NEW w \in Workers, Turn(w)
  PROVE  MarkInv'
<1>1. pc'[w] = "b_init" /\ pc[w] = "finish" /\ \A u \in Workers \ {w} : pc'[u] = pc[u]
  BY GotoIs DEF Turn
<1>2. MarksKept /\ \A u \in Workers : loc'[u].weak = loc[u].weak
  BY DEF Turn, Kept
<1>3. \A v \in Workers \ {w} : loc'[v].phase = loc[v].phase
  BY DEF Turn, Kept
<1>4. \A v \in Workers \ {w} : MarkOf(v)'
  BY <1>1, <1>2, <1>3, MarkFrame DEF MarksKept, Mates
<1>5. MarkOf(w)'
  BY <1>1 DEF MarkOf, Section, StreamLabels
<1> QED
  BY <1>4, <1>5 DEF MarkInv, InvClear, InvMarking, InvMarks, MarkOf

(* A step of w that changes the marks, or what they count, concerns the workers of
   its own side only.                                                         *)
LEMMA OtherSideMarks ==
  ASSUME TypeInv, MarkInv, NEW w \in Workers,
         Judge(w) \/ TalkInit(w) \/ Reset(w) \/ Mark(w)
  PROVE  \A v \in Workers : v[1] # w[1] => MarkOf(v)'
<1> SUFFICES ASSUME NEW v \in Workers, v[1] # w[1]
             PROVE  MarkOf(v)'
  OBVIOUS
<1>1. \A u \in Workers \ {w} : pc'[u] = pc[u] /\ Kept(u)
  <2>1. \E l : Goto(w, l)
    BY DEF Judge, TalkInit, Reset, Mark
  <2>2. \A u \in Workers \ {w} : Kept(u)
    BY DEF Judge, TalkInit, Reset, Mark, Kept
  <2> QED
    BY <2>1, <2>2, GotoIs
<1>2. w \notin Mates(v) /\ v # w /\ Mates(v) \subseteq Workers
  BY DEF Mates
<1>3. weak \in [Sides -> Nat] /\ imWeak \in [Sides -> [Dirs -> Nat]]
      /\ v[1] \in Sides /\ w[1] \in Sides
  BY PeerType DEF TypeInv, CoreType
<1>4. weak'[v[1]] = weak[v[1]]
  BY <1>3 DEF Judge, TalkInit, Reset, Mark, MarksKept
<1>5. imWeak'[v[1]] = imWeak[v[1]]
  BY <1>3 DEF Judge, TalkInit, Reset, Mark, MarksKept
<1> QED
  BY <1>1, <1>2, <1>4, <1>5, MarkFrame DEF Kept

(* When a worker begins, clears the marks or ends its stream, nobody of its side
   makes or reads a mark.                                                     *)
LEMMA SetupMarks ==
  ASSUME TypeInv, Together, MarkInv, NEW w \in Workers,
         Judge(w) \/ TalkInit(w) \/ Reset(w)
  PROVE  MarkInv'
<1>1. \A v \in Workers : v[1] # w[1] => MarkOf(v)'
  BY OtherSideMarks
<1>2. ASSUME NEW v \in Workers, v[1] = w[1]
      PROVE  MarkOf(v)'
  <2>0. Stage(v) = Stage(w) /\ MarkOf(v) /\ MarkOf(w)
    BY <1>2, MarkInvIs DEF Together, InvStage
  <2>1. weak \in [Sides -> Nat] /\ imWeak \in [Sides -> [Dirs -> Nat]]
        /\ w[1] \in Sides /\ Dir(w) \in Dirs /\ Dir(v) \in Dirs
    BY PeerType, DirType DEF TypeInv, CoreType
  <2>2. Dir(v)' = Dir(v)
    BY DEF Judge, TalkInit, Reset, Kept, Dir
  <2>3. CASE Judge(w)
    <3>1. pc[v] \in {"end", "b_mark"} /\ pc[w] = "end"
      BY <2>0, <2>3, StageOf DEF Judge
    <3>2. pc'[v] \in {"end", "b_mark"}
      BY <2>3, <3>1, GotoIs DEF Judge
    <3>3. UNCHANGED <<weak, imWeak>>
      BY <2>3 DEF Judge, MarksKept
    <3> QED
      BY <2>0, <2>2, <3>1, <3>2, <3>3 DEF MarkOf, StreamLabels, Section
  <2>4. CASE TalkInit(w)
    <3>1. pc[v] \in {"init", "b_init"}
      BY <2>0, <2>4, StageOf DEF TalkInit, At
    <3>2. pc'[v] \in {"init", "b_init"}
      BY <2>4, <3>1, GotoIs DEF TalkInit
    <3> QED
      BY <3>2 DEF MarkOf, StreamLabels, Section
  <2>5. CASE Reset(w)
    <3>1. pc[v] \in {"reset", "b_start"}
      BY <2>0, <2>5, StageOf DEF Reset, At
    <3>2. pc'[v] \in {"reset", "b_start"} /\ (v # w => pc'[v] = pc[v])
      BY <2>5, <3>1, GotoIs DEF Reset
    <3>3. weak'[v[1]] = 0
      BY <1>2, <2>1, <2>5 DEF Reset
    <3>4. pc'[v] = "b_start" => imWeak'[v[1]][Dir(v)] = 0
      <4>1. imWeak' = [imWeak EXCEPT ![w[1]][Dir(w)] = 0]
        BY <2>5 DEF Reset
      <4>2. imWeak'[w[1]][Dir(w)] = 0
        BY <2>1, <4>1
      <4>3. Dir(v) # Dir(w) => imWeak'[w[1]][Dir(v)] = imWeak[w[1]][Dir(v)]
        BY <2>1, <4>1
      <4> QED
        BY <1>2, <2>0, <3>2, <4>2, <4>3 DEF MarkOf
    <3> QED
      BY <2>2, <3>2, <3>3, <3>4 DEF MarkOf, StreamLabels, Section
  <2> QED
    BY <2>3, <2>4, <2>5
<1> QED
  BY <1>1, <1>2 DEF MarkInv, InvClear, InvMarking, InvMarks, MarkOf

LEMMA MatesAreFinite ==
  ASSUME NEW v \in Workers
  PROVE  \A S \in SUBSET Mates(v) : IsFiniteSet(S) /\ Cardinality(S) \in Nat
<1>1. Mates(v) = {v[1]} \X Conns /\ v[1] \in Sides
  BY DEF Mates, Workers
<1>2. IsFiniteSet(Mates(v))
  BY <1>1, MatesFinite
<1> QED
  BY <1>2, FS_Subset, FS_CardinalityType

(* A worker that makes its mark is counted once, by those whom it concerns. *)
LEMMA MarkCounted ==
  ASSUME TypeInv, NEW w \in Workers, Mark(w), NEW v \in Workers,
         NEW S \in SUBSET Mates(v), w \in S, loc[w].weak
  PROVE  Cardinality({u \in S : loc'[u].weak /\ pc'[u] # "mark"})
         = Cardinality(Marked(S)) + 1
<1>1. pc[w] = "mark" /\ pc'[w] = "b_ret" /\ UNCHANGED loc
      /\ \A u \in Workers \ {w} : pc'[u] = pc[u]
  BY GotoIs DEF Mark, At
<1>2. S \subseteq Workers /\ Marked(S) \in SUBSET Mates(v) /\ w \notin Marked(S)
  BY <1>1 DEF Mates, Marked
<1>3. {u \in S : loc'[u].weak /\ pc'[u] # "mark"} = Marked(S) \cup {w}
  BY <1>1, <1>2 DEF Marked
<1>4. IsFiniteSet(Marked(S))
  BY <1>2, MatesAreFinite
<1> QED
  BY <1>2, <1>3, <1>4, FS_AddElement

LEMMA MarkMarks ==
  ASSUME TypeInv, Together, MarkInv, NEW w \in Workers, Mark(w)
  PROVE  MarkInv'
<1>0. pc[w] = "mark" /\ pc'[w] = "b_ret" /\ UNCHANGED loc
      /\ \A u \in Workers \ {w} : pc'[u] = pc[u]
  BY GotoIs DEF Mark, At
<1>1. \A v \in Workers : v[1] # w[1] => MarkOf(v)'
  BY OtherSideMarks
<1>2. ASSUME NEW v \in Workers, v[1] = w[1]
      PROVE  MarkOf(v)'
  <2>1. pc[v] \in {"mark", "b_ret"}
    BY <1>0, <1>2, StageOf DEF Together, InvStage
  <2>2. pc'[v] \in {"mark", "b_ret"}
    BY <1>0, <2>1
  <2>3. /\ imWeak[v[1]][Dir(v)] = Cardinality(Marked(Team(v)))
        /\ weak[v[1]] = Cardinality(Marked(Mates(v)))
    BY <2>1, StageOf, MarkInvIs DEF MarkOf
  <2>4. Dir(v)' = Dir(v)
    BY <1>0 DEF Dir
  <2>5. weak \in [Sides -> Nat] /\ imWeak \in [Sides -> [Dirs -> Nat]]
        /\ w[1] \in Sides /\ Dir(w) \in Dirs /\ Dir(v) \in Dirs /\ loc[w].weak \in BOOLEAN
    BY PeerType, DirType DEF TypeInv, CoreType, LocalType
  <2>6. loc[v].phase = loc[w].phase
    <3>1. loc[v].phase \in Nat /\ loc[w].phase \in Nat
      BY DEF TypeInv, CoreType, LocalType
    <3>2. ~(loc[v].phase > loc[w].phase) /\ ~(loc[w].phase > loc[v].phase)
      BY <1>0, <1>2, <2>1 DEF Together, InvPhase
    <3> QED
      BY <3>1, <3>2
  <2>7. w \in Mates(v) /\ Mates(v) \in SUBSET Mates(v) /\ Team(v) \in SUBSET Mates(v)
        /\ Mates(v) \subseteq Workers
    BY <1>2, TeamsAndMates DEF Mates
  <2>8. CASE loc[w].weak
    <3>1. /\ weak' = [weak EXCEPT ![w[1]] = @ + 1]
          /\ imWeak' = [imWeak EXCEPT ![w[1]][Dir(w)] = @ + 1]
      BY <2>8 DEF Mark
    <3>2. weak'[v[1]] = Cardinality(Marked(Mates(v)))'
      <4>1. Cardinality(Marked(Mates(v)))' = Cardinality(Marked(Mates(v))) + 1
        BY <2>7, <2>8, MarkCounted DEF Marked, Mates
      <4> QED
        BY <1>2, <2>3, <2>5, <3>1, <4>1
    <3>3. imWeak'[v[1]][Dir(v)] = Cardinality(Marked(Team(v)))'
      <4>1. CASE w \in Team(v)
        <5>1. Dir(v) = Dir(w)
          BY <2>6, <4>1, TeamRole
        <5>2. Cardinality(Marked(Team(v)))' = Cardinality(Marked(Team(v))) + 1
          BY <2>7, <2>8, <4>1, MarkCounted DEF Marked, Team
        <5>3. imWeak'[w[1]][Dir(w)] = imWeak[w[1]][Dir(w)] + 1
          BY <2>5, <3>1
        <5> QED
          BY <1>2, <2>3, <5>1, <5>2, <5>3
      <4>2. CASE w \notin Team(v)
        <5>1. ~(w[2] \in ReverseConns <=> v[2] \in ReverseConns)
          BY <1>2, <4>2 DEF Team
        <5>2. Dir(v) # Dir(w)
          BY <2>6, <5>1, DirIs
        <5>3. imWeak'[w[1]][Dir(v)] = imWeak[w[1]][Dir(v)]
          BY <2>5, <3>1, <5>2
        <5>4. Marked(Team(v))' = Marked(Team(v))
          BY <1>0, <4>2 DEF Marked, Team
        <5> QED
          BY <1>2, <2>3, <5>3, <5>4
      <4> QED
        BY <4>1, <4>2
    <3> QED
      BY <2>2, <2>4, <3>2, <3>3 DEF MarkOf, StreamLabels
  <2>9. CASE ~loc[w].weak
    <3>1. UNCHANGED <<weak, imWeak>>
      BY <2>9 DEF Mark
    <3>2. Marked(Team(v))' = Marked(Team(v)) /\ Marked(Mates(v))' = Marked(Mates(v))
      BY <1>0, <2>9 DEF Marked, Team, Mates
    <3> QED
      BY <2>2, <2>3, <2>4, <3>1, <3>2 DEF MarkOf, StreamLabels
  <2> QED
    BY <2>5, <2>8, <2>9
<1> QED
  BY <1>1, <1>2 DEF MarkInv, InvClear, InvMarking, InvMarks, MarkOf

(* At the barrier before the marks all are clear, at the one after them all the
   marks have been made.                                                      *)
LEMMA BarrierMarks ==
  ASSUME TypeInv, Together, MarkInv,
         NEW s \in Sides, NEW b \in 0 .. 2, BarrierWait(s, b)
  PROVE  MarkInv'
<1> DEFINE X == WaitingAt(s, b)
<1>1. /\ \A w \in X : /\ w \in Workers /\ w[1] = s /\ pc[w] \in GlobalLabels \cup DirLabels
                      /\ pc[w] \in GlobalLabels => Mates(w) \subseteq X
      /\ \A w, u \in X : pc[u] = pc[w]
  BY WhoMeets
<1>2. /\ UNCHANGED <<loc, weak, imWeak>>
      /\ \A w \in Workers : Dir(w)' = Dir(w)
      /\ \A w \in Workers \ X : pc'[w] = pc[w] /\ Section(w)' = Section(w)
      /\ \A w \in X : /\ \E serial \in BOOLEAN : pc'[w] = AfterBarrier(w, serial)
                      /\ Section(w)' = SectionAfter(w)
  BY BarrierMoves
<1> HIDE DEF X
<1>3. \A w \in X :
        /\ pc'[w] = "mark" <=> pc[w] = "b_mark"
        /\ pc'[w] \in StreamLabels \cup {"b_start"} =>
             pc[w] \in {"b_start", "b_end", "b_end2"}
        /\ pc'[w] \in {"ret", "decide", "b_re1", "recount"} => pc[w] \in {"b_ret", "b_re1"}
        /\ Section(w)' = "mark" => pc[w] = "b_mark"
  BY <1>1, <1>2 DEF AfterBarrier, SectionAfter, StreamLabels, GlobalLabels, DirLabels
<1>4. ASSUME NEW v \in Workers
      PROVE  MarkOf(v)'
  <2>1. MarkOf(v) /\ Team(v) \subseteq Mates(v) /\ v \in Mates(v) /\ Mates(v) \subseteq Workers
    BY MarkInvIs, TeamsAndMates DEF Mates
  <2>2. /\ {u \in Team(v) : loc[u].weak}' = {u \in Team(v) : loc[u].weak}
        /\ {u \in Mates(v) : loc[u].weak}' = {u \in Mates(v) : loc[u].weak}
    BY <1>2 DEF Team, Mates
  <2>3. CASE v \in X /\ pc[v] = "b_mark"
    <3>1. \A u \in Mates(v) : pc'[u] = "mark"
      BY <1>1, <1>3, <2>3 DEF GlobalLabels
    <3>2. Marked(Team(v))' = {} /\ Marked(Mates(v))' = {}
      BY <2>1, <3>1 DEF Marked, Team, Mates
    <3>3. weak[v[1]] = 0 /\ imWeak[v[1]][Dir(v)] = 0
      BY <2>1, <2>3 DEF MarkOf, StreamLabels
    <3>4. pc'[v] = "mark"
      BY <1>3, <2>3
    <3> QED
      BY <1>2, <3>2, <3>3, <3>4, FS_EmptySet DEF MarkOf, StreamLabels
  <2>4. CASE v \in X /\ pc[v] = "b_ret"
    <3>1. \A u \in Mates(v) : pc[u] = "b_ret"
      BY <1>1, <2>4 DEF GlobalLabels
    <3>2. /\ Marked(Team(v)) = {u \in Team(v) : loc[u].weak}
          /\ Marked(Mates(v)) = {u \in Mates(v) : loc[u].weak}
      BY <2>1, <3>1 DEF Marked
    <3>3. /\ imWeak[v[1]][Dir(v)] = Cardinality({u \in Team(v) : loc[u].weak})
          /\ weak[v[1]] = Cardinality({u \in Mates(v) : loc[u].weak})
      BY <2>1, <2>4, <3>2, StageOf DEF MarkOf
    <3>4. /\ pc'[v] \notin StreamLabels \cup {"b_start"}
          /\ Section(v)' # "mark"
      BY <1>3, <2>4
    <3> QED
      BY <1>2, <2>2, <3>3, <3>4 DEF MarkOf
  <2>5. CASE v \in X /\ pc[v] \notin {"b_mark", "b_ret"}
    <3>1. /\ pc'[v] \in StreamLabels \cup {"b_start"} => pc[v] \in StreamLabels \cup {"b_start"}
          /\ pc'[v] \in {"ret", "decide", "b_re1", "recount"} => pc[v] = "b_re1"
          /\ Section(v)' # "mark"
      BY <1>3, <2>5 DEF StreamLabels
    <3> QED
      BY <1>2, <2>1, <2>2, <3>1 DEF MarkOf
  <2>6. CASE v \notin X
    <3>1. pc'[v] = pc[v] /\ Section(v)' = Section(v) /\ Dir(v)' = Dir(v)
      BY <1>2, <2>6
    <3>2. CASE Section(v) = "mark"
      <4>1. \A u \in Mates(v) : Stage(u) = "mark"
        <5>1. Stage(v) = "mark"
          BY <3>2 DEF Stage
        <5> QED
          BY <5>1 DEF Together, InvStage, Mates
      <4>2. \A u \in Mates(v) : u \notin X
        <5> SUFFICES ASSUME NEW u \in Mates(v), u \in X
                     PROVE  FALSE
          OBVIOUS
        <5>1. pc[u] \in {"mark", "b_ret"}
          BY <4>1, StageOf
        <5>2. pc[u] \in GlobalLabels
          BY <1>1, <5>1 DEF GlobalLabels, DirLabels
        <5> QED
          BY <1>1, <2>6, <5>2 DEF Mates
      <4>3. \A u \in Mates(v) : pc'[u] = pc[u]
        BY <1>2, <2>1, <4>2
      <4> QED
        BY <1>2, <3>1, <4>3, MarkFrame
    <3>3. CASE Section(v) # "mark"
      BY <1>2, <2>1, <2>2, <3>1, <3>3 DEF MarkOf
    <3> QED
      BY <3>2, <3>3
  <2> QED
    BY <2>3, <2>4, <2>5, <2>6
<1> QED
  BY <1>4 DEF MarkInv, InvClear, InvMarking, InvMarks, MarkOf

-----------------------------------------------------------------------------
(* The theorems. *)

LEMMA InitInv == Init => Inv
<1> SUFFICES ASSUME Init
             PROVE  Inv
  OBVIOUS
<1>1. \A w \in Workers : pc[w] = "init" /\ loc[w].phase = 1
  BY DEF Init
<1>2. \A w \in Workers : Section(w) = "open" /\ Stage(w) = "open"
  BY <1>1 DEF Section, Stage
<1>3. Together
  <2>1. InvRole
    BY <1>1 DEF InvRole, SenderLabels
  <2>2. InvSection
    BY <1>2 DEF InvSection, Team
  <2>3. InvStage
    BY <1>2 DEF InvStage
  <2>4. InvPhase
    BY <1>1 DEF InvPhase
  <2> QED
    BY <2>1, <2>2, <2>3, <2>4 DEF Together
<1>4. MarkInv
  BY <1>1, <1>2 DEF MarkInv, InvClear, InvMarking, InvMarks, StreamLabels
<1> QED
  BY <1>3, <1>4, TypeInit DEF Inv

LEMMA NextInv == Inv /\ [Next]_vars => Inv'
<1> SUFFICES ASSUME Inv, [Next]_vars
             PROVE  Inv'
  OBVIOUS
<1> USE DEF Inv
<1>1. TypeInv'
  BY TypeStep
<1>2. CASE Quiet
  <2>1. \A w \in Workers : pc'[w] = pc[w] /\ loc'[w].phase = loc[w].phase
    BY <1>2 DEF Quiet, Kept
  <2>2. \A w \in Workers : Sender(w)' = Sender(w) /\ Section(w)' = Section(w)
                           /\ Stage(w)' = Stage(w)
    BY <2>1, SameSection
  <2>3. InvRole'
    BY <2>1, <2>2 DEF Together, InvRole
  <2>4. InvSection' /\ InvStage'
    BY <2>2 DEF Together, InvSection, InvStage, Team
  <2>5. InvPhase'
    BY <2>1 DEF Together, InvPhase
  <2> QED
    BY <1>1, <1>2, <2>3, <2>4, <2>5, QuietMarks DEF Together
<1>3. ASSUME NEW w \in Workers, Kinds(w)
      PROVE  Inv'
  BY <1>1, <1>3, MoveTogether, TurnTogether, OtherTogether,
     MoveMarks, TurnMarks, SetupMarks, MarkMarks DEF Kinds
<1>4. ASSUME NEW s \in Sides, NEW b \in 0 .. 2, BarrierWait(s, b)
      PROVE  Inv'
  BY <1>1, <1>4, BarrierTogether, BarrierMarks
<1> QED
  BY <1>2, <1>3, <1>4, NextKinds DEF Together

(* The invariant holds in every reachable state. *)
THEOREM Invariance == Spec => []Inv
BY InitInv, NextInv, PTL DEF Spec

(* The reset of _talk_sender_stream() and _talk_receiver_stream() works: when a
   packet of a round is sent or received, nothing is left of the marks of the
   previous round, and no worker of the side, however fast, has marked this
   one yet, until every stream of the side has ended.                         *)
THEOREM MarksAreFresh == Spec => []FreshMarks
<1>1. Inv => FreshMarks
  BY DEF Inv, MarkInv, InvClear, FreshMarks
<1> QED
  BY <1>1, Invariance, PTL

(* The functions that read the marks without the mutex, the end of the stream
   functions, _talk_weak_stream_needs_restart() and
   _talk_weak_stream_needs_recount(), read the number of weak streams of their
   direction and of the side.                                                 *)
THEOREM MarksAreExact == Spec => []MarksExact
<1>1. Inv => MarksExact
  BY DEF Inv, MarkInv, InvMarks, MarksExact, Mates
<1> QED
  BY <1>1, Invariance, PTL
=============================================================================
