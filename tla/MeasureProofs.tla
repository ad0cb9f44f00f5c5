--------------------------- MODULE MeasureProofs ---------------------------
(* The measurement of module Measure, for every number of workers, every set of
   minimum times, multipliers, rates and streams, and every size of the tick,
   of the int and of the counts: a report rests on a stream that was long
   enough and on packets that came, one recount does on a steady link, a test is
   not refused without need, and both sides report the same.                  *)
EXTENDS Measure, RecountProofs, SequenceTheorems

-----------------------------------------------------------------------------
(* The inductive invariant. *)

Small == 0 .. Mod32 - 1
Collected == [latency : Small, count : Small, recv : Small, duration : Nat]
Configs == [async : BOOLEAN, bidirectional : BOOLEAN, reverseFirst : BOOLEAN,
            minTime : MinTimes, countMul : CountMuls]

InvConfig == cfg \in Configs /\ (cfg.async => cfg.bidirectional /\ ~cfg.reverseFirst)

InvType ==
  /\ link \in [Workers -> Rates] \cup {Silent}
  /\ pc \in {"begin", "stream", "decide", "report", "failed"}
  /\ talk \in DOMAIN Talks
  /\ round \in 0 .. Many
  /\ count \in [Dirs -> Nat]
  /\ busy \in [Workers -> Nat]
  /\ results \in [Sides -> [Dirs -> [Workers -> Collected]]]
  /\ DOMAIN shown = Sides

(* The counts of a stream are within the limits. *)
InvCounts == pc \in {"stream", "decide"} => \A d \in Talks[talk] : Admissible(count[d])

(* The durations of a round are those of its last packets and timeouts. *)
Own(d) == [w \in Team(d) |-> busy[w]]
Cut(d) == [w \in Team(d) |-> Found(d, w).recv < Found(d, w).count]
InvRound ==
  pc = "decide" => \A d \in Talks[talk] : \A w \in Team(d) :
    Found(d, w).duration = Durations(Own(d), Cut(d))[w]

(* On a steady link nothing is lost, and a packet takes as long as any other. *)
InvSteady ==
  pc = "decide" /\ Steady => \A d \in Talks[talk] : \A w \in Team(d) :
    /\ busy[w] = (count[d] * link[w]) \div 10
    /\ Found(d, w).recv = Found(d, w).count

(* The directions that have their result: somebody's stream was long enough, and
   both sides have the same results.                                          *)
Done(d) == \E k \in DOMAIN Talks : d \in Talks[k] /\ (k < talk \/ pc = "report")
InvDone ==
  \A d \in Dirs : Done(d) =>
    /\ results["listener"][d] = results["connector"][d]
    /\ \E w \in Team(d) : ~Weak(Found(d, w).duration, cfg.minTime)

(* Who does not stream in a direction has no result in it. *)
InvOthers ==
  \A s \in Sides : \A d \in Dirs : \A w \in Workers \ Team(d) : results[s][d][w] = Nothing

InvShown ==
  \A s \in Sides : shown[s] # <<>> =>
    /\ pc = "report"
    /\ shown[s] = [i \in DOMAIN Shown(cfg) |->
         Section(s, Shown(cfg)[i], Combine(results[s][Shown(cfg)[i]], cfg.async))]

(* On a steady link the counts of a direction are the default, or they last. *)
Fresh == \A d \in Talks[talk] : count[d] = CountDefault
Lasting == \A d \in Talks[talk] :
  \E w \in Team(d) : (count[d] * link[w]) \div 10 >= cfg.minTime * Second
InvRecount ==
  Steady /\ Regular =>
    /\ round <= 2
    /\ pc = "stream" => (round = 0 /\ Fresh) \/ (round = 1 /\ Lasting)
    /\ pc = "decide" => (round = 1 /\ Fresh) \/ (round = 2 /\ Lasting)

Inv == /\ InvConfig /\ InvType /\ InvCounts /\ InvRound /\ InvSteady /\ InvDone
       /\ InvOthers /\ InvShown /\ InvRecount /\ FailsOnlyAtLimit

-----------------------------------------------------------------------------
(* Sides, talks and teams. *)

LEMMA ReceiverIs ==
  ASSUME NEW d \in Dirs
  PROVE  /\ Receiver(d) \in Sides /\ Download(Receiver(d), d)
         /\ \A s \in Sides : Download(s, d) => s = Receiver(d)
         /\ \A s \in Sides : Download(s, d) \in BOOLEAN
<1>1. \E s \in Sides : Download(s, d)
  BY DEF Dirs, Sides, Download
<1>2. Receiver(d) \in Sides /\ Download(Receiver(d), d)
  BY <1>1 DEF Receiver
<1>3. \A s, u \in Sides : Download(s, d) /\ Download(u, d) => s = u
  BY DEF Dirs, Sides, Download
<1>4. \A s \in Sides : Download(s, d) \in BOOLEAN
  BY DEF Download
<1> QED
  BY <1>2, <1>3, <1>4

LEMMA WorkersAre ==
  ASSUME InvConfig
  PROVE  /\ WorkerCount \in Nat \ {0} /\ Workers \subseteq Nat \ {0}
         /\ IsFiniteSet(Workers) /\ Workers # {}
         /\ cfg.async => WorkerCount = AsyncWorkers /\ WorkerCount >= 2
<1>1. SyncWorkers \in Nat \ {0} /\ AsyncWorkers \in Nat \ {0} /\ AsyncWorkers % 2 = 0
  BY MeasureAssumption
<1>2. AsyncWorkers >= 2
  BY <1>1
<1>3. WorkerCount \in Nat \ {0} /\ (cfg.async => WorkerCount = AsyncWorkers /\ WorkerCount >= 2)
  BY <1>1, <1>2 DEF WorkerCount
<1>4. IsFiniteSet(Workers)
  BY <1>3, FS_Interval DEF Workers
<1> QED
  BY <1>3, <1>4 DEF Workers

LEMMA TeamIs ==
  ASSUME InvConfig, NEW d \in Dirs
  PROVE  Team(d) \subseteq Workers /\ IsFiniteSet(Team(d)) /\ Team(d) # {}
<1>1. Team(d) \subseteq Workers
  BY DEF Team
<1>2. IsFiniteSet(Team(d))
  BY <1>1, WorkersAre, FS_Subset
<1>3. Team(d) # {}
  <2>1. CASE ~cfg.async
    BY <2>1, WorkersAre DEF Team
  <2>2. CASE cfg.async
    <3>1. 1 \in Workers /\ WorkerCount \in Workers /\ WorkerCount \in Nat /\ WorkerCount >= 2
      BY <2>2, WorkersAre DEF Workers
    <3>2. Half(1) = 0 /\ Half(WorkerCount) = 1
      BY <3>1 DEF Half
    <3> QED
      BY <2>2, <3>1, <3>2 DEF Team, Dirs
  <2> QED
    BY <2>1, <2>2
<1> QED
  BY <1>1, <1>2, <1>3

LEMMA TalksAre ==
  ASSUME InvConfig
  PROVE  /\ First \in Dirs /\ Len(Talks) \in {1, 2} /\ DOMAIN Talks = 1 .. Len(Talks)
         /\ \A k \in DOMAIN Talks : Talks[k] \subseteq Dirs /\ Talks[k] # {}
         /\ \A j, k \in DOMAIN Talks : j # k => Talks[j] \cap Talks[k] = {}
         /\ ~cfg.async => \A k \in DOMAIN Talks : \E d \in Dirs : Talks[k] = {d}
         /\ cfg.async => \A k \in DOMAIN Talks : Talks[k] = Dirs
<1>1. First \in Dirs /\ 1 - First \in Dirs /\ First # 1 - First
  BY DEF First, Dirs
<1>2. CASE cfg.async
  <2>1. Talks = <<Dirs>>
    BY <1>2 DEF Talks
  <2> QED
    BY <1>1, <1>2, <2>1 DEF Dirs
<1>3. CASE ~cfg.async /\ cfg.bidirectional
  <2>1. Talks = <<{First}, {1 - First}>>
    BY <1>3 DEF Talks
  <2> QED
    BY <1>1, <1>3, <2>1
<1>4. CASE ~cfg.async /\ ~cfg.bidirectional
  <2>1. Talks = <<{First}>>
    BY <1>4 DEF Talks
  <2> QED
    BY <1>1, <1>4, <2>1
<1> QED
  BY <1>2, <1>3, <1>4 DEF InvConfig, Configs

(* Every worker streams in a direction of the talk, and in just that one. *)
LEMMA DirOfIs ==
  ASSUME InvConfig, talk \in DOMAIN Talks, NEW w \in Workers
  PROVE  /\ DirOf(w) \in Talks[talk] /\ w \in Team(DirOf(w))
         /\ \A d \in Talks[talk] : w \in Team(d) => DirOf(w) = d
<1>1. CASE cfg.async
  BY <1>1, TalksAre DEF DirOf, Half, Team, Dirs
<1>2. CASE ~cfg.async
  <2>1. PICK d \in Dirs : Talks[talk] = {d}
    BY <1>2, TalksAre
  <2>2. DirOf(w) = d
    BY <1>2, <2>1 DEF DirOf
  <2> QED
    BY <1>2, <2>1, <2>2 DEF Team
<1> QED
  BY <1>1, <1>2

(* What depends on the configuration only stays what it is. *)
LEMMA Frame ==
  ASSUME cfg' = cfg
  PROVE  /\ WorkerCount' = WorkerCount /\ Workers' = Workers /\ Silent' = Silent
         /\ Talks' = Talks /\ Regular' = Regular /\ First' = First
         /\ \A d : Team(d)' = Team(d)
         /\ InvConfig' = InvConfig
<1>1. WorkerCount' = WorkerCount
  BY DEF WorkerCount
<1>2. Workers' = Workers
  BY <1>1 DEF Workers
<1>3. Silent' = Silent
  BY <1>2 DEF Silent
<1>4. First' = First
  BY DEF First
<1>5. Talks' = Talks
  BY <1>4 DEF Talks
<1>6. Regular' = Regular
  BY DEF Regular
<1>7. \A d : Team(d)' = Team(d)
  BY <1>1, <1>2 DEF Team, Half
<1>8. InvConfig' = InvConfig
  BY DEF InvConfig
<1> QED
  BY <1>1, <1>2, <1>3, <1>4, <1>5, <1>6, <1>7, <1>8

-----------------------------------------------------------------------------
(* What a round finds. *)

LEMMA WeakIs ==
  ASSUME NEW t \in Nat, NEW minTime \in Nat, ~Overflows(minTime)
  PROVE  Weak(t, minTime) <=> t < minTime * Second
BY ThresholdIs DEF Weak

LEMMA FoundType ==
  ASSUME InvConfig, InvType, NEW d \in Dirs, NEW w \in Workers
  PROVE  /\ Found(d, w) \in Collected
         /\ Found(d, w).duration \in Nat
         /\ (Found(d, w).recv < Found(d, w).count) \in BOOLEAN
<1>1. results[Receiver(d)][d][w] \in Collected
  BY ReceiverIs DEF InvType
<1> QED
  BY <1>1 DEF Found, Collected

LEMMA LinkType ==
  ASSUME InvType, NEW w \in Workers
  PROVE  link[w] \in Nat
<1>1. Rates \subseteq Nat
  BY MeasureAssumption
<1>2. CASE link = Silent
  BY <1>2 DEF Silent
<1>3. CASE link \in [Workers -> Rates]
  BY <1>1, <1>3
<1> QED
  BY <1>2, <1>3 DEF InvType

LEMMA OwnCut ==
  ASSUME InvConfig, InvType, NEW d \in Dirs
  PROVE  /\ Own(d) \in [Team(d) -> Nat] /\ Cut(d) \in [Team(d) -> BOOLEAN]
         /\ \A w \in Team(d) : /\ Own(d)[w] = busy[w]
                               /\ Cut(d)[w] = (Found(d, w).recv < Found(d, w).count)
<1>1. Own(d) \in [Team(d) -> Nat] /\ \A w \in Team(d) : Own(d)[w] = busy[w]
  BY TeamIs DEF Own, InvType
<1>2. Cut(d) \in [Team(d) -> BOOLEAN]
  BY TeamIs, FoundType DEF Cut
<1>3. \A w \in Team(d) : Cut(d)[w] = (Found(d, w).recv < Found(d, w).count)
  BY DEF Cut
<1> QED
  BY <1>1, <1>2, <1>3

(* Everything that the durations of a direction say about its streams. *)
LEMMA RoundIs ==
  ASSUME InvConfig, InvType, InvRound, pc = "decide", NEW d \in Talks[talk]
  PROVE  LET came == Max({busy[w] : w \in Team(d)})
             duration == Max({Found(d, w).duration : w \in Team(d)})
         IN  /\ came <= duration /\ duration <= came + StreamRun * Second
             /\ (\A w, u \in Team(d) : Cut(d)[w] = Cut(d)[u]) =>
                  /\ duration = came
                  /\ \A w \in Team(d) : Found(d, w).duration = came
<1>1. d \in Dirs
  BY TalksAre DEF InvType
<1> DEFINE D == Team(d)
           own == Own(d)
           cut == Cut(d)
           time == Durations(own, cut)
<1>2. IsFiniteSet(D) /\ D # {} /\ D \subseteq Workers
  BY <1>1, TeamIs
<1>3. own \in [D -> Nat] /\ cut \in [D -> BOOLEAN] /\ \A w \in D : own[w] = busy[w]
  BY <1>1, OwnCut
<1>4. \A w \in D : Found(d, w).duration = time[w]
  BY Zenon DEF InvRound
<1> HIDE DEF D, own, cut
<1>5. /\ time \in [D -> Nat]
      /\ Max({own[w] : w \in D}) <= Max({time[w] : w \in D})
      /\ Max({time[w] : w \in D}) <= Max({own[w] : w \in D}) + StreamRun * Second
      /\ (\A w, u \in D : cut[w] = cut[u]) => \A w \in D : time[w] = Max({own[w2] : w2 \in D})
  <2>1. own \in [D -> Nat] /\ cut \in [D -> BOOLEAN] /\ IsFiniteSet(D) /\ D # {}
    BY <1>2, <1>3
  <2>2. LET tt == Durations(own, cut)
            came == Max({own[w] : w \in D})
            longest == Max({tt[w] : w \in D})
        IN  /\ tt \in [D -> Nat]
            /\ \A w \in D : own[w] <= tt[w]
            /\ came <= longest /\ longest <= came + StreamRun * Second
            /\ (\A w, u \in D : cut[w] = cut[u]) => \A w \in D : tt[w] = came
    BY <2>1, DurationsFair
  <2> QED
    BY <2>2
<1> HIDE DEF time
<1>6. {own[w] : w \in D} = {busy[w] : w \in D}
  BY <1>3
<1>7. {time[w] : w \in D} = {Found(d, w).duration : w \in D}
  BY <1>4
<1>8. ASSUME \A w, u \in D : cut[w] = cut[u]
      PROVE  Max({time[w] : w \in D}) = Max({own[w] : w \in D})
  <2>1. time \in [D -> Int]
    BY <1>5
  <2>2. PICK x \in D : time[x] = Max({time[w] : w \in D})
    BY <1>2, <2>1, MaxOver
  <2>3. time[x] = Max({own[w2] : w2 \in D})
    BY <1>5, <1>8, <2>2
  <2> QED
    BY <2>2, <2>3
<1> DEFINE came == Max({own[w] : w \in D})
           longest == Max({time[w] : w \in D})
<1>9. /\ came <= longest /\ longest <= came + StreamRun * Second
      /\ (\A w, u \in D : cut[w] = cut[u]) =>
           longest = came /\ \A w \in D : Found(d, w).duration = came
  <2>1. (\A w, u \in D : cut[w] = cut[u]) => \A w \in D : time[w] = came
    BY <1>5
  <2> QED
    BY <1>4, <1>5, <1>8, <2>1
<1>10. came = Max({busy[w] : w \in D}) /\ longest = Max({Found(d, w).duration : w \in D})
  BY <1>6, <1>7
<1> HIDE DEF came, longest
<1> QED
  BY <1>9, <1>10 DEF D, cut

LEMMA NotLess ==
  ASSUME NEW a \in Int
  PROVE  (a < a) = FALSE
OBVIOUS

(* On a steady link everybody finds the time of the slowest of the direction. *)
LEMMA SteadyIs ==
  ASSUME InvConfig, InvType, InvRound, InvSteady, Steady, pc = "decide",
         NEW d \in Talks[talk]
  PROVE  \E m \in Team(d) : \A w \in Team(d) :
           /\ Found(d, w).duration = (count[d] * link[m]) \div 10
           /\ (count[d] * link[w]) \div 10 <= (count[d] * link[m]) \div 10
<1>1. d \in Dirs
  BY TalksAre DEF InvType
<1> DEFINE D == Team(d)
           f == [w \in D |-> busy[w]]
<1>2. IsFiniteSet(D) /\ D # {} /\ D \subseteq Workers
  BY <1>1, TeamIs
<1>3. f \in [D -> Int] /\ \A w \in D : f[w] = busy[w]
  BY <1>2 DEF InvType
<1>4. {f[w] : w \in D} = {busy[w] : w \in D}
  BY <1>3
<1>5. \A w, u \in D : Cut(d)[w] = Cut(d)[u]
  <2>1. \A w \in D : Cut(d)[w] = FALSE
    <3> SUFFICES ASSUME NEW w \in D
                 PROVE  Cut(d)[w] = FALSE
      OBVIOUS
    <3>1. Found(d, w).recv = Found(d, w).count
      BY DEF InvSteady
    <3>2. Found(d, w).count \in Int
      <4>1. Mod32 \in Nat \ {0}
        BY ReportAssumption
      <4>2. Found(d, w) \in Collected
        BY <1>1, <1>2, FoundType
      <4>3. Found(d, w).count \in Small
        BY <4>2 DEF Collected
      <4> QED
        BY <4>1, <4>3 DEF Small
    <3>3. (Found(d, w).count < Found(d, w).count) = FALSE
      BY <3>2, NotLess
    <3> QED
      BY <3>1, <3>3, Zenon DEF Cut
  <2> QED
    BY <2>1
<1>6. \A w \in D : Found(d, w).duration = Max({busy[u] : u \in D})
  BY <1>5, RoundIs
<1> HIDE DEF f
<1>7. PICK m \in D : f[m] = Max({f[w] : w \in D}) /\ \A w \in D : f[w] <= f[m]
  <2> HIDE DEF D
  <2>1. (\E m \in D : f[m] = Max({f[w] : w \in D})) /\ \A w \in D : f[w] <= Max({f[y] : y \in D})
    BY <1>2, <1>3, MaxOver
  <2> QED
    BY <2>1
<1>8. \A w \in D : busy[w] = (count[d] * link[w]) \div 10
  BY DEF InvSteady
<1>9. \A w \in D : /\ Found(d, w).duration = busy[m]
                   /\ busy[w] <= busy[m]
  BY <1>3, <1>4, <1>6, <1>7
<1> QED
  BY <1>7, <1>8, <1>9

-----------------------------------------------------------------------------
(* A round. *)

(* The results of a round, of which the receivers' are complete. *)
LEMMA RoundResults ==
  ASSUME Inv, pc = "stream", NEW own \in [Workers -> Nat], NEW recv \in [Workers -> Nat],
         \A w \in Workers : recv[w] <= count[DirOf(w)], Round(own, recv)
  PROVE  /\ results' \in [Sides -> [Dirs -> [Workers -> Collected]]]
         /\ \A s \in Sides : \A d \in Dirs \ Talks[talk] : results'[s][d] = results[s][d]
         /\ \A s \in Sides : \A d \in Dirs : \A w \in Workers \ Team(d) :
              results'[s][d][w] = results[s][d][w]
         /\ \A d \in Talks[talk] : \A w \in Team(d) :
              results'[Receiver(d)][d][w] =
                [latency |-> Latency[w], count |-> count[d], recv |-> recv[w],
                 duration |-> Durations([u \in Team(d) |-> own[u]],
                                        [u \in Team(d) |-> recv[u] < count[d]])[w]]
<1> DEFINE time(d) == Durations([u \in Team(d) |-> own[u]],
                                [u \in Team(d) |-> recv[u] < count[d]])
           Down(d, w) == [latency |-> Latency[w], count |-> count[d], recv |-> recv[w],
                          duration |-> time(d)[w]]
           Up(s, d, w) == [results[s][d][w] EXCEPT !.latency = Latency[w], !.count = count[d]]
           Cell(s, d, w) == IF w \notin Team(d) THEN results[s][d][w]
                            ELSE IF Download(s, d) THEN Down(d, w) ELSE Up(s, d, w)
<1>1. InvConfig /\ InvType /\ InvCounts
  BY DEF Inv
<1>2. results' = [s \in Sides |-> [d \in Dirs |->
                    IF d \notin Talks[talk] THEN results[s][d]
                    ELSE [w \in Workers |-> Cell(s, d, w)]]]
  BY DEF Round
<1>3. Talks[talk] \subseteq Dirs
  BY <1>1, TalksAre DEF InvType
<1>4. \A w \in Workers : Latency[w] \in Small
  <2>1. Workers \subseteq 1 .. SyncWorkers \cup 1 .. AsyncWorkers
    BY DEF Workers, WorkerCount
  <2> QED
    BY <2>1, MeasureAssumption DEF Small
<1>5. \A d \in Talks[talk] : \A w \in Team(d) : Down(d, w) \in Collected
  <2> SUFFICES ASSUME NEW d \in Talks[talk], NEW w \in Team(d)
               PROVE  Down(d, w) \in Collected
    OBVIOUS
  <2>1. w \in Workers /\ DirOf(w) = d
    BY <1>1, <1>3, TeamIs, DirOfIs DEF InvType
  <2>2. count[d] \in Nat /\ count[d] < CountMax /\ recv[w] \in Nat /\ recv[w] <= count[d]
    BY <1>1, <1>3, <2>1 DEF InvType, InvCounts, Admissible
  <2>3. CountMax \in Nat /\ Mod32 \in Nat /\ CountMax <= Mod32
    BY RecountAssumption, ReportAssumption, MeasureAssumption
  <2>4. count[d] \in Small /\ recv[w] \in Small
    BY <2>2, <2>3 DEF Small
  <2>5. time(d)[w] \in Nat
    <3> DEFINE D == Team(d)
               o == [u \in D |-> own[u]]
               c == [u \in D |-> recv[u] < count[d]]
    <3>1. IsFiniteSet(D) /\ D # {} /\ D \subseteq Workers /\ w \in D
      BY <1>1, <1>3, TeamIs
    <3>2. o \in [D -> Nat]
      BY <3>1
    <3>3. c \in [D -> BOOLEAN]
      BY <1>3, <3>1, <2>2 DEF InvType
    <3>4. time(d) = Durations(o, c)
      OBVIOUS
    <3> HIDE DEF D, o, c
    <3>5. Durations(o, c) \in [D -> Nat]
      BY <3>1, <3>2, <3>3, DurationsFair
    <3> QED
      BY <3>1, <3>4, <3>5
  <2> HIDE DEF time
  <2> QED
    BY <1>4, <2>1, <2>4, <2>5 DEF Collected
<1>6. \A s \in Sides : \A d \in Talks[talk] : \A w \in Team(d) : Up(s, d, w) \in Collected
  <2> SUFFICES ASSUME NEW s \in Sides, NEW d \in Talks[talk], NEW w \in Team(d)
               PROVE  Up(s, d, w) \in Collected
    OBVIOUS
  <2>1. w \in Workers /\ d \in Dirs
    BY <1>1, <1>3, TeamIs
  <2>2. results[s][d][w] \in Collected
    BY <1>1, <2>1 DEF InvType
  <2>3. count[d] \in Small
    BY <1>5 DEF Collected
  <2> QED
    BY <1>4, <2>1, <2>2, <2>3 DEF Collected
<1> HIDE DEF Up, Down
<1>7. \A s \in Sides : \A d \in Talks[talk] : \A w \in Workers : Cell(s, d, w) \in Collected
  <2>1. \A s \in Sides : \A d \in Talks[talk] : \A w \in Workers : results[s][d][w] \in Collected
    BY <1>1, <1>3 DEF InvType
  <2> QED
    BY <1>5, <1>6, <2>1
<1>8. /\ \A s \in Sides : \A d \in Talks[talk] : \A w \in Workers \ Team(d) :
           Cell(s, d, w) = results[s][d][w]
      /\ \A d \in Talks[talk] : \A w \in Team(d) : Cell(Receiver(d), d, w) = Down(d, w)
  BY <1>3, ReceiverIs
<1> HIDE DEF Cell
<1>9. /\ \A s \in Sides : \A d \in Dirs \ Talks[talk] : results'[s][d] = results[s][d]
      /\ \A s \in Sides : \A d \in Talks[talk] : \A w \in Workers :
           results'[s][d][w] = Cell(s, d, w)
  BY <1>2, <1>3
<1>10. results' \in [Sides -> [Dirs -> [Workers -> Collected]]]
  <2>1. \A s \in Sides : \A d \in Dirs :
          (IF d \notin Talks[talk] THEN results[s][d]
           ELSE [w \in Workers |-> Cell(s, d, w)]) \in [Workers -> Collected]
    BY <1>1, <1>7 DEF InvType
  <2> QED
    BY <1>2, <2>1
<1>11. \A s \in Sides : \A d \in Dirs : \A w \in Workers \ Team(d) :
         results'[s][d][w] = results[s][d][w]
  BY <1>8, <1>9
<1>12. \A d \in Talks[talk] : \A w \in Team(d) : results'[Receiver(d)][d][w] = Down(d, w)
  <2>1. \A d \in Talks[talk] : Receiver(d) \in Sides /\ Team(d) \subseteq Workers
    BY <1>1, <1>3, ReceiverIs, TeamIs
  <2> QED
    BY <1>8, <1>9, <2>1
<1> QED
  BY <1>9, <1>10, <1>11, <1>12 DEF Down, time

(* Nothing is shown before the report. *)
LEMMA NotShown ==
  ASSUME InvShown, pc # "report", shown' = shown
  PROVE  InvShown'
<1>1. \A s \in Sides : shown[s] = <<>>
  BY DEF InvShown
<1>2. Sides' = Sides
  BY DEF Sides
<1> QED
  BY <1>1, <1>2 DEF InvShown

(* A direction that has its result is not part of the current talk. *)
LEMMA DoneElsewhere ==
  ASSUME InvConfig, talk \in DOMAIN Talks, pc # "report", NEW d, Done(d)
  PROVE  d \notin Talks[talk]
<1>1. PICK k \in DOMAIN Talks : d \in Talks[k] /\ k < talk
  BY DEF Done
<1>2. k # talk
  BY <1>1, TalksAre
<1> QED
  BY <1>1, <1>2, TalksAre

LEMMA RoundStep ==
  ASSUME Inv, pc = "stream", NEW own \in [Workers -> Nat], NEW recv \in [Workers -> Nat],
         \A w \in Workers : recv[w] <= count[DirOf(w)], Round(own, recv),
         Steady => \A w \in Workers : /\ own[w] = (count[DirOf(w)] * link[w]) \div 10
                                      /\ recv[w] = count[DirOf(w)]
  PROVE  Inv'
<1>0. /\ InvConfig /\ InvType /\ InvCounts /\ InvDone /\ InvOthers /\ InvShown /\ InvRecount
  BY DEF Inv
<1>1. /\ busy' = own /\ pc' = "decide" /\ cfg' = cfg /\ link' = link /\ talk' = talk
      /\ count' = count /\ shown' = shown /\ round' = IF round = Many THEN Many ELSE round + 1
  BY DEF Round
<1>2. /\ Workers' = Workers /\ Silent' = Silent /\ Talks' = Talks /\ Regular' = Regular
      /\ \A d : Team(d)' = Team(d)
      /\ InvConfig'
  BY <1>0, <1>1, Frame
<1>3. Talks[talk] \subseteq Dirs
  BY <1>0, TalksAre DEF InvType
<1>4. \A d \in Talks[talk] : Team(d) \subseteq Workers /\ \A w \in Team(d) : DirOf(w) = d
  BY <1>0, <1>3, TeamIs, DirOfIs DEF InvType
<1> DEFINE o(d) == [u \in Team(d) |-> own[u]]
           c(d) == [u \in Team(d) |-> recv[u] < count[d]]
<1>5. /\ results' \in [Sides -> [Dirs -> [Workers -> Collected]]]
      /\ \A s \in Sides : \A d \in Dirs \ Talks[talk] : results'[s][d] = results[s][d]
      /\ \A s \in Sides : \A d \in Dirs : \A w \in Workers \ Team(d) :
           results'[s][d][w] = results[s][d][w]
      /\ \A d \in Talks[talk] : \A w \in Team(d) :
           results'[Receiver(d)][d][w] =
             [latency |-> Latency[w], count |-> count[d], recv |-> recv[w],
              duration |-> Durations(o(d), c(d))[w]]
  BY RoundResults
<1> HIDE DEF o, c
<1>6. \A d \in Talks[talk] : \A w \in Team(d) :
        /\ Found(d, w)'.duration = Durations(o(d), c(d))[w]
        /\ Found(d, w)'.recv = recv[w] /\ Found(d, w)'.count = count[d]
  <2> SUFFICES ASSUME NEW d \in Talks[talk], NEW w \in Team(d)
               PROVE  /\ Found(d, w)'.duration = Durations(o(d), c(d))[w]
                      /\ Found(d, w)'.recv = recv[w] /\ Found(d, w)'.count = count[d]
    OBVIOUS
  <2>1. Found(d, w)' = results'[Receiver(d)][d][w]
    BY DEF Found
  <2>2. results'[Receiver(d)][d][w] =
          [latency |-> Latency[w], count |-> count[d], recv |-> recv[w],
           duration |-> Durations(o(d), c(d))[w]]
    BY <1>5
  <2> QED
    BY <2>1, <2>2
<1>7. InvType'
  <2>1. Many \in Nat /\ round' \in 0 .. Many
    BY <1>0, <1>1 DEF InvType, Many
  <2> QED
    BY <1>0, <1>1, <1>2, <1>5, <2>1 DEF InvType
<1>8. InvCounts'
  BY <1>0, <1>1, <1>2 DEF InvCounts
<1>9. InvRound'
  <2> SUFFICES ASSUME NEW d \in Talks[talk], NEW w \in Team(d)
               PROVE  Found(d, w)'.duration = Durations(Own(d)', Cut(d)')[w]
    BY <1>1, <1>2 DEF InvRound
  <2>1. Own(d)' = o(d)
    BY <1>1, <1>2 DEF Own, o
  <2>2. Cut(d)' = c(d)
    <3>1. Cut(d)' = [u \in Team(d) |-> Found(d, u)'.recv < Found(d, u)'.count]
      BY <1>2 DEF Cut
    <3> QED
      BY <1>6, <3>1 DEF c
  <2> QED
    BY <1>6, <2>1, <2>2
<1>10. InvSteady'
  <2>1. Steady' = Steady
    BY <1>1, <1>2 DEF Steady
  <2> SUFFICES ASSUME Steady, NEW d \in Talks[talk], NEW w \in Team(d)
               PROVE  /\ busy'[w] = (count'[d] * link'[w]) \div 10
                      /\ Found(d, w)'.recv = Found(d, w)'.count
    BY <1>1, <1>2, <2>1 DEF InvSteady
  <2>2. w \in Workers /\ DirOf(w) = d
    BY <1>4
  <2> QED
    BY <1>1, <1>6, <2>2
<1>11. InvDone'
  <2> SUFFICES ASSUME NEW d \in Dirs, Done(d)'
               PROVE  /\ results'["listener"][d] = results'["connector"][d]
                      /\ \E w \in Team(d) : ~Weak(Found(d, w)'.duration, cfg.minTime)
    BY <1>1, <1>2 DEF InvDone, Dirs
  <2>1. Done(d)
    BY <1>1, <1>2 DEF Done
  <2>2. d \notin Talks[talk]
    BY <1>0, <2>1, DoneElsewhere DEF InvType
  <2>3. \A s \in Sides : results'[s][d] = results[s][d]
    BY <1>5, <2>2
  <2>4. \A w \in Team(d) : Found(d, w)' = Found(d, w)
    BY <2>3, ReceiverIs DEF Found
  <2> QED
    BY <1>0, <2>1, <2>3, <2>4 DEF InvDone, Sides
<1>12. InvOthers'
  BY <1>0, <1>2, <1>5 DEF InvOthers, Sides, Dirs
<1>13. InvShown'
  BY <1>0, <1>1, NotShown
<1>14. InvRecount'
  <2> SUFFICES ASSUME Steady, Regular
               PROVE  round' <= 2 /\ ((round' = 1 /\ Fresh') \/ (round' = 2 /\ Lasting'))
    BY <1>1, <1>2 DEF InvRecount, Steady
  <2>1. (round = 0 /\ Fresh) \/ (round = 1 /\ Lasting)
    BY <1>0 DEF InvRecount
  <2>2. round' = round + 1
    BY <1>1, <2>1 DEF Many
  <2>3. Fresh => Fresh'
    BY <1>1, <1>2 DEF Fresh
  <2>4. Lasting => Lasting'
    BY <1>1, <1>2 DEF Lasting
  <2> QED
    BY <2>1, <2>2, <2>3, <2>4
<1>15. FailsOnlyAtLimit'
  BY <1>1 DEF FailsOnlyAtLimit
<1> QED
  BY <1>2, <1>7, <1>8, <1>9, <1>10, <1>11, <1>12, <1>13, <1>14, <1>15 DEF Inv

LEMMA MinIs ==
  ASSUME NEW S \in SUBSET Nat, S # {}
  PROVE  Min(S) \in S /\ \A x \in S : Min(S) <= x
<1>1. \E m \in S : \A x \in S : m <= x
  BY LeastOf
<1> QED
  BY <1>1 DEF Min

(* What is received of n packets if l of them are lost, where there are as many. *)
LEMMA LossIs ==
  ASSUME NEW l \in Nat, NEW n \in Nat
  PROVE  n - Min({l, n}) \in Nat /\ n - Min({l, n}) <= n
<1>1. Min({l, n}) \in {l, n} /\ Min({l, n}) <= n
  BY MinIs
<1> QED
  BY <1>1

(* Both kinds of streams are rounds, in which nobody receives more than is sent,
   and who receives nothing has waited in vain from the start.                *)
LEMMA StreamIs ==
  ASSUME Inv, SteadyStream \/ FreeStream
  PROVE  /\ pc = "stream"
         /\ \E own \in [Workers -> Nat], recv \in [Workers -> Nat] :
              /\ Round(own, recv)
              /\ \A w \in Workers : recv[w] <= count[DirOf(w)]
              /\ \A w \in Workers : recv[w] = 0 => own[w] = 0
              /\ Steady => \A w \in Workers : /\ own[w] = (count[DirOf(w)] * link[w]) \div 10
                                              /\ recv[w] = count[DirOf(w)]
<1>0. InvConfig /\ InvType /\ InvCounts /\ pc = "stream"
  BY DEF Inv, SteadyStream, FreeStream
<1>1. \A w \in Workers : DirOf(w) \in Talks[talk] /\ DirOf(w) \in Dirs
  BY <1>0, DirOfIs, TalksAre DEF InvType
<1>2. \A w \in Workers : count[DirOf(w)] \in Nat /\ count[DirOf(w)] >= CountDefault
  BY <1>0, <1>1 DEF InvType, InvCounts, Admissible
<1>3. CASE SteadyStream
  <2> DEFINE own == [w \in Workers |-> (count[DirOf(w)] * link[w]) \div 10]
             recv == [w \in Workers |-> count[DirOf(w)]]
  <2>1. Round(own, recv) /\ Steady
    BY <1>3 DEF SteadyStream
  <2>2. recv \in [Workers -> Nat]
    BY <1>2
  <2>3. own \in [Workers -> Nat]
    <3> SUFFICES ASSUME NEW w \in Workers
                 PROVE  (count[DirOf(w)] * link[w]) \div 10 \in Nat
      OBVIOUS
    <3>1. link[w] \in Nat
      BY <1>0, LinkType
    <3>2. count[DirOf(w)] * link[w] \in Nat
      BY <1>2, <3>1, Product
    <3> QED
      BY <3>2, DivIs
  <2>4. \A w \in Workers : /\ own[w] = (count[DirOf(w)] * link[w]) \div 10
                           /\ recv[w] = count[DirOf(w)] /\ recv[w] <= count[DirOf(w)]
    BY <1>2
  <2>5. \A w \in Workers : recv[w] # 0
    BY <1>2, RecountAssumption
  <2> HIDE DEF own, recv
  <2> QED
    BY <1>0, <2>1, <2>2, <2>3, <2>4, <2>5
<1>4. CASE FreeStream
  <2>1. PICK stream \in [Workers -> Streams] :
          LET Lost(w) == Min({stream[w][2], count[DirOf(w)]})
              recv == [w \in Workers |-> count[DirOf(w)] - Lost(w)]
          IN  Round([w \in Workers |-> IF recv[w] = 0 THEN 0 ELSE stream[w][1]], recv)
    BY <1>4 DEF FreeStream
  <2>2. \A w \in Workers : stream[w][1] \in Nat /\ stream[w][2] \in Nat
    BY MeasureAssumption
  <2> DEFINE recv == [w \in Workers |-> count[DirOf(w)] - Min({stream[w][2], count[DirOf(w)]})]
             own == [w \in Workers |-> IF recv[w] = 0 THEN 0 ELSE stream[w][1]]
  <2>3. Round(own, recv)
    BY <2>1
  <2>4. recv \in [Workers -> Nat] /\ \A w \in Workers : recv[w] <= count[DirOf(w)]
    BY <1>2, <2>2, LossIs
  <2> HIDE DEF recv
  <2>5. own \in [Workers -> Nat] /\ \A w \in Workers : recv[w] = 0 => own[w] = 0
    BY <2>2
  <2>6. ~Steady
    BY <1>4 DEF FreeStream
  <2> HIDE DEF own
  <2> QED
    BY <1>0, <2>3, <2>4, <2>5, <2>6
<1> QED
  BY <1>3, <1>4

LEMMA StreamStep ==
  ASSUME Inv, SteadyStream \/ FreeStream
  PROVE  Inv'
<1>1. pc = "stream"
  BY StreamIs
<1>2. PICK own \in [Workers -> Nat], recv \in [Workers -> Nat] :
        /\ Round(own, recv)
        /\ \A w \in Workers : recv[w] <= count[DirOf(w)]
        /\ Steady => \A w \in Workers : /\ own[w] = (count[DirOf(w)] * link[w]) \div 10
                                        /\ recv[w] = count[DirOf(w)]
  BY StreamIs
<1> QED
  BY <1>1, <1>2, RoundStep

-----------------------------------------------------------------------------
(* The other steps. *)

(* The results stay, and so does what they say of the directions that have one. *)
LEMMA ResultsStay ==
  ASSUME InvConfig, InvType, InvDone, InvOthers, pc # "report", pc' # "report",
         cfg' = cfg, talk' = talk, results' = results
  PROVE  InvDone' /\ InvOthers'
<1>1. /\ Workers' = Workers /\ Talks' = Talks /\ \A d : Team(d)' = Team(d)
      /\ Dirs' = Dirs /\ Sides' = Sides
  BY Frame DEF Dirs, Sides
<1>2. \A d : Done(d)' => Done(d)
  BY <1>1 DEF Done
<1>3. \A d, w : Found(d, w)' = Found(d, w)
  BY DEF Found
<1>4. InvDone'
  <2> SUFFICES ASSUME NEW d \in Dirs, Done(d)'
               PROVE  /\ results'["listener"][d] = results'["connector"][d]
                      /\ \E w \in Team(d) : ~Weak(Found(d, w)'.duration, cfg.minTime)
    BY <1>1 DEF InvDone
  <2> QED
    BY <1>2, <1>3 DEF InvDone
<1>5. InvOthers'
  BY <1>1 DEF InvOthers
<1> QED
  BY <1>4, <1>5

LEMMA BeginStep ==
  ASSUME Inv, Begin
  PROVE  Inv'
<1>0. InvConfig /\ InvType /\ InvDone /\ InvOthers /\ InvShown
  BY DEF Inv
<1>1. /\ pc = "begin" /\ pc' = "stream" /\ round' = 0 /\ cfg' = cfg /\ link' = link
      /\ talk' = talk /\ busy' = busy /\ results' = results /\ shown' = shown
      /\ count' = [d \in Dirs |-> IF d \in Talks[talk] THEN CountDefault ELSE count[d]]
  BY DEF Begin
<1>2. /\ Workers' = Workers /\ Silent' = Silent /\ Talks' = Talks /\ InvConfig'
  BY <1>0, <1>1, Frame
<1>3. Talks[talk] \subseteq Dirs
  BY <1>0, TalksAre DEF InvType
<1>4. CountDefault \in Nat /\ CountDefault < CountMax /\ CountMax \in Nat
  BY RecountAssumption
<1>5. Fresh'
  BY <1>1, <1>2, <1>3 DEF Fresh
<1>6. InvType'
  <2>1. count' \in [Dirs -> Nat]
    BY <1>0, <1>1, <1>4 DEF InvType
  <2>2. 0 \in 0 .. Many
    BY DEF Many
  <2> QED
    BY <1>0, <1>1, <1>2, <2>1, <2>2 DEF InvType
<1>7. InvCounts'
  BY <1>1, <1>2, <1>4, <1>5 DEF InvCounts, Fresh, Admissible
<1>8. InvRound' /\ InvSteady' /\ FailsOnlyAtLimit'
  BY <1>1 DEF InvRound, InvSteady, FailsOnlyAtLimit
<1>9. InvDone' /\ InvOthers'
  BY <1>0, <1>1, ResultsStay
<1>10. InvShown'
  BY <1>0, <1>1, NotShown
<1>11. InvRecount'
  BY <1>1, <1>5 DEF InvRecount
<1> QED
  BY <1>2, <1>6, <1>7, <1>8, <1>9, <1>10, <1>11 DEF Inv

(* A restart on a steady link is the first one: what lasts is not weak. *)
LEMMA SteadyRestart ==
  ASSUME Inv, pc = "decide", NeedsRestart, Steady, Regular
  PROVE  round = 1 /\ Fresh
<1>0. InvConfig /\ InvType /\ InvCounts /\ InvRound /\ InvSteady /\ InvRecount
  BY DEF Inv
<1>1. Talks[talk] \subseteq Dirs
  BY <1>0, TalksAre DEF InvType
<1>2. cfg.minTime \in Nat /\ ~Overflows(cfg.minTime) /\ cfg.minTime * Second \in Nat
  <2>1. cfg.minTime \in Nat
    BY <1>0, MeasureAssumption DEF InvConfig, Configs
  <2> QED
    BY <2>1, ThresholdIs DEF Regular
<1> SUFFICES ASSUME Lasting
             PROVE  FALSE
  BY <1>0 DEF InvRecount
<1>3. PICK d \in Talks[talk] : AllWeak(d)
  BY DEF NeedsRestart
<1>4. PICK w \in Team(d) : (count[d] * link[w]) \div 10 >= cfg.minTime * Second
  BY DEF Lasting
<1>5. PICK m \in Team(d) : \A u \in Team(d) :
        /\ Found(d, u).duration = (count[d] * link[m]) \div 10
        /\ (count[d] * link[u]) \div 10 <= (count[d] * link[m]) \div 10
  BY <1>0, SteadyIs
<1>6. w \in Workers /\ d \in Dirs
  BY <1>0, <1>1, TeamIs
<1>7. Found(d, w).duration \in Nat
  BY <1>0, <1>6, FoundType
<1>8. Found(d, w).duration < cfg.minTime * Second
  <2>1. Weak(Found(d, w).duration, cfg.minTime)
    BY <1>3 DEF AllWeak
  <2> QED
    BY <1>2, <1>7, <2>1, WeakIs
<1>9. busy[w] = (count[d] * link[w]) \div 10 /\ busy[w] \in Nat
  BY <1>0, <1>6 DEF InvSteady, InvType
<1> DEFINE x == (count[d] * link[w]) \div 10
           y == (count[d] * link[m]) \div 10
           T == cfg.minTime * Second
<1>10. x \in Nat /\ y \in Nat /\ T \in Nat /\ x >= T /\ x <= y /\ y < T
  BY <1>2, <1>4, <1>5, <1>7, <1>8, <1>9
<1> HIDE DEF x, y, T
<1> QED
  BY <1>10

Raised(d, t) == Multiplied(count[d], t, cfg.minTime, cfg.countMul, cfg.async)

(* The counts after a restart: those of weak directions are raised. *)
LEMMA RestartCounts ==
  ASSUME InvConfig, InvType, InvCounts, pc = "decide",
         NEW last \in [Talks[talk] -> Workers],
         \A d \in Talks[talk] : last[d] \in Team(d),
         count' = [d \in Dirs |->
            IF d \in Talks[talk] /\ AllWeak(d)
            THEN Multiplied(count[d], Found(d, last[d]).duration, cfg.minTime, cfg.countMul, cfg.async)
            ELSE count[d]]
  PROVE  /\ count' \in [Dirs -> Nat]
         /\ \A d \in Talks[talk] : AllWeak(d) =>
              count'[d] = Raised(d, Found(d, last[d]).duration) /\ count'[d] > count[d]
         /\ \A d \in Dirs : ~(d \in Talks[talk] /\ AllWeak(d)) => count'[d] = count[d]
<1>1. Talks[talk] \subseteq Dirs
  BY TalksAre DEF InvType
<1>2. cfg.minTime \in Nat /\ cfg.countMul \in Nat \ {1}
  BY MeasureAssumption DEF InvConfig, Configs
<1>3. \A d \in Talks[talk] :
        LET c == Raised(d, Found(d, last[d]).duration) IN c \in Nat /\ c > count[d]
  <2> SUFFICES ASSUME NEW d \in Talks[talk]
               PROVE  LET c == Raised(d, Found(d, last[d]).duration) IN c \in Nat /\ c > count[d]
    OBVIOUS
  <2>1. count[d] \in Nat /\ 5 <= count[d]
    BY <1>1, RecountAssumption DEF InvType, InvCounts, Admissible
  <2>2. Found(d, last[d]).duration \in Nat
    BY <1>1, FoundType
  <2> QED
    BY <1>2, <2>1, <2>2, MultipliedType, RecountRaises DEF Raised
<1>4. \A d \in Dirs : count'[d] = IF d \in Talks[talk] /\ AllWeak(d)
                                  THEN Raised(d, Found(d, last[d]).duration) ELSE count[d]
  BY DEF Raised
<1>5. count' \in [Dirs -> Nat]
  <2>1. \A d \in Dirs : count'[d] \in Nat
    BY <1>3, <1>4 DEF InvType
  <2>2. count' = [d \in Dirs |-> count'[d]]
    BY <1>4
  <2> QED
    BY <2>1, <2>2
<1> QED
  BY <1>1, <1>3, <1>4, <1>5

(* What a restart on a steady link makes of one direction. *)
LEMMA SteadyRaise ==
  ASSUME Inv, pc = "decide", NeedsRestart, Steady, Regular, NEW d \in Talks[talk]
  PROVE  /\ count[d] = CountDefault
         /\ \A w \in Team(d) : (CountDefault * link[w]) \div 10 \in Nat
         /\ ~AllWeak(d) => \E w \in Team(d) :
              (CountDefault * link[w]) \div 10 >= cfg.minTime * Second
         /\ AllWeak(d) => \A u \in Team(d) :
              LET c == Raised(d, Found(d, u).duration) IN
              /\ \E w \in Team(d) : (c * link[w]) \div 10 >= cfg.minTime * Second
              /\ c >= CountMax => \A w \in Team(d) :
                   CountMax * ((CountDefault * link[w]) \div 10) * 100
                     <= CountDefault * cfg.minTime * Second * Tolerance(cfg.async)
<1>0. InvConfig /\ InvType /\ InvCounts /\ InvRound /\ InvSteady
  BY DEF Inv
<1>1. d \in Dirs
  BY <1>0, TalksAre DEF InvType
<1>2. count[d] = CountDefault
  BY SteadyRestart DEF Fresh
<1>3. cfg.minTime \in Nat /\ ~Overflows(cfg.minTime) /\ cfg.countMul = 0
  BY <1>0, MeasureAssumption DEF Regular, InvConfig, Configs
<1> DEFINE C == CountDefault
           T == cfg.minTime * Second
           x(w) == (C * link[w]) \div 10
<1>4. T \in Nat
  BY <1>3, ThresholdIs
<1>5. C \in Nat /\ 5 <= C /\ CountMax \in Nat
  BY RecountAssumption
<1>6. \A w \in Team(d) : link[w] \in Nat \ {0} /\ 10 <= C * link[w]
  <2> SUFFICES ASSUME NEW w \in Team(d)
               PROVE  link[w] \in Nat \ {0} /\ 10 <= C * link[w]
    OBVIOUS
  <2>1. w \in Workers
    BY <1>0, <1>1, TeamIs
  <2>2. link # Silent
    BY <2>1 DEF Steady, Silent
  <2>3. link[w] \in Rates
    BY <1>0, <2>1, <2>2 DEF InvType
  <2>4. Rates \subseteq Nat \ {0} /\ \A r \in Rates : CountDefault * r >= 10
    BY MeasureAssumption
  <2>5. CountDefault * link[w] \in Nat
    BY <1>5, <2>3, <2>4, Product
  <2> QED
    BY <2>3, <2>4, <2>5
<1>7. PICK m \in Team(d) : \A w \in Team(d) :
        Found(d, w).duration = x(m) /\ x(w) <= x(m)
  BY <1>0, <1>2, SteadyIs
<1>8. \A w \in Team(d) : x(w) \in Nat
  <2> SUFFICES ASSUME NEW w \in Team(d)
               PROVE  x(w) \in Nat
    OBVIOUS
  <2>1. C * link[w] \in Nat
    BY <1>5, <1>6, Product
  <2> QED
    BY <2>1, DivIs
<1>9. x(m) # 0
  <2>1. C * link[m] \in Nat /\ 10 * 1 <= C * link[m]
    BY <1>5, <1>6, <1>7, Product
  <2>2. 1 <= x(m)
    BY <2>1, DivAtLeast
  <2> QED
    BY <2>2
<1>10. \A w \in Team(d) : Weak(Found(d, w).duration, cfg.minTime) <=> x(m) < T
  <2> HIDE DEF x, T
  <2>1. x(m) \in Nat
    BY <1>7, <1>8
  <2>2. Weak(x(m), cfg.minTime) <=> x(m) < T
    BY <1>3, <2>1, WeakIs DEF T
  <2> QED
    BY <1>7, <2>2
<1>11. ASSUME ~AllWeak(d)
       PROVE  \E w \in Team(d) : x(w) >= T
  <2> HIDE DEF x, T
  <2>1. ~(x(m) < T)
    BY <1>10, <1>11 DEF AllWeak
  <2> QED
    BY <1>4, <1>7, <1>8, <2>1
<1>12. ASSUME AllWeak(d), NEW u \in Team(d)
       PROVE  LET c == Raised(d, Found(d, u).duration) IN
              /\ \E w \in Team(d) : (c * link[w]) \div 10 >= T
              /\ c >= CountMax => \A w \in Team(d) :
                   CountMax * x(w) * 100 <= C * cfg.minTime * Second * Tolerance(cfg.async)
  <2> DEFINE c == Raised(d, Found(d, u).duration)
  <2>1. x(m) < T
    BY <1>7, <1>10, <1>12 DEF AllWeak
  <2>2. c = Multiplied(C, x(m), cfg.minTime, 0, cfg.async)
    BY <1>2, <1>3, <1>7 DEF Raised
  <2>3. (c * link[m]) \div 10 >= T
    BY <1>3, <1>5, <1>6, <1>7, <2>1, <2>2, RecountSuffices
  <2>4. /\ c \in Nat /\ C * T * Tolerance(cfg.async) \in Nat
        /\ (x(m) * 100) * c <= C * T * Tolerance(cfg.async)
    <3> HIDE DEF x
    <3>1. x(m) \in Nat \ {0}
      BY <1>7, <1>8, <1>9
    <3> QED
      BY <1>3, <1>5, <2>1, <2>2, <3>1, MultipliedIs
  <2> HIDE DEF c, x
  <2>5. ASSUME c >= CountMax, NEW w \in Team(d)
        PROVE  CountMax * x(w) * 100 <= C * cfg.minTime * Second * Tolerance(cfg.async)
    <3>1. x(w) \in Nat /\ x(m) \in Nat /\ x(w) <= x(m)
      BY <1>7, <1>8, <2>5
    <3>2. CountMax * x(w) <= c * x(w)
      BY <1>5, <2>4, <2>5, <3>1, Monotonic
    <3>3. x(w) * c <= x(m) * c
      BY <2>4, <3>1, Monotonic
    <3>4. CountMax * x(w) \in Nat /\ x(w) * c \in Nat /\ x(m) * c \in Nat /\ c * x(w) = x(w) * c
      BY <1>5, <2>4, <3>1, Product
    <3>5. CountMax * x(w) <= x(m) * c
      BY <3>2, <3>3, <3>4
    <3>6. (x(m) * 100) * c = 100 * (x(m) * c)
      BY <2>4, <3>1
    <3>7. C * cfg.minTime * Second * Tolerance(cfg.async) = C * T * Tolerance(cfg.async)
      <4>1. Second \in Nat /\ cfg.minTime \in Nat
        BY <1>3, RecountAssumption
      <4>2. (C * cfg.minTime) * Second = C * (cfg.minTime * Second)
        BY <1>5, <4>1
      <4> QED
        BY <4>2
    <3> DEFINE p == CountMax * x(w)
               q == x(m) * c
               g == C * T * Tolerance(cfg.async)
    <3>8. p \in Nat /\ q \in Nat /\ g \in Nat /\ p <= q /\ 100 * q <= g
      BY <2>4, <3>4, <3>5, <3>6
    <3> HIDE DEF p, q, g
    <3>9. p * 100 <= g
      BY <3>8
    <3> QED
      BY <3>7, <3>9 DEF p, g
  <2> QED
    BY <1>7, <2>3, <2>5 DEF c
<1> QED
  BY <1>2, <1>8, <1>11, <1>12

LEMMA RestartStep ==
  ASSUME Inv, Restart
  PROVE  Inv'
<1>0. InvConfig /\ InvType /\ InvCounts /\ InvDone /\ InvOthers /\ InvShown /\ InvRecount
  BY DEF Inv
<1>1. /\ pc = "decide" /\ NeedsRestart
      /\ pc' = IF \A d \in Talks[talk] : Admissible(count'[d]) THEN "stream" ELSE "failed"
      /\ busy' = Silent /\ cfg' = cfg /\ link' = link /\ talk' = talk /\ round' = round
      /\ results' = results /\ shown' = shown
  BY DEF Restart
<1>2. PICK last \in [Talks[talk] -> Workers] :
        /\ \A d \in Talks[talk] : last[d] \in Team(d)
        /\ count' = [d \in Dirs |->
             IF d \in Talks[talk] /\ AllWeak(d)
             THEN Multiplied(count[d], Found(d, last[d]).duration, cfg.minTime, cfg.countMul, cfg.async)
             ELSE count[d]]
  BY DEF Restart
<1>3. /\ count' \in [Dirs -> Nat]
      /\ \A d \in Talks[talk] : AllWeak(d) =>
           count'[d] = Raised(d, Found(d, last[d]).duration) /\ count'[d] > count[d]
      /\ \A d \in Dirs : ~(d \in Talks[talk] /\ AllWeak(d)) => count'[d] = count[d]
  BY <1>0, <1>1, <1>2, RestartCounts
<1>4. /\ Workers' = Workers /\ Silent' = Silent /\ Talks' = Talks /\ Regular' = Regular
      /\ \A d : Team(d)' = Team(d)
      /\ InvConfig'
  BY <1>0, <1>1, Frame
<1>5. Talks[talk] \subseteq Dirs
  BY <1>0, TalksAre DEF InvType
<1>6. pc' \in {"stream", "failed"}
  BY <1>1
<1>7. InvType'
  <2>1. busy' \in [Workers -> Nat]
    BY <1>1 DEF Silent
  <2> QED
    BY <1>0, <1>1, <1>3, <1>4, <1>6, <2>1 DEF InvType
<1>8. InvCounts'
  BY <1>1, <1>4, <1>6 DEF InvCounts
<1>9. InvRound' /\ InvSteady'
  BY <1>6 DEF InvRound, InvSteady
<1>10. InvDone' /\ InvOthers'
  BY <1>0, <1>1, <1>6, ResultsStay
<1>11. InvShown'
  BY <1>0, <1>1, NotShown
<1>12. Steady' = Steady
  BY <1>1, <1>4 DEF Steady
<1>13. InvRecount'
  <2> SUFFICES ASSUME Steady, Regular
               PROVE  round' = 1 /\ Lasting'
    BY <1>4, <1>6, <1>12 DEF InvRecount
  <2>1. round' = 1
    BY <1>1, SteadyRestart
  <2> SUFFICES ASSUME NEW d \in Talks[talk]
               PROVE  \E w \in Team(d) : (count'[d] * link[w]) \div 10 >= cfg.minTime * Second
    BY <1>1, <1>4, <2>1 DEF Lasting
  <2>2. CASE AllWeak(d)
    BY <1>1, <1>2, <1>3, <2>2, SteadyRaise
  <2>3. CASE ~AllWeak(d)
    <3>1. count'[d] = CountDefault
      BY <1>1, <1>3, <1>5, <2>3, SteadyRaise
    <3> QED
      BY <1>1, <2>3, <3>1, SteadyRaise
  <2> QED
    BY <2>2, <2>3
<1>14. FailsOnlyAtLimit'
  <2> SUFFICES ASSUME pc' = "failed", Steady, Regular
               PROVE  \E d \in Talks[talk] : \A w \in Team(d) :
                        CountMax * ((CountDefault * link[w]) \div 10) * 100
                          <= CountDefault * cfg.minTime * Second * Tolerance(cfg.async)
    BY <1>1, <1>4, <1>12 DEF FailsOnlyAtLimit
  <2>1. PICK d \in Talks[talk] : ~Admissible(count'[d])
    BY <1>1
  <2>2. count[d] = CountDefault /\ Admissible(count[d])
    BY <1>0, <1>1, SteadyRaise DEF InvCounts
  <2>3. AllWeak(d)
    BY <1>3, <1>5, <2>1, <2>2
  <2>4. count'[d] \in Nat /\ count'[d] > CountDefault
    BY <1>3, <1>5, <2>2, <2>3
  <2>5. count'[d] >= CountMax
    BY <2>1, <2>4, RecountAssumption DEF Admissible
  <2>6. last[d] \in Team(d) /\ Raised(d, Found(d, last[d]).duration) >= CountMax
    BY <1>2, <1>3, <2>3, <2>5
  <2>7. \A u \in Team(d) : Raised(d, Found(d, u).duration) >= CountMax =>
          \A w \in Team(d) :
            CountMax * ((CountDefault * link[w]) \div 10) * 100
              <= CountDefault * cfg.minTime * Second * Tolerance(cfg.async)
    BY <1>1, <2>3, SteadyRaise
  <2> QED
    BY <2>6, <2>7
<1> QED
  BY <1>4, <1>7, <1>8, <1>9, <1>10, <1>11, <1>13, <1>14 DEF Inv

(* What is sent of a result is the result: it fits into 32 bits. *)
LEMMA ExchangedIs ==
  ASSUME NEW r \in Collected
  PROVE  Exchanged(r) = r
<1>1. Mod32 \in Nat \ {0}
  BY ReportAssumption
<1>2. /\ r.latency \in Nat /\ r.latency < Mod32 /\ r.count \in Nat /\ r.count < Mod32
      /\ r.recv \in Nat /\ r.recv < Mod32
  BY <1>1 DEF Collected, Small
<1>3. r.latency % Mod32 = r.latency /\ r.count % Mod32 = r.count /\ r.recv % Mod32 = r.recv
  BY <1>1, <1>2, ModSmall
<1> QED
  BY <1>3 DEF Exchanged, Collected

LEMMA ExchangeIs ==
  ASSUME InvConfig, InvType, InvOthers, ExchangeReports
  PROVE  /\ results' \in [Sides -> [Dirs -> [Workers -> Collected]]]
         /\ \A s \in Sides : \A d \in Dirs \ Talks[talk] : results'[s][d] = results[s][d]
         /\ \A d \in Dirs : results'[Receiver(d)][d] = results[Receiver(d)][d]
         /\ \A d \in Talks[talk] : \A s \in Sides : results'[s][d] = results[Receiver(d)][d]
         /\ \A s \in Sides : \A d \in Dirs : \A w \in Workers \ Team(d) :
              results'[s][d][w] = Nothing
<1> DEFINE Cell(s, d, w) == IF d \in Talks[talk] /\ w \in Team(d) /\ ~Download(s, d)
                            THEN Exchanged(Found(d, w)) ELSE results[s][d][w]
<1>1. results' = [s \in Sides |-> [d \in Dirs |-> [w \in Workers |-> Cell(s, d, w)]]]
  BY DEF ExchangeReports
<1>2. Talks[talk] \subseteq Dirs
  BY TalksAre DEF InvType
<1>3. \A s \in Sides : \A d \in Dirs : \A w \in Workers :
        /\ d \in Talks[talk] /\ w \in Team(d) => Cell(s, d, w) = results[Receiver(d)][d][w]
        /\ ~(d \in Talks[talk] /\ w \in Team(d)) => Cell(s, d, w) = results[s][d][w]
        /\ Cell(Receiver(d), d, w) = results[Receiver(d)][d][w]
  <2> SUFFICES ASSUME NEW s \in Sides, NEW d \in Dirs, NEW w \in Workers
               PROVE  /\ d \in Talks[talk] /\ w \in Team(d) =>
                           Cell(s, d, w) = results[Receiver(d)][d][w]
                      /\ ~(d \in Talks[talk] /\ w \in Team(d)) =>
                           Cell(s, d, w) = results[s][d][w]
                      /\ Cell(Receiver(d), d, w) = results[Receiver(d)][d][w]
    OBVIOUS
  <2>1. Exchanged(Found(d, w)) = results[Receiver(d)][d][w]
    BY FoundType, ExchangedIs DEF Found
  <2> QED
    BY <2>1, ReceiverIs
<1> HIDE DEF Cell
<1>4. \A d \in Dirs : Receiver(d) \in Sides
  BY ReceiverIs
<1>5. \A s \in Sides : \A d \in Dirs : results[s][d] = [w \in Workers |-> results[s][d][w]]
  BY DEF InvType
<1>6. \A s \in Sides : \A d \in Dirs : \A w \in Workers : results[s][d][w] \in Collected
  BY DEF InvType
<1>7. \A s \in Sides : \A d \in Dirs : \A w \in Workers : Cell(s, d, w) \in Collected
  BY <1>3, <1>4, <1>6
<1>8. \A s \in Sides : \A d \in Dirs : results'[s][d] = [w \in Workers |-> Cell(s, d, w)]
  BY <1>1
<1>9. results' \in [Sides -> [Dirs -> [Workers -> Collected]]]
  BY <1>1, <1>7
<1>row. ASSUME NEW s \in Sides, NEW t \in Sides, NEW d \in Dirs,
               \A w \in Workers : Cell(s, d, w) = results[t][d][w]
        PROVE  results'[s][d] = results[t][d]
  <2>1. results'[s][d] = [w \in Workers |-> Cell(s, d, w)]
    BY <1>8
  <2>2. results[t][d] = [w \in Workers |-> results[t][d][w]]
    BY <1>5
  <2> DEFINE g == results[t][d]
  <2> HIDE DEF g
  <2>3. \A w \in Workers : Cell(s, d, w) = g[w]
    BY <1>row DEF g
  <2>4. [w \in Workers |-> Cell(s, d, w)] = [w \in Workers |-> g[w]]
    BY <2>3
  <2>5. g = [w \in Workers |-> g[w]]
    BY <2>2 DEF g
  <2> QED
    BY <2>1, <2>4, <2>5 DEF g
<1>10. \A s \in Sides : \A d \in Dirs \ Talks[talk] : results'[s][d] = results[s][d]
  BY <1>3, <1>row
<1>11. \A d \in Dirs : results'[Receiver(d)][d] = results[Receiver(d)][d]
  BY <1>3, <1>4, <1>row
<1>12. \A d \in Talks[talk] : \A s \in Sides : results'[s][d] = results[Receiver(d)][d]
  <2> SUFFICES ASSUME NEW d \in Talks[talk], NEW s \in Sides
               PROVE  results'[s][d] = results[Receiver(d)][d]
    OBVIOUS
  <2>1. \A w \in Workers : Cell(s, d, w) = results[Receiver(d)][d][w]
    BY <1>2, <1>3, <1>4 DEF InvOthers
  <2> QED
    BY <1>2, <1>4, <2>1, <1>row
<1>13. \A s \in Sides : \A d \in Dirs : \A w \in Workers \ Team(d) :
         results'[s][d][w] = Nothing
  <2> SUFFICES ASSUME NEW s \in Sides, NEW d \in Dirs, NEW w \in Workers \ Team(d)
               PROVE  results'[s][d][w] = Nothing
    OBVIOUS
  <2>1. results'[s][d][w] = Cell(s, d, w)
    BY <1>8
  <2>2. Cell(s, d, w) = results[s][d][w]
    BY <1>3
  <2> QED
    BY <2>1, <2>2 DEF InvOthers
<1> QED
  BY <1>9, <1>10, <1>11, <1>12, <1>13

LEMMA AcceptStep ==
  ASSUME Inv, Accept
  PROVE  Inv'
<1>0. InvConfig /\ InvType /\ InvDone /\ InvOthers /\ InvShown /\ InvRecount
  BY DEF Inv
<1>1. /\ pc = "decide" /\ ~NeedsRestart /\ ExchangeReports /\ busy' = Silent
      /\ cfg' = cfg /\ link' = link /\ round' = round /\ count' = count /\ shown' = shown
  BY DEF Accept
<1>2. \/ talk < Len(Talks) /\ talk' = talk + 1 /\ pc' = "begin"
      \/ ~(talk < Len(Talks)) /\ talk' = talk /\ pc' = "report"
  BY DEF Accept
<1>3. /\ Workers' = Workers /\ Silent' = Silent /\ Talks' = Talks /\ Regular' = Regular
      /\ \A d : Team(d)' = Team(d)
      /\ InvConfig'
  BY <1>0, <1>1, Frame
<1>4. /\ Talks[talk] \subseteq Dirs /\ Len(Talks) \in Nat /\ DOMAIN Talks = 1 .. Len(Talks)
      /\ talk \in 1 .. Len(Talks)
  BY <1>0, TalksAre DEF InvType
<1>5. /\ results' \in [Sides -> [Dirs -> [Workers -> Collected]]]
      /\ \A s \in Sides : \A d \in Dirs \ Talks[talk] : results'[s][d] = results[s][d]
      /\ \A d \in Dirs : results'[Receiver(d)][d] = results[Receiver(d)][d]
      /\ \A d \in Talks[talk] : \A s \in Sides : results'[s][d] = results[Receiver(d)][d]
      /\ \A s \in Sides : \A d \in Dirs : \A w \in Workers \ Team(d) :
           results'[s][d][w] = Nothing
  BY <1>0, <1>1, ExchangeIs
<1>6. pc' \in {"begin", "report"}
  BY <1>2
<1>7. InvType'
  <2>1. busy' \in [Workers -> Nat]
    BY <1>1 DEF Silent
  <2>2. talk' \in DOMAIN Talks
    BY <1>2, <1>4
  <2> QED
    BY <1>0, <1>1, <1>3, <1>5, <1>6, <2>1, <2>2 DEF InvType
<1>8. InvCounts' /\ InvRound' /\ InvSteady' /\ FailsOnlyAtLimit'
  BY <1>6 DEF InvCounts, InvRound, InvSteady, FailsOnlyAtLimit
<1>9. InvDone'
  <2> SUFFICES ASSUME NEW d \in Dirs, Done(d)'
               PROVE  /\ results'["listener"][d] = results'["connector"][d]
                      /\ \E w \in Team(d) : ~Weak(Found(d, w)'.duration, cfg.minTime)
    BY <1>1, <1>3 DEF InvDone, Dirs
  <2>1. \A w : Found(d, w)' = Found(d, w)
    BY <1>5 DEF Found
  <2>2. PICK k \in 1 .. Len(Talks) : d \in Talks[k] /\ (k < talk' \/ pc' = "report")
    BY <1>3, <1>4 DEF Done
  <2>3. k < talk \/ k = talk
    BY <1>2, <1>4, <2>2
  <2>4. CASE d \in Talks[talk]
    <3>1. results'["listener"][d] = results'["connector"][d]
      BY <1>5, <2>4 DEF Sides
    <3>2. ~AllWeak(d)
      BY <1>1, <2>4 DEF NeedsRestart
    <3> QED
      BY <2>1, <3>1, <3>2 DEF AllWeak
  <2>5. CASE d \notin Talks[talk]
    <3>1. Done(d)
      BY <1>4, <2>2, <2>3, <2>5 DEF Done
    <3>2. \A s \in Sides : results'[s][d] = results[s][d]
      BY <1>5, <2>5
    <3> QED
      BY <1>0, <2>1, <3>1, <3>2 DEF InvDone, Sides
  <2> QED
    BY <2>4, <2>5
<1>10. InvOthers'
  BY <1>3, <1>5 DEF InvOthers, Sides, Dirs
<1>11. InvShown'
  BY <1>0, <1>1, NotShown
<1>12. InvRecount'
  <2>1. Steady' = Steady
    BY <1>1, <1>3 DEF Steady
  <2> QED
    BY <1>0, <1>1, <1>3, <1>6, <2>1 DEF InvRecount
<1> QED
  BY <1>3, <1>7, <1>8, <1>9, <1>10, <1>11, <1>12 DEF Inv

LEMMA TwoShown ==
  <<0>> \o <<1>> = <<0, 1>>
<1> DEFINE s == <<0>> \o <<1>>
           t == <<0, 1>>
<1>1. s \in Seq(Nat) /\ t \in Seq(Nat)
  OBVIOUS
<1>2. Len(s) = 2 /\ s[1] = 0 /\ s[2] = 1
  OBVIOUS
<1>3. Len(t) = 2 /\ t[1] = 0 /\ t[2] = 1
  OBVIOUS
<1> HIDE DEF s, t
<1>4. \A i \in 1 .. Len(s) : s[i] = t[i]
  BY <1>2, <1>3
<1>5. s = t
  BY <1>1, <1>2, <1>3, <1>4, SeqEqual
<1> QED
  BY <1>5 DEF s, t

LEMMA ShownIs ==
  ASSUME InvConfig
  PROVE  /\ DOMAIN Shown(cfg) = 1 .. Len(Shown(cfg)) /\ Len(Shown(cfg)) \in {1, 2}
         /\ {Shown(cfg)[i] : i \in DOMAIN Shown(cfg)} = UNION {Talks[k] : k \in DOMAIN Talks}
         /\ \A i \in DOMAIN Shown(cfg) : Shown(cfg)[i] \in Dirs
<1>0. /\ cfg.async \in BOOLEAN /\ cfg.bidirectional \in BOOLEAN /\ cfg.reverseFirst \in BOOLEAN
      /\ cfg.async => cfg.bidirectional /\ ~cfg.reverseFirst
  BY DEF InvConfig, Configs
<1> DEFINE All == UNION {Talks[k] : k \in DOMAIN Talks}
<1>1. CASE cfg.bidirectional
  <2>1. Shown(cfg) = <<0, 1>>
    <3>1. Shown(cfg) = <<0>> \o <<1>>
      BY <1>1, Zenon DEF Shown
    <3> QED
      BY <3>1, TwoShown
  <2>2. All = Dirs
    <3>1. CASE cfg.async
      <4>1. Talks = <<Dirs>>
        BY <3>1 DEF Talks
      <4> QED
        BY <4>1
    <3>2. CASE ~cfg.async
      <4>1. Talks = <<{First}, {1 - First}>>
        BY <1>1, <3>2 DEF Talks
      <4>2. Talks[1] = {First} /\ Talks[2] = {1 - First} /\ DOMAIN Talks = {1, 2}
        BY <4>1
      <4>3. {First} \cup {1 - First} = Dirs
        BY DEF First, Dirs
      <4> QED
        BY <4>2, <4>3
    <3> QED
      BY <3>1, <3>2
  <2> QED
    BY <2>1, <2>2 DEF Dirs
<1>2. CASE ~cfg.bidirectional
  <2>1. Shown(cfg) = <<First>>
    <3>1. <<0>> \o <<>> = <<0>> /\ <<>> \o <<1>> = <<1>>
      OBVIOUS
    <3>2. CASE cfg.reverseFirst
      <4>1. Shown(cfg) = <<>> \o <<1>>
        BY <1>2, <3>2, Zenon DEF Shown
      <4> QED
        BY <3>1, <3>2, <4>1, Zenon DEF First
    <3>3. CASE ~cfg.reverseFirst
      <4>1. Shown(cfg) = <<0>> \o <<>>
        BY <1>2, <3>3, Zenon DEF Shown
      <4> QED
        BY <3>1, <3>3, <4>1, Zenon DEF First
    <3> QED
      BY <1>0, <3>2, <3>3
  <2>2. Talks = <<{First}>>
    BY <1>0, <1>2 DEF Talks
  <2>3. First \in Dirs
    BY DEF First, Dirs
  <2> QED
    BY <2>1, <2>2, <2>3
<1> QED
  BY <1>1, <1>2

LEMMA ReportStep ==
  ASSUME Inv, NEW s \in Sides, ProcessReport(s)
  PROVE  Inv'
<1>0. InvConfig /\ InvType /\ InvShown
  BY DEF Inv
<1>1. /\ pc = "report" /\ cfg' = cfg /\ link' = link /\ pc' = pc /\ talk' = talk
      /\ round' = round /\ count' = count /\ busy' = busy /\ results' = results
  BY DEF ProcessReport
<1> DEFINE Sections0 == [i \in DOMAIN Shown(cfg) |->
              Section(s, Shown(cfg)[i], Combine(results[s][Shown(cfg)[i]], cfg.async))]
           Found0 == [i \in DOMAIN Shown(cfg) |->
              Section(s, Shown(cfg)[i], IF Shown(cfg)[i] = 0 THEN Combine(results[s][0], cfg.async)
                                        ELSE Combine(results[s][1], cfg.async))]
<1>2. shown' = [shown EXCEPT ![s] = Found0]
  BY DEF ProcessReport
<1>3. Found0 = Sections0
  <2>1. \A i \in DOMAIN Shown(cfg) : Shown(cfg)[i] = 0 \/ Shown(cfg)[i] = 1
    BY <1>0, ShownIs DEF Dirs
  <2> QED
    BY <2>1
<1> HIDE DEF Found0
<1>4. InvShown'
  <2> SUFFICES ASSUME NEW u \in Sides, shown'[u] # <<>>
               PROVE  shown'[u] = [i \in DOMAIN Shown(cfg) |->
                        Section(u, Shown(cfg)[i], Combine(results[u][Shown(cfg)[i]], cfg.async))]
    BY <1>1 DEF InvShown, Sides
  <2>1. CASE u = s
    BY <1>0, <1>2, <1>3, <2>1 DEF InvType
  <2>2. CASE u # s
    <3>1. shown'[u] = shown[u]
      BY <1>0, <1>2, <2>2 DEF InvType
    <3> QED
      BY <1>0, <3>1 DEF InvShown
  <2> QED
    BY <2>1, <2>2
<1>5. /\ Workers' = Workers /\ Silent' = Silent /\ Talks' = Talks /\ Regular' = Regular
      /\ \A d : Team(d)' = Team(d)
      /\ InvConfig'
  BY <1>0, <1>1, Frame
<1>6. InvType'
  <2>1. DOMAIN shown' = Sides
    BY <1>0, <1>2 DEF InvType
  <2> QED
    BY <1>0, <1>1, <1>5, <2>1 DEF InvType, Sides, Dirs
<1>7. InvCounts' /\ InvRound' /\ InvSteady' /\ FailsOnlyAtLimit'
  BY <1>1 DEF InvCounts, InvRound, InvSteady, FailsOnlyAtLimit
<1>8. InvDone' /\ InvOthers' /\ InvRecount'
  <2>1. \A d : Done(d)' = Done(d)
    BY <1>1, <1>5 DEF Done
  <2>2. \A d, w : Found(d, w)' = Found(d, w)
    BY <1>1 DEF Found
  <2>3. InvDone'
    BY <1>1, <1>5, <2>1, <2>2 DEF InvDone, Inv, Dirs
  <2>4. InvOthers'
    BY <1>1, <1>5 DEF InvOthers, Inv, Sides, Dirs
  <2>5. InvRecount'
    BY <1>1, <1>5 DEF InvRecount, Inv, Steady
  <2> QED
    BY <2>3, <2>4, <2>5
<1> QED
  BY <1>4, <1>5, <1>6, <1>7, <1>8 DEF Inv

-----------------------------------------------------------------------------
(* The invariant, and what follows from it. *)

LEMMA InitInv ==
  ASSUME Init
  PROVE  Inv
<1>1. InvConfig /\ pc = "begin" /\ talk = 1 /\ round = 0 /\ count = [d \in Dirs |-> 0]
      /\ busy = Silent /\ shown = [s \in Sides |-> <<>>]
  BY DEF Init, InvConfig, Configs
<1>2. results = [s \in Sides |-> [d \in Dirs |-> [w \in Workers |-> Nothing]]]
  BY DEF Init
<1>3. Nothing \in Collected
  BY ReportAssumption DEF Nothing, Collected, Small
<1>4. InvType
  <2>1. 1 \in DOMAIN Talks
    BY <1>1, TalksAre
  <2>2. results \in [Sides -> [Dirs -> [Workers -> Collected]]]
    BY <1>2, <1>3
  <2>3. busy \in [Workers -> Nat]
    BY <1>1 DEF Silent
  <2>4. link \in [Workers -> Rates] \cup {Silent}
    BY DEF Init
  <2>5. 0 \in 0 .. Many
    BY DEF Many
  <2>6. count \in [Dirs -> Nat]
    BY <1>1
  <2>7. DOMAIN shown = Sides
    BY <1>1
  <2> QED
    BY <1>1, <2>1, <2>2, <2>3, <2>4, <2>5, <2>6, <2>7 DEF InvType
<1>5. InvCounts /\ InvRound /\ InvSteady /\ InvRecount /\ FailsOnlyAtLimit
  BY <1>1 DEF InvCounts, InvRound, InvSteady, InvRecount, FailsOnlyAtLimit
<1>6. InvDone
  <2>1. \A d : ~Done(d)
    BY <1>1, TalksAre DEF Done
  <2> QED
    BY <2>1 DEF InvDone
<1>7. InvOthers
  BY <1>2 DEF InvOthers
<1>8. InvShown
  BY <1>1 DEF InvShown
<1> QED
  BY <1>1, <1>4, <1>5, <1>6, <1>7, <1>8 DEF Inv

(* The invariant is one, for every step of a test. *)
THEOREM Invariance == Spec => []Inv
<1>1. Init => Inv
  BY InitInv
<1>2. Inv /\ [Next]_vars => Inv'
  <2> SUFFICES ASSUME Inv, [Next]_vars
               PROVE  Inv'
    OBVIOUS
  <2>1. CASE Begin
    BY <2>1, BeginStep
  <2>2. CASE SteadyStream \/ FreeStream
    BY <2>2, StreamStep
  <2>3. CASE Restart
    BY <2>3, RestartStep
  <2>4. CASE Accept
    BY <2>4, AcceptStep
  <2>5. CASE \E s \in Sides : ProcessReport(s)
    BY <2>5, ReportStep
  <2>6. CASE UNCHANGED vars
    <3>1. /\ cfg' = cfg /\ link' = link /\ pc' = pc /\ talk' = talk /\ round' = round
          /\ count' = count /\ busy' = busy /\ results' = results /\ shown' = shown
      BY <2>6 DEF vars
    <3>2. /\ Workers' = Workers /\ Silent' = Silent /\ Talks' = Talks /\ Regular' = Regular
          /\ \A d : Team(d)' = Team(d)
          /\ InvConfig' = InvConfig
      BY <3>1, Frame
    <3>3. \A d, w : Found(d, w)' = Found(d, w)
      BY <3>1 DEF Found
    <3>4. Steady' = Steady
      BY <3>1, <3>2 DEF Steady
    <3>5. InvType' /\ InvCounts' /\ InvOthers' /\ InvRecount' /\ FailsOnlyAtLimit' /\ InvShown'
      <4>1. Fresh' = Fresh /\ Lasting' = Lasting
        BY <3>1, <3>2 DEF Fresh, Lasting
      <4>2. InvType' /\ InvCounts' /\ InvOthers'
        BY <3>1, <3>2 DEF Inv, InvType, InvCounts, InvOthers, Sides, Dirs
      <4>3. InvRecount'
        BY <3>1, <3>2, <3>4, <4>1 DEF Inv, InvRecount
      <4>4. FailsOnlyAtLimit'
        BY <3>1, <3>2, <3>4 DEF Inv, FailsOnlyAtLimit
      <4>5. InvShown'
        BY <3>1 DEF Inv, InvShown, Sides
      <4> QED
        BY <4>2, <4>3, <4>4, <4>5
    <3>6. InvRound' /\ InvSteady'
      <4>1. \A d : Own(d)' = Own(d) /\ Cut(d)' = Cut(d)
        BY <3>1, <3>2, <3>3 DEF Own, Cut
      <4>2. InvRound'
        BY <3>1, <3>2, <3>3, <4>1 DEF Inv, InvRound
      <4>3. InvSteady'
        BY <3>1, <3>2, <3>3, <3>4 DEF Inv, InvSteady
      <4> QED
        BY <4>2, <4>3
    <3>7. InvDone'
      <4>1. \A d : Done(d)' = Done(d)
        BY <3>1, <3>2 DEF Done
      <4> QED
        BY <3>1, <3>2, <3>3, <4>1 DEF Inv, InvDone, Dirs
    <3> QED
      BY <3>2, <3>5, <3>6, <3>7 DEF Inv
  <2> QED
    BY <2>1, <2>2, <2>3, <2>4, <2>5, <2>6 DEF Next, Progress, Ended
<1> QED
  BY <1>1, <1>2, PTL DEF Spec

(* The duration that a direction is given is never shorter than the time in which
   its packets came, longer by a timeout at most, and exact unless some but not
   all of the workers ran into their timeout: the clock is read after a barrier
   (talk.c:629-630), and the timeout is subtracted from it afterwards.        *)
THEOREM DurationsAreFair == Spec => []DurationFair
<1>1. Inv => DurationFair
  <2> SUFFICES ASSUME Inv, pc = "decide", NEW d \in Talks[talk]
               PROVE  LET came == Max({busy[w] : w \in Team(d)})
                          duration == Max({Found(d, w).duration : w \in Team(d)})
                          CutOff(w) == Found(d, w).recv < Found(d, w).count
                      IN  /\ came <= duration /\ duration <= came + StreamRun * Second
                          /\ (\A w, u \in Team(d) : CutOff(w) = CutOff(u)) => duration = came
    BY DEF DurationFair
  <2>1. InvConfig /\ InvType /\ InvRound /\ d \in Dirs
    BY TalksAre DEF Inv, InvType
  <2>2. \A w \in Team(d) : Cut(d)[w] = (Found(d, w).recv < Found(d, w).count)
    BY <2>1, OwnCut
  <2>3. (\A w, u \in Team(d) : (Found(d, w).recv < Found(d, w).count)
                                 = (Found(d, u).recv < Found(d, u).count))
          => \A w, u \in Team(d) : Cut(d)[w] = Cut(d)[u]
    BY <2>2, Zenon
  <2> QED
    BY <2>1, <2>3, RoundIs
<1> QED
  BY <1>1, Invariance, PTL

(* On a steady link a talk has at most two rounds: the recount after the first
   makes the second long enough, whatever the division of talk.c:928-943 cuts
   off, for every rate, minimum time and number of workers.                   *)
THEOREM OneRecountSuffices == Spec => []OneRecount
<1>1. Inv => OneRecount
  BY DEF Inv, InvRecount, OneRecount
<1> QED
  BY <1>1, Invariance, PTL

(* A test on a steady link is refused only where the largest count would not, or
   hardly, last for the minimum time (talk.c:328 and talk.c:954).             *)
THEOREM FailureIsJustified == Spec => []FailsOnlyAtLimit
<1>1. Inv => FailsOnlyAtLimit
  BY DEF Inv
<1> QED
  BY <1>1, Invariance, PTL

(* A restart raises the count of a direction and lowers none: no test repeats a
   round for ever (talk.c:928-954).                                           *)
THEOREM RestartsRaise == Spec => RestartRaises
<1>1. Inv /\ [Next]_vars =>
        [pc = "decide" /\ pc' # pc /\ NeedsRestart =>
           /\ \E d \in Dirs : count'[d] > count[d]
           /\ \A d \in Dirs : count'[d] >= count[d]]_vars
  <2> SUFFICES ASSUME Inv, Next, pc = "decide", pc' # pc, NeedsRestart
               PROVE  /\ \E d \in Dirs : count'[d] > count[d]
                      /\ \A d \in Dirs : count'[d] >= count[d]
    OBVIOUS
  <2>1. Restart
    BY DEF Next, Progress, Ended, Begin, SteadyStream, FreeStream, Accept, ProcessReport, vars
  <2>2. InvConfig /\ InvType /\ InvCounts
    BY DEF Inv
  <2>3. PICK last \in [Talks[talk] -> Workers] :
          /\ \A d \in Talks[talk] : last[d] \in Team(d)
          /\ count' = [d \in Dirs |->
               IF d \in Talks[talk] /\ AllWeak(d)
               THEN Multiplied(count[d], Found(d, last[d]).duration, cfg.minTime, cfg.countMul,
                               cfg.async)
               ELSE count[d]]
    BY <2>1 DEF Restart
  <2>4. /\ \A d \in Talks[talk] : AllWeak(d) => count'[d] > count[d]
        /\ \A d \in Dirs : ~(d \in Talks[talk] /\ AllWeak(d)) => count'[d] = count[d]
        /\ count' \in [Dirs -> Nat]
    BY <2>2, <2>3, RestartCounts
  <2>5. Talks[talk] \subseteq Dirs /\ count \in [Dirs -> Nat]
    BY <2>2, TalksAre DEF InvType
  <2>6. \E d \in Talks[talk] : AllWeak(d)
    BY DEF NeedsRestart
  <2> QED
    BY <2>4, <2>5, <2>6
<1> QED
  BY <1>1, Invariance, PTL DEF Spec, RestartRaises

-----------------------------------------------------------------------------
(* The report. *)

(* A section is about a direction that has its result. *)
LEMMA SectionIs ==
  ASSUME Inv, NEW s \in Sides, NEW sec \in Sections(s)
  PROVE  /\ pc = "report" /\ sec.dir \in Dirs /\ Done(sec.dir)
         /\ sec = Section(s, sec.dir, Combine(results[s][sec.dir], cfg.async))
         /\ results[s][sec.dir] = results[Receiver(sec.dir)][sec.dir]
<1>0. InvConfig /\ InvType /\ InvShown /\ InvDone
  BY DEF Inv
<1>1. PICK i \in DOMAIN shown[s] : sec = shown[s][i]
  BY DEF Sections
<1>2. shown[s] # <<>>
  BY <1>1
<1>3. /\ pc = "report"
      /\ shown[s] = [j \in DOMAIN Shown(cfg) |->
           Section(s, Shown(cfg)[j], Combine(results[s][Shown(cfg)[j]], cfg.async))]
  BY <1>0, <1>2 DEF InvShown
<1> DEFINE d == Shown(cfg)[i]
<1>4. i \in DOMAIN Shown(cfg) /\ sec = Section(s, d, Combine(results[s][d], cfg.async))
  BY <1>1, <1>3
<1>5. sec.dir = d
  BY <1>4 DEF Section
<1>6. d \in Dirs /\ d \in UNION {Talks[k] : k \in DOMAIN Talks}
  BY <1>0, <1>4, ShownIs
<1>7. Done(d)
  BY <1>3, <1>6 DEF Done
<1>8. results[s][d] = results[Receiver(d)][d]
  <2>1. results["listener"][d] = results["connector"][d]
    BY <1>0, <1>6, <1>7 DEF InvDone
  <2>2. Receiver(d) \in {"listener", "connector"} /\ s \in {"listener", "connector"}
    BY <1>6, ReceiverIs DEF Sides
  <2> QED
    BY <2>1, <2>2
<1> QED
  BY <1>3, <1>4, <1>5, <1>6, <1>7, <1>8

(* What is reported rests on a stream of at least the minimum time (-t), in every
   direction and on both sides, whatever the link did, unless the minimum does
   not fit into the int of talk.c:658.                                        *)
THEOREM ReportsAreLongEnough == Spec => []LongEnough
<1>1. Inv => LongEnough
  <2> SUFFICES ASSUME Inv, ~Overflows(cfg.minTime), NEW s \in Sides, NEW sec \in Sections(s)
               PROVE  sec.collected.duration >= cfg.minTime * Second
    BY DEF LongEnough
  <2> DEFINE d == sec.dir
             r == results[s][d]
  <2>0. InvConfig /\ InvType /\ InvDone
    BY DEF Inv
  <2>1. /\ d \in Dirs /\ Done(d) /\ sec = Section(s, d, Combine(r, cfg.async))
        /\ r = results[Receiver(d)][d]
    BY SectionIs
  <2>2. DOMAIN r = Workers /\ \A w \in Workers : r[w] \in Collected /\ r[w].duration \in Nat
    BY <2>0, <2>1 DEF InvType, Collected
  <2>3. sec.collected.duration = Max({r[w].duration : w \in DOMAIN r})
    <3> HIDE DEF r, d
    <3>1. sec.collected = Combine(r, cfg.async)
      BY <2>1 DEF Section
    <3>2. \A n : Combined(r, n).duration = Max({r[w].duration : w \in DOMAIN r})
      BY DEF Combined
    <3> QED
      BY <3>1, <3>2 DEF Combine
  <2>4. PICK w \in Team(d) : ~Weak(Found(d, w).duration, cfg.minTime)
    BY <2>0, <2>1 DEF InvDone
  <2>5. w \in Workers /\ Found(d, w) = r[w]
    BY <2>0, <2>1, TeamIs DEF Found
  <2>6. cfg.minTime \in Nat
    BY <2>0, MeasureAssumption DEF InvConfig, Configs
  <2> HIDE DEF r, d
  <2>7. ~(r[w].duration < cfg.minTime * Second) /\ cfg.minTime * Second \in Nat
    BY <2>2, <2>4, <2>5, <2>6, WeakIs, ThresholdIs
  <2> DEFINE f == [u \in Workers |-> r[u].duration]
  <2>8. f \in [Workers -> Int] /\ f[w] = r[w].duration
        /\ {f[u] : u \in Workers} = {r[u].duration : u \in DOMAIN r}
    BY <2>2, <2>5
  <2> HIDE DEF f
  <2>9. f[w] <= Max({f[u] : u \in Workers}) /\ Max({f[u] : u \in Workers}) \in Int
    <3>1. IsFiniteSet(Workers) /\ Workers # {}
      BY <2>0, WorkersAre
    <3>2. /\ \E x \in Workers : f[x] = Max({f[y] : y \in Workers})
          /\ \A x \in Workers : f[x] <= Max({f[y] : y \in Workers})
      BY <2>8, <3>1, MaxOver
    <3> QED
      BY <2>5, <2>8, <3>2
  <2>10. sec.collected.duration = Max({f[u] : u \in Workers})
    BY <2>3, <2>8, Zenon
  <2> QED
    BY <2>2, <2>5, <2>7, <2>8, <2>9, <2>10
<1> QED
  BY <1>1, Invariance, PTL

(* Both sides report the directions that were tested; what one calls download the
   other calls upload, with the same figures: the results have been exchanged
   (report.c:190-223) before process_report() combines them.                  *)
THEOREM SectionsAgree == Spec => []SectionsMatch
<1>1. Inv => SectionsMatch
  <2> SUFFICES ASSUME Inv, \A s \in Sides : shown[s] # <<>>
               PROVE  /\ \A s \in Sides : {sec.dir : sec \in Sections(s)} =
                                            UNION {Talks[k] : k \in DOMAIN Talks}
                      /\ \A a \in Sections("listener"), b \in Sections("connector") :
                           /\ (a.label = b.label) = (a.dir # b.dir)
                           /\ a.dir = b.dir => a.collected = b.collected /\ a.computed = b.computed
    BY DEF SectionsMatch
  <2>0. InvConfig /\ InvShown /\ InvDone
    BY DEF Inv
  <2>1. ASSUME NEW s \in Sides
        PROVE  {sec.dir : sec \in Sections(s)} = UNION {Talks[k] : k \in DOMAIN Talks}
    <3>1. shown[s] = [j \in DOMAIN Shown(cfg) |->
             Section(s, Shown(cfg)[j], Combine(results[s][Shown(cfg)[j]], cfg.async))]
      BY <2>0 DEF InvShown
    <3>2. DOMAIN shown[s] = DOMAIN Shown(cfg)
          /\ \A i \in DOMAIN Shown(cfg) : shown[s][i].dir = Shown(cfg)[i]
      BY <3>1 DEF Section
    <3>3. {sec.dir : sec \in Sections(s)} = {Shown(cfg)[i] : i \in DOMAIN Shown(cfg)}
      BY <3>2 DEF Sections
    <3> QED
      BY <2>0, <3>3, ShownIs
  <2>2. ASSUME NEW a \in Sections("listener"), NEW b \in Sections("connector")
        PROVE  /\ (a.label = b.label) = (a.dir # b.dir)
               /\ a.dir = b.dir => a.collected = b.collected /\ a.computed = b.computed
    <3> DEFINE x == a.dir
               y == b.dir
               p == Combine(results["listener"][x], cfg.async)
               q == Combine(results["connector"][y], cfg.async)
    <3>1. /\ x \in Dirs /\ Done(x) /\ a = Section("listener", x, p)
      BY SectionIs DEF Sides
    <3>2. /\ y \in Dirs /\ Done(y) /\ b = Section("connector", y, q)
      BY SectionIs DEF Sides
    <3>3. x = y => p = q
      BY <2>0, <3>1 DEF InvDone
    <3> HIDE DEF x, y, p, q
    <3>4. /\ a.label = (IF Download("listener", x) THEN "download" ELSE "upload")
          /\ a.collected = p /\ a.computed = Compute(p)
      BY <3>1 DEF Section
    <3>5. /\ b.label = (IF Download("connector", y) THEN "download" ELSE "upload")
          /\ b.collected = q /\ b.computed = Compute(q)
      BY <3>2 DEF Section
    <3>6. (a.label = b.label) = (x # y)
      BY <3>1, <3>2, <3>4, <3>5 DEF Download, Dirs
    <3> QED
      BY <3>3, <3>4, <3>5, <3>6 DEF x, y
  <2> QED
    BY <2>1, <2>2
<1> QED
  BY <1>1, Invariance, PTL

-----------------------------------------------------------------------------
(* The sums over the workers. *)

(* Induction, with the set of the numbers or subsets for which a fact holds. *)
LEMMA InductionOverNat ==
  ASSUME NEW Q \in SUBSET Nat, 0 \in Q, \A n \in Q : n + 1 \in Q
  PROVE  Q = Nat
<1> SUFFICES ASSUME Nat \ Q # {}
             PROVE  FALSE
  OBVIOUS
<1>1. PICK n \in Nat \ Q : \A k \in Nat \ Q : n <= k
  <2>1. Nat \ Q \in SUBSET Nat
    OBVIOUS
  <2> QED
    BY <2>1, LeastOf
<1>2. n # 0 /\ n - 1 \in Nat
  BY <1>1
<1>3. n - 1 \in Q
  BY <1>1, <1>2
<1>4. (n - 1) + 1 \in Q
  BY <1>3
<1> QED
  BY <1>1, <1>2, <1>4

(* The element that a fold takes from a set. *)
Drawn(s) == CHOOSE y \in s : TRUE

LEMMA DrawnIs ==
  ASSUME NEW s, s # {}
  PROVE  Drawn(s) \in s
BY DEF Drawn

LEMMA InductionDrawn ==
  ASSUME NEW D, IsFiniteSet(D), NEW Q \in SUBSET (SUBSET D), {} \in Q,
         \A s \in SUBSET D : s # {} /\ s \ {Drawn(s)} \in Q => s \in Q
  PROVE  \A s \in SUBSET D : s \in Q
<1> DEFINE N == {n \in Nat : \A s \in SUBSET D : Cardinality(s) = n => s \in Q}
<1>1. \A s \in SUBSET D : IsFiniteSet(s) /\ Cardinality(s) \in Nat
  BY FS_Subset, FS_CardinalityType
<1>2. 0 \in N
  BY <1>1, FS_EmptySet
<1>3. ASSUME NEW n \in N
      PROVE  n + 1 \in N
  <2> SUFFICES ASSUME NEW s \in SUBSET D, Cardinality(s) = n + 1
               PROVE  s \in Q
    OBVIOUS
  <2>1. s # {}
    <3>1. Cardinality({}) = 0 /\ n \in Nat
      BY FS_EmptySet
    <3> QED
      BY <3>1
  <2>2. Drawn(s) \in s
    BY <2>1, DrawnIs
  <2>3. Cardinality(s \ {Drawn(s)}) = n
    <3>1. Cardinality(s \ {Drawn(s)}) = Cardinality(s) - 1
      BY <1>1, <2>2, FS_RemoveElement
    <3> QED
      BY <3>1
  <2>4. s \ {Drawn(s)} \in Q
    BY <2>3
  <2> QED
    BY <2>1, <2>4
<1> HIDE DEF N
<1>4. N \in SUBSET Nat
  BY DEF N
<1>5. N = Nat
  BY <1>2, <1>3, <1>4, InductionOverNat
<1> QED
  BY <1>1, <1>5 DEF N

(* What a sum of the field of the results r is: the value that the fold has for
   all of them.                                                               *)
Folded(r, field, f) ==
  [s \in SUBSET (DOMAIN r) |->
     IF s = {} THEN 0 ELSE LET x == CHOOSE y \in s : TRUE IN r[x][field] + f[s \ {x}]]
Partial(r, field) == CHOOSE f : f = Folded(r, field, f)

LEMMA SumIs ==
  ASSUME NEW r, NEW field
  PROVE  SumOf(field, r) = Partial(r, field)[DOMAIN r]
BY DEF SumOf, MapThenSumSet, MapThenFoldSet, Partial, Folded

(* The recursion has a solution: one for the subsets of up to n elements can be
   extended to those of n + 1.                                                *)
LEMMA FoldExists ==
  ASSUME NEW r, NEW field, IsFiniteSet(DOMAIN r)
  PROVE  \E f : f = Folded(r, field, f)
<1> DEFINE D == DOMAIN r
           v(x) == r[x][field]
           L(n) == {s \in SUBSET D : Cardinality(s) <= n}
           G(f, s) == IF s = {} THEN 0 ELSE v(Drawn(s)) + f[s \ {Drawn(s)}]
           Good(f, n) == f = [s \in L(n) |-> G(f, s)]
           N == {n \in Nat : \E f : Good(f, n)}
<1>1. \A s \in SUBSET D : IsFiniteSet(s) /\ Cardinality(s) \in Nat
  BY FS_Subset, FS_CardinalityType
<1>2. \A s \in SUBSET D : s # {} => /\ Drawn(s) \in s /\ s \ {Drawn(s)} \in SUBSET D
                                    /\ Cardinality(s \ {Drawn(s)}) = Cardinality(s) - 1
  BY <1>1, DrawnIs, FS_RemoveElement
<1> HIDE DEF v
<1>3. 0 \in N
  <2> DEFINE f == [s \in L(0) |-> 0]
  <2>1. \A s \in L(0) : s = {}
    <3> SUFFICES ASSUME NEW s \in L(0)
                 PROVE  s = {}
      OBVIOUS
    <3>1. Cardinality(s) = 0 /\ IsFiniteSet(s)
      BY <1>1
    <3> QED
      BY <3>1, FS_EmptySet
  <2>2. Good(f, 0)
    BY <2>1
  <2> QED
    BY <2>2
<1>4. ASSUME NEW n \in N
      PROVE  n + 1 \in N
  <2>1. PICK f : Good(f, n)
    BY <1>4
  <2> DEFINE g == [s \in L(n + 1) |-> G(f, s)]
  <2>2. \A s \in L(n) : f[s] = G(f, s)
    BY <2>1
  <2>3. ASSUME NEW s \in L(n + 1)
        PROVE  G(g, s) = G(f, s)
    <3>1. CASE s = {}
      BY <3>1
    <3>2. CASE s # {}
      <4> DEFINE t == s \ {Drawn(s)}
      <4>1. t \in L(n) /\ t \in L(n + 1)
        <5>1. Cardinality(t) = Cardinality(s) - 1 /\ t \in SUBSET D
          BY <1>2, <3>2
        <5>2. Cardinality(s) \in Nat /\ Cardinality(s) <= n + 1
          BY <1>1
        <5> QED
          BY <5>1, <5>2
      <4> HIDE DEF t, L
      <4>2. g[t] = G(f, t) /\ f[t] = G(f, t)
        BY <2>2, <4>1
      <4>3. G(g, s) = v(Drawn(s)) + g[t] /\ G(f, s) = v(Drawn(s)) + f[t]
        BY <3>2 DEF t
      <4> HIDE DEF G, g
      <4> QED
        BY <4>2, <4>3
    <3> QED
      BY <3>1, <3>2
  <2>4. Good(g, n + 1)
    <3> DEFINE h == g
    <3>1. h = [s \in L(n + 1) |-> G(f, s)]
      OBVIOUS
    <3>2. \A s \in L(n + 1) : G(h, s) = G(f, s)
      BY <2>3
    <3> HIDE DEF h, G, L
    <3>3. h = [s \in L(n + 1) |-> G(h, s)]
      BY <3>1, <3>2
    <3> QED
      BY <3>3 DEF h
  <2> HIDE DEF g, Good
  <2> QED
    BY <2>4
<1> HIDE DEF N
<1>5. N = Nat
  <2>1. N \in SUBSET Nat
    BY DEF N
  <2> QED
    BY <1>3, <1>4, <2>1, InductionOverNat
<1>6. Cardinality(D) \in Nat /\ L(Cardinality(D)) = SUBSET D
  <2>1. \A s \in SUBSET D : Cardinality(s) <= Cardinality(D)
    BY FS_Subset
  <2> QED
    BY <2>1, FS_CardinalityType
<1>7. PICK f : Good(f, Cardinality(D))
  BY <1>5, <1>6 DEF N
<1>8. f = [s \in SUBSET D |-> G(f, s)]
  <2> HIDE DEF L
  <2> QED
    BY <1>6, <1>7
<1>9. [s \in SUBSET D |-> G(f, s)] = Folded(r, field, f)
  BY DEF Folded, Drawn, v
<1> QED
  BY <1>8, <1>9

IsPartial(p, r, field) ==
  /\ p[{}] = 0
  /\ \A s \in SUBSET (DOMAIN r) : s # {} =>
       p[s] = r[Drawn(s)][field] + p[s \ {Drawn(s)}]

LEMMA PartialIs ==
  ASSUME NEW r, NEW field, IsFiniteSet(DOMAIN r)
  PROVE  IsPartial(Partial(r, field), r, field)
<1> DEFINE p == Partial(r, field)
<1>1. p = Folded(r, field, p)
  BY FoldExists DEF Partial
<1> HIDE DEF p
<1>2. p[{}] = 0
  BY <1>1 DEF Folded
<1>3. \A s \in SUBSET (DOMAIN r) : s # {} => p[s] = r[Drawn(s)][field] + p[s \ {Drawn(s)}]
  BY <1>1 DEF Folded, Drawn
<1> QED
  BY <1>2, <1>3, Zenon DEF p, IsPartial

LEMMA SumType ==
  ASSUME NEW r, NEW f, IsFiniteSet(DOMAIN r), \A x \in DOMAIN r : r[x][f] \in Nat
  PROVE  SumOf(f, r) \in Nat /\ \A s \in SUBSET (DOMAIN r) : Partial(r, f)[s] \in Nat
<1> DEFINE D == DOMAIN r
           p == Partial(r, f)
           Q == {s \in SUBSET D : p[s] \in Nat}
<1>0. IsPartial(p, r, f)
  BY PartialIs
<1> HIDE DEF p
<1>1. {} \in Q
  BY <1>0 DEF IsPartial
<1>2. \A s \in SUBSET D : s # {} => p[s] = r[Drawn(s)][f] + p[s \ {Drawn(s)}]
  BY <1>0, Zenon DEF IsPartial
<1>3. ASSUME NEW s \in SUBSET D, s # {}, s \ {Drawn(s)} \in Q
      PROVE  s \in Q
  BY <1>2, <1>3, DrawnIs
<1>4. \A s \in SUBSET D : s \in Q
  <2>1. Q \in SUBSET (SUBSET D)
    OBVIOUS
  <2> HIDE DEF Q
  <2> QED
    BY <1>1, <1>3, <2>1, InductionDrawn
<1> QED
  BY <1>4, SumIs DEF p

(* A sum is at most another one if that holds of the summands. *)
LEMMA SumMonotonic ==
  ASSUME NEW r, NEW f, NEW g, IsFiniteSet(DOMAIN r),
         \A x \in DOMAIN r : r[x][f] \in Nat /\ r[x][g] \in Nat /\ r[x][f] <= r[x][g]
  PROVE  SumOf(f, r) <= SumOf(g, r)
<1> DEFINE D == DOMAIN r
           p == Partial(r, f)
           q == Partial(r, g)
           Q == {s \in SUBSET D : p[s] <= q[s]}
<1>0. IsPartial(p, r, f) /\ IsPartial(q, r, g)
  BY PartialIs
<1>1. p[{}] = 0 /\ q[{}] = 0
  BY <1>0, Zenon DEF IsPartial
<1>2. \A s \in SUBSET D : s # {} => /\ p[s] = r[Drawn(s)][f] + p[s \ {Drawn(s)}]
                                    /\ q[s] = r[Drawn(s)][g] + q[s \ {Drawn(s)}]
  BY <1>0, Zenon DEF IsPartial
<1>3. \A s \in SUBSET D : p[s] \in Nat /\ q[s] \in Nat
  BY SumType
<1> HIDE DEF p, q
<1>4. {} \in Q
  BY <1>1
<1>5. ASSUME NEW s \in SUBSET D, s # {}, s \ {Drawn(s)} \in Q
      PROVE  s \in Q
  <2>1. Drawn(s) \in D
    BY <1>5, DrawnIs
  <2> DEFINE t == s \ {Drawn(s)}
  <2> HIDE DEF t
  <2>2. t \in SUBSET D /\ p[t] <= q[t]
    BY <1>5 DEF t
  <2>3. p[s] = r[Drawn(s)][f] + p[t] /\ q[s] = r[Drawn(s)][g] + q[t]
    BY <1>2, <1>5 DEF t
  <2>4. p[s] <= q[s]
    BY <1>3, <2>1, <2>2, <2>3
  <2> QED
    BY <2>4
<1>6. \A s \in SUBSET D : s \in Q
  BY <1>4, <1>5, InductionDrawn
<1>7. p[D] <= q[D]
  BY <1>6
<1> QED
  BY <1>7, SumIs DEF p, q

(* A sum over T, outside of which the summands are 0, lies between as many times
   the least and the greatest of them.                                        *)
LEMMA SumBounds ==
  ASSUME NEW r, NEW f, IsFiniteSet(DOMAIN r), NEW T \in SUBSET (DOMAIN r),
         NEW lo \in Nat, NEW hi \in Nat,
         \A x \in T : r[x][f] \in Nat /\ lo <= r[x][f] /\ r[x][f] <= hi,
         \A x \in (DOMAIN r) \ T : r[x][f] = 0
  PROVE  Cardinality(T) * lo <= SumOf(f, r) /\ SumOf(f, r) <= Cardinality(T) * hi
<1> DEFINE D == DOMAIN r
           p == Partial(r, f)
           c(s) == Cardinality(s \cap T)
           Q == {s \in SUBSET D : c(s) * lo <= p[s] /\ p[s] <= c(s) * hi}
<1>0. \A x \in D : r[x][f] \in Nat
  OBVIOUS
<1>1. IsPartial(p, r, f) /\ p[{}] = 0
  BY PartialIs DEF IsPartial
<1>2. \A s \in SUBSET D : s # {} => p[s] = r[Drawn(s)][f] + p[s \ {Drawn(s)}]
  BY <1>1, Zenon DEF IsPartial
<1>3. \A s \in SUBSET D : p[s] \in Nat
  BY <1>0, SumType
<1>4. \A s \in SUBSET D : c(s) \in Nat /\ IsFiniteSet(s \cap T)
  BY FS_Subset, FS_CardinalityType
<1>5. c({}) = 0
  <2>1. {} \cap T = {}
    OBVIOUS
  <2> QED
    BY <2>1, FS_EmptySet
<1> HIDE DEF p
<1>6. {} \in Q
  <2> HIDE DEF c
  <2> QED
    BY <1>1, <1>5
<1>7. ASSUME NEW s \in SUBSET D, s # {}, s \ {Drawn(s)} \in Q
      PROVE  s \in Q
  <2> DEFINE x == Drawn(s)
             t == s \ {x}
  <2>1. x \in s /\ x \in D
    BY <1>7, DrawnIs
  <2>2. t \in SUBSET D /\ c(t) * lo <= p[t] /\ p[t] <= c(t) * hi
    BY <1>7
  <2>3. p[s] = r[x][f] + p[t]
    BY <1>2, <1>7
  <2>4. CASE x \in T
    <3>1. c(t) = c(s) - 1
      <4>1. t \cap T = (s \cap T) \ {x} /\ x \in s \cap T
        BY <2>1, <2>4
      <4> DEFINE z == s \cap T
      <4>2. IsFiniteSet(z) /\ x \in z
        BY <1>4, <4>1
      <4> HIDE DEF z, x
      <4>3. Cardinality(z \ {x}) = Cardinality(z) - 1
        BY <4>2, FS_RemoveElement
      <4> QED
        BY <4>1, <4>3 DEF z
    <3>2. c(s) \in Nat /\ c(t) \in Nat
      BY <1>4, <2>2
    <3> HIDE DEF c, t, x
    <3>3. c(s) * lo = c(t) * lo + lo /\ c(s) * hi = c(t) * hi + hi
      BY <3>1, <3>2
    <3>4. c(t) * lo \in Nat /\ c(t) * hi \in Nat /\ p[t] \in Nat
      BY <1>3, <2>2, <3>2, Product
    <3>5. c(s) * lo <= p[s] /\ p[s] <= c(s) * hi
      BY <2>2, <2>3, <2>4, <3>3, <3>4
    <3> QED
      BY <3>5
  <2>5. CASE x \notin T
    <3>1. c(t) = c(s)
      <4>1. t \cap T = s \cap T
        BY <2>5
      <4> QED
        BY <4>1
    <3>2. p[t] \in Nat
      BY <1>3, <2>2
    <3>3. r[x][f] = 0
      BY <2>1, <2>5
    <3>4. p[s] = p[t]
      BY <2>3, <3>2, <3>3
    <3> HIDE DEF c, t, x
    <3> QED
      BY <2>2, <3>1, <3>4
  <2> QED
    BY <2>4, <2>5
<1>8. \A s \in SUBSET D : s \in Q
  <2>1. Q \in SUBSET (SUBSET D)
    OBVIOUS
  <2> HIDE DEF Q
  <2> QED
    BY <1>6, <1>7, <2>1, InductionDrawn
<1>9. c(D) * lo <= p[D] /\ p[D] <= c(D) * hi
  BY <1>8
<1>10. D \cap T = T
  OBVIOUS
<1> QED
  BY <1>9, <1>10, SumIs DEF p

-----------------------------------------------------------------------------
(* The figures of the report. *)

(* Nobody receives more than is sent, and the latency of a direction that has its
   result, or is about to, is that of the handshake.                          *)
Figures ==
  \A d \in Dirs :
    /\ \A w \in Workers : Found(d, w).recv <= Found(d, w).count
    /\ Done(d) \/ (pc = "decide" /\ d \in Talks[talk]) =>
         \A w \in Team(d) : Found(d, w).latency = Latency[w]

(* The fields that a round leaves with the receivers. *)
LEMMA RoundFields ==
  ASSUME Inv, SteadyStream \/ FreeStream
  PROVE  /\ pc = "stream"
         /\ \E own \in [Workers -> Nat], recv \in [Workers -> Nat] :
              /\ Round(own, recv)
              /\ \A w \in Workers : recv[w] <= count[DirOf(w)]
              /\ \A w \in Workers : recv[w] = 0 => own[w] = 0
              /\ \A s \in Sides : \A d \in Dirs \ Talks[talk] : results'[s][d] = results[s][d]
              /\ \A s \in Sides : \A d \in Dirs : \A w \in Workers \ Team(d) :
                   results'[s][d][w] = results[s][d][w]
              /\ \A d \in Talks[talk] : \A w \in Team(d) :
                   /\ results'[Receiver(d)][d][w].recv = recv[w]
                   /\ results'[Receiver(d)][d][w].count = count[d]
                   /\ results'[Receiver(d)][d][w].latency = Latency[w]
<1>0. InvConfig /\ InvType /\ InvCounts /\ pc = "stream"
  BY StreamIs DEF Inv
<1>1. PICK own \in [Workers -> Nat], recv \in [Workers -> Nat] :
        /\ Round(own, recv)
        /\ \A w \in Workers : recv[w] <= count[DirOf(w)]
        /\ \A w \in Workers : recv[w] = 0 => own[w] = 0
  BY StreamIs
<1> DEFINE row(d) == Durations([u \in Team(d) |-> own[u]],
                               [u \in Team(d) |-> recv[u] < count[d]])
<1>2. /\ \A s \in Sides : \A d \in Dirs \ Talks[talk] : results'[s][d] = results[s][d]
      /\ \A s \in Sides : \A d \in Dirs : \A w \in Workers \ Team(d) :
           results'[s][d][w] = results[s][d][w]
      /\ \A d \in Talks[talk] : \A w \in Team(d) :
           results'[Receiver(d)][d][w] =
             [latency |-> Latency[w], count |-> count[d], recv |-> recv[w],
              duration |-> row(d)[w]]
  BY <1>0, <1>1, RoundResults
<1> HIDE DEF row
<1>3. ASSUME NEW d \in Talks[talk], NEW w \in Team(d)
      PROVE  /\ results'[Receiver(d)][d][w].recv = recv[w]
             /\ results'[Receiver(d)][d][w].count = count[d]
             /\ results'[Receiver(d)][d][w].latency = Latency[w]
  <2>1. results'[Receiver(d)][d][w] =
          [latency |-> Latency[w], count |-> count[d], recv |-> recv[w],
           duration |-> row(d)[w]]
    BY <1>2, Zenon
  <2> QED
    BY <2>1
<1> QED
  BY <1>0, <1>1, <1>2, <1>3

LEMMA RoundFigures ==
  ASSUME Inv, Figures, SteadyStream \/ FreeStream
  PROVE  Figures'
<1>0. InvConfig /\ InvType /\ InvCounts /\ pc = "stream"
  BY StreamIs DEF Inv
<1>1. PICK own \in [Workers -> Nat], recv \in [Workers -> Nat] :
        /\ Round(own, recv)
        /\ \A w \in Workers : recv[w] <= count[DirOf(w)]
        /\ \A s \in Sides : \A d \in Dirs \ Talks[talk] : results'[s][d] = results[s][d]
        /\ \A s \in Sides : \A d \in Dirs : \A w \in Workers \ Team(d) :
             results'[s][d][w] = results[s][d][w]
        /\ \A d \in Talks[talk] : \A w \in Team(d) :
             /\ results'[Receiver(d)][d][w].recv = recv[w]
             /\ results'[Receiver(d)][d][w].count = count[d]
             /\ results'[Receiver(d)][d][w].latency = Latency[w]
  BY RoundFields
<1>2. /\ \A s \in Sides : \A d \in Dirs \ Talks[talk] : results'[s][d] = results[s][d]
      /\ \A s \in Sides : \A d \in Dirs : \A w \in Workers \ Team(d) :
           results'[s][d][w] = results[s][d][w]
      /\ \A d \in Talks[talk] : \A w \in Team(d) :
           /\ results'[Receiver(d)][d][w].recv = recv[w]
           /\ results'[Receiver(d)][d][w].count = count[d]
           /\ results'[Receiver(d)][d][w].latency = Latency[w]
  BY <1>1
<1>3. cfg' = cfg /\ talk' = talk /\ pc' = "decide"
  BY <1>1 DEF Round
<1>4. /\ Workers' = Workers /\ Talks' = Talks /\ \A d : Team(d)' = Team(d)
      /\ Dirs' = Dirs
  BY <1>3, Frame DEF Dirs
<1>5. Talks[talk] \subseteq Dirs
  BY <1>0, TalksAre DEF InvType
<1> SUFFICES ASSUME NEW d \in Dirs
             PROVE  /\ \A w \in Workers : Found(d, w)'.recv <= Found(d, w)'.count
                    /\ Done(d)' \/ d \in Talks[talk] =>
                         \A w \in Team(d) : Found(d, w)'.latency = Latency[w]
  BY <1>3, <1>4 DEF Figures
<1>6. Receiver(d) \in Sides
  BY ReceiverIs
<1>7. \A w : Found(d, w)' = results'[Receiver(d)][d][w]
  BY DEF Found
<1>8. CASE d \in Talks[talk]
  <2>1. ASSUME NEW w \in Team(d)
        PROVE  /\ Found(d, w)'.recv <= Found(d, w)'.count
               /\ Found(d, w)'.latency = Latency[w]
    <3>1. w \in Workers /\ DirOf(w) = d
      BY <1>0, <1>8, TeamIs, DirOfIs DEF InvType
    <3> QED
      BY <1>1, <1>2, <1>7, <1>8, <3>1
  <2>2. ASSUME NEW w \in Workers \ Team(d)
        PROVE  Found(d, w)'.recv <= Found(d, w)'.count
    <3>1. Found(d, w)' = Found(d, w)
      BY <1>2, <1>6, <1>7 DEF Found
    <3> QED
      BY <3>1 DEF Figures
  <2> QED
    BY <1>8, <2>1, <2>2
<1>9. CASE d \notin Talks[talk]
  <2>1. \A w : Found(d, w)' = Found(d, w)
    BY <1>2, <1>6, <1>7, <1>9 DEF Found
  <2>2. Done(d)' => Done(d)
    BY <1>0, <1>3, <1>4 DEF Done
  <2> QED
    BY <1>9, <2>1, <2>2 DEF Figures
<1> QED
  BY <1>8, <1>9

(* No other step changes what the receivers have found. *)
LEMMA SameFound ==
  ASSUME Inv, Begin \/ Restart \/ Accept \/ (\E s \in Sides : ProcessReport(s))
              \/ UNCHANGED vars
  PROVE  \A d \in Dirs : \A w : Found(d, w)' = Found(d, w)
<1>0. InvConfig /\ InvType /\ InvOthers
  BY DEF Inv
<1>1. \A d \in Dirs : results'[Receiver(d)][d] = results[Receiver(d)][d]
  <2>1. CASE Accept
    BY <1>0, <2>1, ExchangeIs DEF Accept
  <2>2. CASE ~Accept
    BY <2>2 DEF Begin, Restart, ProcessReport, vars
  <2> QED
    BY <2>1, <2>2
<1> QED
  BY <1>1 DEF Found

(* A direction gets its result by the decision on its talk. *)
LEMMA DoneBefore ==
  ASSUME Inv, NEW d \in Dirs,
         Begin \/ Restart \/ Accept \/ (\E s \in Sides : ProcessReport(s))
              \/ UNCHANGED vars,
         Done(d)' \/ (pc' = "decide" /\ d \in Talks[talk'])
  PROVE  Done(d) \/ (pc = "decide" /\ d \in Talks[talk])
<1>0. InvConfig /\ InvType
  BY DEF Inv
<1>1. cfg' = cfg
  BY DEF Begin, Restart, Accept, ProcessReport, vars
<1>2. Talks' = Talks
  BY <1>1, Frame
<1>3. CASE Begin \/ Restart
  <2>1. talk' = talk /\ pc' # "report" /\ pc' # "decide"
    BY <1>3 DEF Begin, Restart
  <2> QED
    BY <1>2, <2>1 DEF Done
<1>4. CASE Accept
  <2>1. pc = "decide" /\ pc' # "decide" /\ (talk' = talk + 1 \/ (talk' = talk /\ ~(talk < Len(Talks))))
        /\ (talk' = talk + 1 => pc' # "report")
    BY <1>4, TalksAre, <1>0 DEF Accept, InvType
  <2>2. PICK k \in DOMAIN Talks : d \in Talks[k] /\ (k < talk' \/ pc' = "report")
    BY <1>2, <2>1 DEF Done
  <2>3. Len(Talks) \in Nat /\ DOMAIN Talks = 1 .. Len(Talks) /\ talk \in 1 .. Len(Talks)
    BY <1>0, TalksAre DEF InvType
  <2>4. k < talk \/ k = talk
    BY <2>1, <2>2, <2>3
  <2> QED
    BY <2>1, <2>2, <2>4 DEF Done
<1>5. CASE (\E s \in Sides : ProcessReport(s)) \/ UNCHANGED vars
  <2>1. talk' = talk /\ pc' = pc
    BY <1>5 DEF ProcessReport, vars
  <2> QED
    BY <1>2, <2>1 DEF Done
<1> QED
  BY <1>3, <1>4, <1>5

LEMMA OtherFigures ==
  ASSUME Inv, Figures, Begin \/ Restart \/ Accept \/ (\E s \in Sides : ProcessReport(s))
                       \/ UNCHANGED vars
  PROVE  Figures'
<1>0. InvConfig /\ InvType /\ InvOthers
  BY DEF Inv
<1>1. cfg' = cfg
  BY DEF Begin, Restart, Accept, ProcessReport, vars
<1>2. /\ Workers' = Workers /\ Talks' = Talks /\ \A d : Team(d)' = Team(d)
      /\ Dirs' = Dirs
  BY <1>1, Frame DEF Dirs
<1>3. \A d \in Dirs : \A w : Found(d, w)' = Found(d, w)
  BY SameFound
<1>4. ASSUME NEW d \in Dirs, Done(d)' \/ (pc' = "decide" /\ d \in Talks[talk'])
      PROVE  Done(d) \/ (pc = "decide" /\ d \in Talks[talk])
  BY <1>4, DoneBefore
<1> SUFFICES ASSUME NEW d \in Dirs
             PROVE  /\ \A w \in Workers : Found(d, w)'.recv <= Found(d, w)'.count
                    /\ Done(d)' \/ (pc' = "decide" /\ d \in Talks[talk']) =>
                         \A w \in Team(d) : Found(d, w)'.latency = Latency[w]
  BY <1>2 DEF Figures
<1> QED
  BY <1>3, <1>4 DEF Figures

LEMMA FiguresHold == Spec => []Figures
<1>1. Init => Figures
  <2> SUFFICES ASSUME Init
               PROVE  Figures
    OBVIOUS
  <2>1. Inv
    BY InitInv
  <2>2. \A d \in Dirs : \A w \in Workers : Found(d, w) = Nothing
    BY ReceiverIs DEF Init, Found
  <2>3. \A d : ~Done(d)
    BY <2>1, TalksAre DEF Done, Init, Inv
  <2> QED
    BY <2>2, <2>3 DEF Figures, Nothing, Init
<1>2. Inv /\ Figures /\ [Next]_vars => Figures'
  BY RoundFigures, OtherFigures DEF Next, Progress, Ended
<1> QED
  BY <1>1, <1>2, Invariance, PTL DEF Spec

(* The results of a section, and how they are combined. *)
LEMMA CollectedIs ==
  ASSUME Inv, NEW s \in Sides, NEW sec \in Sections(s)
  PROVE  LET d == sec.dir
             r == results[Receiver(d)][d]
         IN  /\ d \in Dirs /\ Done(d)
             /\ DOMAIN r = Workers /\ IsFiniteSet(DOMAIN r)
             /\ \A w \in Workers : r[w] = Found(d, w) /\ r[w] \in Collected
             /\ sec.collected = Combine(r, cfg.async)
             /\ sec.computed = Compute(sec.collected)
<1> DEFINE d == sec.dir
           r == results[Receiver(d)][d]
<1>0. InvConfig /\ InvType
  BY DEF Inv
<1>1. /\ d \in Dirs /\ Done(d) /\ sec = Section(s, d, Combine(results[s][d], cfg.async))
      /\ results[s][d] = r
  BY SectionIs
<1>2. r \in [Workers -> Collected]
  BY <1>0, <1>1, ReceiverIs DEF InvType
<1>3. \A w \in Workers : r[w] = Found(d, w) /\ r[w] \in Collected
  BY <1>2 DEF Found
<1>4. IsFiniteSet(Workers)
  BY <1>0, WorkersAre
<1> HIDE DEF d, r
<1>5. sec.collected = Combine(r, cfg.async) /\ sec.computed = Compute(sec.collected)
  BY <1>1 DEF Section
<1> QED
  BY <1>1, <1>2, <1>3, <1>4, <1>5 DEF d, r

LEMMA FieldTypes ==
  ASSUME NEW r, \A w \in DOMAIN r : r[w] \in Collected
  PROVE  \A w \in DOMAIN r : /\ r[w]["latency"] \in Nat /\ r[w]["latency"] = r[w].latency
                             /\ r[w]["count"] \in Nat /\ r[w]["count"] = r[w].count
                             /\ r[w]["recv"] \in Nat /\ r[w]["recv"] = r[w].recv
<1>1. Small \subseteq Nat
  BY ReportAssumption DEF Small
<1> HIDE DEF Small
<1> QED
  BY <1>1 DEF Collected

(* Numbers that differ by a multiple of m are equal modulo m. *)
LEMMA ModIs ==
  ASSUME NEW x \in Int, NEW m \in Nat \ {0}
  PROVE  /\ x % m \in Int /\ x \div m \in Int
         /\ 0 <= x % m /\ x % m < m /\ x = m * (x \div m) + (x % m)
OBVIOUS

LEMMA ModUnique ==
  ASSUME NEW m \in Nat \ {0}, NEW q \in Int, NEW p \in Int, NEW r \in Int, NEW t \in Int,
         0 <= r, r < m, 0 <= t, t < m, m * q + r = m * p + t
  PROVE  r = t
<1>1. CASE q = p
  BY <1>1
<1>2. CASE q < p
  <2>1. m * (q + 1) <= m * p
    BY <1>2
  <2>2. m * (q + 1) = m * q + m
    OBVIOUS
  <2>3. m * q \in Int /\ m * p \in Int
    OBVIOUS
  <2> QED
    BY <2>1, <2>2, <2>3
<1>3. CASE p < q
  <2>1. m * (p + 1) <= m * q
    BY <1>3
  <2>2. m * (p + 1) = m * p + m
    OBVIOUS
  <2>3. m * q \in Int /\ m * p \in Int
    OBVIOUS
  <2> QED
    BY <2>1, <2>2, <2>3
<1> QED
  BY <1>1, <1>2, <1>3

LEMMA ModShift ==
  ASSUME NEW m \in Nat \ {0}, NEW k \in Int, NEW x \in Int, NEW y \in Int, x = m * k + y
  PROVE  x % m = y % m
<1> DEFINE a == x \div m
           b == y \div m
           r == x % m
           t == y % m
<1>1. /\ a \in Int /\ b \in Int /\ r \in Int /\ t \in Int
      /\ 0 <= r /\ r < m /\ 0 <= t /\ t < m /\ x = m * a + r /\ y = m * b + t
  BY ModIs
<1> HIDE DEF a, b, r, t
<1>2. m * (k + b) = m * k + m * b
  BY <1>1
<1>3. m * a \in Int /\ m * k \in Int /\ m * b \in Int /\ k + b \in Int
  BY <1>1
<1>4. m * a + r = m * (k + b) + t
  BY <1>1, <1>2, <1>3
<1>5. r = t
  BY <1>1, <1>3, <1>4, ModUnique
<1> QED
  BY <1>5 DEF r, t

(* So that a hundredfold difference may be taken of numbers that went round. *)
LEMMA ModDifference ==
  ASSUME NEW a \in Nat, NEW b \in Nat, NEW m \in Nat \ {0}
  PROVE  (((a % m) - (b % m)) * 100) % m = ((a - b) * 100) % m
<1> DEFINE p == a \div m
           q == b \div m
           r == a % m
           t == b % m
<1>1. p \in Int /\ q \in Int /\ r \in Int /\ t \in Int /\ a = m * p + r /\ b = m * q + t
  BY ModIs
<1> HIDE DEF p, q, r, t
<1> DEFINE k == (p - q) * 100
           x == (a - b) * 100
           y == (r - t) * 100
<1>2. k \in Int /\ x \in Int /\ y \in Int
  BY <1>1
<1>3. m * k = (m * p - m * q) * 100
  BY <1>1
<1>4. m * p \in Int /\ m * q \in Int
  BY <1>1
<1>5. x = (m * p - m * q) * 100 + y
  BY <1>1, <1>4
<1>6. x = m * k + y
  BY <1>3, <1>5
<1> HIDE DEF k, x, y
<1>7. x % m = y % m
  BY <1>2, <1>6, ModShift
<1> QED
  BY <1>7 DEF x, y, r, t

(* The reported packet loss is the share of the packets of all the workers of a
   direction that did not come, for every number of workers and however many
   were lost, even if the 32 bits of the sums of report.c:64-65 overflow, as
   long as the difference of report.c:237, a hundredfold, does not.           *)
THEOREM LossIsExact == Spec => []LossExact
<1>1. Inv /\ Figures => LossExact
  <2> SUFFICES ASSUME Inv, Figures, NEW s \in Sides, NEW sec \in Sections(s)
               PROVE  LET sent == SumOf("count", results[Receiver(sec.dir)][sec.dir])
                          lost == sent - SumOf("recv", results[Receiver(sec.dir)][sec.dir])
                      IN  /\ sent < Mod32 => sec.collected.count = sent
                          /\ lost * 100 < Mod32 => sec.computed.lost = lost * 100
    BY DEF LossExact
  <2> DEFINE d == sec.dir
             r == results[Receiver(d)][d]
             sent == SumOf("count", r)
             came == SumOf("recv", r)
  <2>1. /\ d \in Dirs /\ DOMAIN r = Workers /\ IsFiniteSet(DOMAIN r)
        /\ \A w \in Workers : r[w] = Found(d, w) /\ r[w] \in Collected
        /\ sec.collected = Combine(r, cfg.async) /\ sec.computed = Compute(sec.collected)
    BY CollectedIs
  <2>2. \A w \in DOMAIN r : /\ r[w]["recv"] \in Nat /\ r[w]["count"] \in Nat
                            /\ r[w]["recv"] <= r[w]["count"]
    <3>1. \A w \in Workers : r[w].recv <= r[w].count
      BY <2>1 DEF Figures
    <3> HIDE DEF r
    <3>2. \A w \in DOMAIN r : r[w] \in Collected
      BY <2>1
    <3> QED
      BY <2>1, <3>1, <3>2, FieldTypes
  <2> HIDE DEF r, d
  <2>3. sent \in Nat /\ came \in Nat /\ came <= sent
    BY <2>1, <2>2, SumType, SumMonotonic
  <2>4. /\ sec.collected.count = sent % Mod32 /\ sec.collected.recv = came % Mod32
    <3>1. \A n : Combined(r, n).count = sent % Mod32 /\ Combined(r, n).recv = came % Mod32
      BY DEF Combined
    <3> QED
      BY <2>1, <3>1 DEF Combine
  <2>5. sec.computed.lost = ((sec.collected.count - sec.collected.recv) * 100) % Mod32
    BY <2>1 DEF Compute
  <2> HIDE DEF sent, came
  <2>6. Mod32 \in Nat \ {0}
    BY ReportAssumption
  <2>7. ASSUME sent < Mod32
        PROVE  sec.collected.count = sent
    BY <2>3, <2>4, <2>6, <2>7, ModSmall
  <2>8. ASSUME (sent - came) * 100 < Mod32
        PROVE  sec.computed.lost = (sent - came) * 100
    <3>1. (sent - came) * 100 \in Nat
      BY <2>3
    <3>2. ((sent - came) * 100) % Mod32 = (sent - came) * 100
      BY <2>6, <2>8, <3>1, ModSmall
    <3>3. (((sent % Mod32) - (came % Mod32)) * 100) % Mod32 = ((sent - came) * 100) % Mod32
      BY <2>3, <2>6, ModDifference
    <3> QED
      BY <2>4, <2>5, <3>2, <3>3
  <2> QED
    BY <2>7, <2>8 DEF sent, came, r, d
<1> QED
  BY <1>1, Invariance, FiguresHold, PTL

LEMMA MeanIs ==
  ASSUME NEW n \in Nat \ {0}, NEW total \in Nat, NEW lo \in Nat, NEW hi \in Nat,
         n * lo <= total, total <= n * hi
  PROVE  total \div n \in lo .. hi
<1> DEFINE q == total \div n
<1>1. q \in Nat /\ n * q <= total
  BY DivIs
<1>2. lo <= q
  BY DivAtLeast
<1> HIDE DEF q
<1>3. q <= hi
  <2>1. n * q \in Nat /\ n * hi \in Nat
    BY <1>1, Product
  <2>2. n * q <= n * hi
    BY <1>1, <2>1
  <2> QED
    BY <1>1, <2>2, Cancel
<1>4. q \in lo .. hi
  BY <1>1, <1>2, <1>3
<1> QED
  BY <1>4 DEF q

(* An interval cut at h. *)
LEMMA SplitInterval ==
  ASSUME NEW n \in Nat, NEW h \in Nat, h >= 1, n = 2 * h
  PROVE  /\ {w \in 1 .. n : ~(w > h)} = 1 .. h
         /\ {w \in 1 .. n : w > h} = h + 1 .. n
<1>1. \A w : w \in {v \in 1 .. n : ~(v > h)} <=> w \in 1 .. h
  OBVIOUS
<1>2. \A w : w \in {v \in 1 .. n : v > h} <=> w \in h + 1 .. n
  OBVIOUS
<1>3. {w \in 1 .. n : ~(w > h)} = 1 .. h
  BY <1>1
<1>4. {w \in 1 .. n : w > h} = h + 1 .. n
  BY <1>2
<1> QED
  BY <1>3, <1>4

(* By how many the sum of a direction is divided: its workers. *)
LEMMA TeamSize ==
  ASSUME InvConfig, NEW d \in Dirs
  PROVE  /\ Cardinality(Team(d)) \in Nat \ {0}
         /\ Cardinality(Team(d)) = IF cfg.async THEN Cardinality(Workers) \div 2
                                                ELSE Cardinality(Workers)
<1>1. WorkerCount \in Nat \ {0} /\ Cardinality(Workers) = WorkerCount
  <2>1. WorkerCount \in Nat \ {0}
    BY WorkersAre
  <2> QED
    BY <2>1, FS_Interval DEF Workers
<1>2. CASE ~cfg.async
  BY <1>1, <1>2 DEF Team
<1>3. CASE cfg.async
  <2> DEFINE n == WorkerCount
             h == n \div 2
  <2>1. n = AsyncWorkers /\ n \in Nat /\ n >= 2 /\ n % 2 = 0
    BY <1>3, WorkersAre, MeasureAssumption
  <2> HIDE DEF n
  <2>2. h \in Nat /\ h >= 1 /\ n = 2 * h
    BY <2>1
  <2>3. Workers = 1 .. n
    BY DEF Workers, n
  <2>4. Team(0) = 1 .. h /\ Team(1) = h + 1 .. n
    <3>1. \A w : Half(w) = IF w > h THEN 1 ELSE 0
      BY DEF Half, n
    <3>2. Team(0) = {w \in 1 .. n : ~(w > h)} /\ Team(1) = {w \in 1 .. n : w > h}
      BY <1>3, <2>3, <3>1 DEF Team
    <3> HIDE DEF h
    <3>3. /\ {w \in 1 .. n : ~(w > h)} = 1 .. h
          /\ {w \in 1 .. n : w > h} = h + 1 .. n
      BY <2>1, <2>2, SplitInterval
    <3> QED
      BY <3>2, <3>3, Zenon
  <2> HIDE DEF h
  <2>5. Cardinality(1 .. h) = h /\ Cardinality(h + 1 .. n) = h
    <3>1. Cardinality(1 .. h) = h
      BY <2>2, FS_Interval
    <3>2. h + 1 \in Int /\ n \in Int /\ h + 1 <= n /\ n - (h + 1) + 1 = h
      BY <2>2
    <3>3. Cardinality(h + 1 .. n) = n - (h + 1) + 1
      BY <3>2, FS_Interval
    <3> QED
      BY <3>1, <3>2, <3>3
  <2>6. Cardinality(Team(d)) = h
    BY <2>4, <2>5 DEF Dirs
  <2> QED
    BY <1>1, <1>3, <2>2, <2>6 DEF h, n
<1> QED
  BY <1>2, <1>3

(* The reported latency lies between those that the workers of the direction have
   found: the sum of their latencies is divided by their number also in an
   asynchronous test, in which it is half of all (report.c:62 and report.c:81). *)
THEOREM LatencyIsMean == Spec => []LatencyMean
<1>1. Inv /\ Figures => LatencyMean
  <2> SUFFICES ASSUME Inv, Figures, NEW s \in Sides, NEW sec \in Sections(s),
                      SumOf("latency", results[Receiver(sec.dir)][sec.dir]) < Mod32
               PROVE  sec.collected.latency \in
                        Min({Latency[w] : w \in Team(sec.dir)}) .. Max({Latency[w] : w \in Team(sec.dir)})
    BY DEF LatencyMean
  <2> DEFINE d == sec.dir
             r == results[Receiver(d)][d]
             T == Team(d)
             total == SumOf("latency", r)
             F == {Latency[w] : w \in T}
             n == Cardinality(T)
  <2>0. InvConfig /\ InvOthers
    BY DEF Inv
  <2>1. /\ d \in Dirs /\ Done(d) /\ DOMAIN r = Workers /\ IsFiniteSet(DOMAIN r)
        /\ \A w \in Workers : r[w] = Found(d, w) /\ r[w] \in Collected
        /\ sec.collected = Combine(r, cfg.async)
    BY CollectedIs
  <2>2. /\ T \subseteq Workers /\ IsFiniteSet(T) /\ T # {}
        /\ n \in Nat \ {0}
        /\ n = IF cfg.async THEN Cardinality(Workers) \div 2 ELSE Cardinality(Workers)
    BY <2>0, <2>1, TeamIs, TeamSize
  <2>3. \A w \in T : r[w].latency = Latency[w]
    BY <2>1, <2>2 DEF Figures
  <2>4. \A w \in Workers \ T : r[w].latency = 0
    BY <2>0, <2>1, ReceiverIs DEF InvOthers, Nothing
  <2>5. total < Mod32
    OBVIOUS
  <2> HIDE DEF r, T, n
  <2>6. \A w \in Workers : r[w]["latency"] \in Nat /\ r[w]["latency"] = r[w].latency
    BY <2>1, FieldTypes
  <2>7. \A w \in T : Latency[w] \in Nat
    BY <2>2, <2>3, <2>6
  <2>8. F \in SUBSET Nat /\ F # {} /\ IsFiniteSet(F)
    <3>1. F \in SUBSET Nat /\ F # {}
      BY <2>2, <2>7
    <3> DEFINE f == [w \in T |-> Latency[w]]
    <3>2. f \in Surjection(T, F)
      BY DEF Surjection
    <3>3. IsFiniteSet(F)
      BY <2>2, <3>2, FS_Surjection
    <3> QED
      BY <3>1, <3>3
  <2>9. /\ Min(F) \in Nat /\ Max(F) \in Nat
        /\ \A w \in T : Min(F) <= Latency[w] /\ Latency[w] <= Max(F)
    <3>1. \A w \in T : Latency[w] \in F
      OBVIOUS
    <3> HIDE DEF F
    <3>2. F \in SUBSET Int
      BY <2>8
    <3>3. Min(F) \in F /\ \A x \in F : Min(F) <= x
      BY <2>8, MinIs
    <3>4. Max(F) \in F /\ \A x \in F : x <= Max(F)
      BY <2>8, <3>2, MaxIs
    <3> QED
      BY <2>8, <3>1, <3>3, <3>4
  <2> HIDE DEF F
  <2>10. n * Min(F) <= total /\ total <= n * Max(F) /\ total \in Nat
    <3>1. /\ \A x \in T : r[x]["latency"] \in Nat /\ Min(F) <= r[x]["latency"]
                          /\ r[x]["latency"] <= Max(F)
          /\ \A x \in (DOMAIN r) \ T : r[x]["latency"] = 0
          /\ \A x \in DOMAIN r : r[x]["latency"] \in Nat
      BY <2>1, <2>2, <2>3, <2>4, <2>6, <2>9
    <3>2. T \in SUBSET (DOMAIN r)
      BY <2>1, <2>2
    <3>3. total \in Nat
      BY <2>1, <3>1, SumType
    <3>4. Cardinality(T) * Min(F) <= total /\ total <= Cardinality(T) * Max(F)
      BY <2>1, <2>9, <3>1, <3>2, SumBounds
    <3> QED
      BY <3>3, <3>4 DEF n
  <2>11. sec.collected.latency = (total % Mod32) \div n
    <3>1. \A k : Combined(r, k).latency = (total % Mod32) \div k
      BY DEF Combined
    <3>2. Combine(r, cfg.async) = Combined(r, n)
      BY <2>1, <2>2 DEF Combine
    <3> QED
      BY <2>1, <3>1, <3>2
  <2> HIDE DEF total
  <2>12. total % Mod32 = total
    BY <2>5, <2>10, ReportAssumption, ModSmall
  <2>13. total \div n \in Min(F) .. Max(F)
    BY <2>2, <2>9, <2>10, MeanIs
  <2> QED
    BY <2>11, <2>12, <2>13 DEF F, T, d
<1> QED
  BY <1>1, Invariance, FiguresHold, PTL

-----------------------------------------------------------------------------
(* Packets that came. *)

(* Who received nothing in a round was never busy, and somebody received something
   in a direction that has its result.                                        *)
Unheard(d) ==
  \A w \in Team(d) : Found(d, w).recv = 0 => busy[w] = 0 /\ Found(d, w).count > 0
Heard ==
  \A d \in Dirs :
    /\ pc = "decide" /\ d \in Talks[talk] => Unheard(d)
    /\ Done(d) => \E w \in Team(d) : Found(d, w).recv > 0

(* A direction that is not weak altogether has received something: otherwise all
   its receivers ran into the timeout and its durations are zero.             *)
LEMMA NotWeakHeard ==
  ASSUME Inv, Heard, pc = "decide", ~NeedsRestart, NEW d \in Talks[talk]
  PROVE  \E w \in Team(d) : Found(d, w).recv > 0
<1>0. InvConfig /\ InvType /\ InvRound
  BY DEF Inv
<1>1. d \in Dirs
  BY <1>0, TalksAre DEF InvType
<1>2. Team(d) \subseteq Workers /\ Team(d) # {} /\ IsFiniteSet(Team(d))
  BY <1>0, <1>1, TeamIs
<1>3. \A w \in Team(d) : Found(d, w).recv \in Nat
  BY <1>0, <1>1, <1>2, FoundType, ReportAssumption DEF Collected, Small
<1> SUFFICES ASSUME \A w \in Team(d) : Found(d, w).recv = 0
             PROVE  FALSE
  BY <1>3
<1>4. \A w \in Team(d) : busy[w] = 0 /\ Found(d, w).count > 0
  BY <1>1 DEF Heard, Unheard
<1>5. \A w \in Team(d) : Cut(d)[w] = TRUE
  BY <1>4 DEF Cut
<1>6. \A w \in Team(d) : Found(d, w).duration = Max({busy[u] : u \in Team(d)})
  BY <1>0, <1>5, RoundIs
<1>7. Max({busy[u] : u \in Team(d)}) = 0
  <2>1. {busy[u] : u \in Team(d)} = {0}
    BY <1>2, <1>4
  <2>2. IsFiniteSet({0})
    BY FS_Singleton
  <2> QED
    BY <2>1, <2>2, MaxIs
<1>8. cfg.minTime \in MinTimes /\ cfg.minTime \in Nat
  BY <1>0, MeasureAssumption DEF InvConfig, Configs
<1>9. Threshold(cfg.minTime) \in Int /\ Threshold(cfg.minTime) # 0
  BY <1>8, ThresholdType, MeasureAssumption
<1>10. Weak(0, cfg.minTime)
  BY <1>9 DEF Weak
<1>11. AllWeak(d)
  BY <1>6, <1>7, <1>10 DEF AllWeak
<1> QED
  BY <1>11 DEF NeedsRestart

LEMMA RoundHeard ==
  ASSUME Inv, Heard, SteadyStream \/ FreeStream
  PROVE  Heard'
<1>0. InvConfig /\ InvType /\ InvCounts /\ pc = "stream"
  BY StreamIs DEF Inv
<1>1. PICK own \in [Workers -> Nat], recv \in [Workers -> Nat] :
        /\ Round(own, recv)
        /\ \A w \in Workers : recv[w] = 0 => own[w] = 0
        /\ \A s \in Sides : \A d \in Dirs \ Talks[talk] : results'[s][d] = results[s][d]
        /\ \A d \in Talks[talk] : \A w \in Team(d) :
             /\ results'[Receiver(d)][d][w].recv = recv[w]
             /\ results'[Receiver(d)][d][w].count = count[d]
  BY RoundFields
<1>2. cfg' = cfg /\ talk' = talk /\ pc' = "decide" /\ busy' = own
  BY <1>1 DEF Round
<1>3. /\ Talks' = Talks /\ \A d : Team(d)' = Team(d)
      /\ Dirs' = Dirs
  BY <1>2, Frame DEF Dirs
<1>4. \A d \in Dirs : Receiver(d) \in Sides
  BY ReceiverIs
<1>5. ASSUME NEW d \in Talks[talk]
      PROVE  \A w \in Team(d) : results'[Receiver(d)][d][w].recv = 0 =>
               own[w] = 0 /\ results'[Receiver(d)][d][w].count > 0
  <2>1. d \in Dirs /\ count[d] \in Nat /\ count[d] >= CountDefault
    BY <1>0, TalksAre DEF InvType, InvCounts, Admissible
  <2>2. Team(d) \subseteq Workers
    BY <1>0, <2>1, TeamIs
  <2>3. count[d] > 0
    BY <2>1, RecountAssumption
  <2> QED
    BY <1>1, <2>2, <2>3
<1>6. ASSUME NEW d \in Dirs, Done(d)'
      PROVE  \E w \in Team(d) : results'[Receiver(d)][d][w].recv > 0
  <2>1. Done(d)
    BY <1>2, <1>3, <1>6 DEF Done
  <2>2. d \notin Talks[talk]
    BY <1>0, <2>1, DoneElsewhere DEF InvType
  <2>3. results'[Receiver(d)][d] = results[Receiver(d)][d]
    BY <1>1, <1>4, <2>2
  <2> QED
    BY <2>1, <2>3 DEF Heard, Found
<1> QED
  BY <1>2, <1>3, <1>5, <1>6 DEF Heard, Unheard, Found

LEMMA OtherHeard ==
  ASSUME Inv, Heard, Begin \/ Restart \/ Accept \/ (\E s \in Sides : ProcessReport(s))
                     \/ UNCHANGED vars
  PROVE  Heard'
<1>0. InvConfig /\ InvType /\ InvOthers
  BY DEF Inv
<1>1. cfg' = cfg
  BY DEF Begin, Restart, Accept, ProcessReport, vars
<1>2. /\ Talks' = Talks /\ \A d : Team(d)' = Team(d)
      /\ Dirs' = Dirs
  BY <1>1, Frame DEF Dirs
<1>3. \A d \in Dirs : \A w : Found(d, w)' = Found(d, w)
  BY <1>0, SameFound
<1>4. ASSUME NEW d \in Dirs, pc' = "decide", d \in Talks[talk']
      PROVE  Unheard(d)'
  <2>1. pc = "decide" /\ talk' = talk /\ busy' = busy
    BY <1>4 DEF Begin, Restart, Accept, ProcessReport, vars
  <2>2. Unheard(d)
    BY <1>4, <2>1 DEF Heard
  <2> QED
    BY <1>2, <1>3, <2>1, <2>2 DEF Unheard
<1>5. ASSUME NEW d \in Dirs, Done(d)'
      PROVE  \E w \in Team(d) : Found(d, w).recv > 0
  <2>1. Done(d) \/ (pc = "decide" /\ d \in Talks[talk])
    BY <1>5, DoneBefore
  <2>2. CASE Done(d)
    BY <2>2 DEF Heard
  <2>3. CASE ~Done(d)
    <3>1. pc = "decide" /\ d \in Talks[talk]
      BY <2>1, <2>3
    <3>2. Accept
      BY <1>2, <1>5, <2>3, <3>1 DEF Done, Begin, Restart, ProcessReport, vars
    <3> QED
      BY <3>1, <3>2, NotWeakHeard DEF Accept
  <2> QED
    BY <2>2, <2>3
<1> QED
  BY <1>2, <1>3, <1>4, <1>5 DEF Heard

(* What is reported rests on packets that came, on whatever link: when everything
   was lost, the time that the receivers waited does not make a result.       *)
THEOREM ReportsRestOnPackets == Spec => []SomethingCame
<1>1. Init => Heard
  <2> SUFFICES ASSUME Init
               PROVE  Heard
    OBVIOUS
  <2>1. \A d : ~Done(d)
    BY InitInv, TalksAre DEF Done, Init, Inv
  <2> QED
    BY <2>1 DEF Heard, Init
<1>2. Inv /\ Heard /\ [Next]_vars => Heard'
  BY RoundHeard, OtherHeard DEF Next, Progress, Ended
<1>3. Inv /\ Heard => SomethingCame
  <2> SUFFICES ASSUME Inv, Heard, NEW s \in Sides, NEW sec \in Sections(s)
               PROVE  \E w \in Team(sec.dir) : results[s][sec.dir][w].recv > 0
    BY DEF SomethingCame
  <2>1. /\ sec.dir \in Dirs /\ Done(sec.dir)
        /\ results[s][sec.dir] = results[Receiver(sec.dir)][sec.dir]
    BY SectionIs
  <2> QED
    BY <2>1 DEF Heard, Found
<1> QED
  BY <1>1, <1>2, <1>3, Invariance, PTL DEF Spec
=============================================================================
