------------------------------ MODULE Measure ------------------------------
(* A test as a measurement: the rounds of the streams of all the workers, until
   their durations make a result, and the report on it.  Where Talk leaves open
   whether a stream was weak and how much its count is raised, this module
   computes both (module Recount); what Talk shows, that the workers go through
   the rounds in lockstep and agree on count, verdict and result, is taken for
   granted, so that a round is a single step.

   The link is either steady, with the same time per packet in all rounds and
   nothing lost, or anything may happen on it in each round.                  *)
EXTENDS Recount, Report

CONSTANTS
  SyncWorkers,    \* config->worker_count of a test that is not asynchronous
  AsyncWorkers,   \* ... and of one that is
  MinTimes,       \* values of -t
  CountMuls,      \* values of -M, 0 for the default
  Rates,          \* tenths of a tick per packet on a steady link
  Streams,        \* on any other link: <<how long a stream takes, how many packets it loses>>,
                  \* of those it has
  Latency         \* Latency[w]: what the handshake of w found

ASSUME MeasureAssumption ==
  /\ {SyncWorkers, AsyncWorkers} \subseteq Nat \ {0} /\ AsyncWorkers % 2 = 0
  /\ MinTimes \subseteq Nat \ {0} /\ CountMuls \subseteq Nat \ {1}
  /\ \A m \in MinTimes : Threshold(m) # 0
  /\ Rates \subseteq Nat \ {0} /\ \A r \in Rates : CountDefault * r >= 10
  /\ Streams \subseteq Nat \X Nat
  /\ \A w \in 1 .. SyncWorkers \cup 1 .. AsyncWorkers : Latency[w] \in 0 .. Mod32 - 1
  /\ CountMax <= Mod32

VARIABLES
  cfg,        \* the configuration, the same in both processes
  link,       \* link[w]: the steady rate of w, 0 if its link is not steady
  pc,         \* where the test is
  talk,       \* number of the current talk
  round,      \* rounds of it so far (history, up to Many)
  count,      \* count[d]: __talk[d].count
  busy,       \* busy[w]: when the last packet for w came in this round, 0 before it
  results,    \* results[s][d][w]: collected by worker w of side s in direction d
  shown       \* shown[s]: the sections of the report of side s

vars == <<cfg, link, pc, talk, round, count, busy, results, shown>>

WorkerCount == IF cfg.async THEN AsyncWorkers ELSE SyncWorkers
Workers == 1 .. WorkerCount
Sides == {"listener", "connector"}
Many == 3
Dirs == {0, 1}

(* The directions of each talk: an asynchronous test is one talk in both. *)
First == IF cfg.reverseFirst THEN 1 ELSE 0
Talks == IF cfg.async THEN <<Dirs>>
         ELSE IF cfg.bidirectional THEN <<{First}, {1 - First}>> ELSE <<{First}>>

(* The workers that stream in direction d, and the direction of worker w. *)
Half(w) == IF w > WorkerCount \div 2 THEN 1 ELSE 0
Team(d) == IF cfg.async THEN {w \in Workers : Half(w) = d} ELSE Workers
DirOf(w) == IF cfg.async THEN Half(w) ELSE CHOOSE d \in Talks[talk] : TRUE

(* Who receives in direction d, and what a worker there has found. *)
Receiver(d) == CHOOSE s \in Sides : Download(s, d)
Found(d, w) == results[Receiver(d)][d][w]

Silent == [w \in Workers |-> 0]

Init ==
  /\ cfg \in [async : BOOLEAN, bidirectional : BOOLEAN, reverseFirst : BOOLEAN,
              minTime : MinTimes, countMul : CountMuls]
  /\ cfg.async => cfg.bidirectional /\ ~cfg.reverseFirst
  /\ link \in [Workers -> Rates] \cup {Silent}
  /\ pc = "begin" /\ talk = 1 /\ round = 0
  /\ count = [d \in Dirs |-> 0]
  /\ busy = Silent
  /\ results = [s \in Sides |-> [d \in Dirs |-> [w \in Workers |-> Nothing]]]
  /\ shown = [s \in Sides |-> <<>>]

(* The counts of a talk are set to the default. *)
Begin == /\ pc = "begin"
         /\ count' = [d \in Dirs |-> IF d \in Talks[talk] THEN CountDefault ELSE count[d]]
         /\ round' = 0
         /\ pc' = "stream"
         /\ UNCHANGED <<cfg, link, talk, busy, results, shown>>

Steady == \A w \in Workers : link[w] > 0

(* A round of streams, in which worker w receives recv[w] packets until own[w].
   The receivers compute their durations and store their results; the senders
   store the count and the latency, which they have told the receivers.       *)
Round(own, recv) ==
  /\ busy' = own
  /\ results' = [s \in Sides |-> [d \in Dirs |->
       IF d \notin Talks[talk] THEN results[s][d]
       ELSE LET cut == [w \in Team(d) |-> recv[w] < count[d]]
                time == Durations([w \in Team(d) |-> own[w]], cut)
            IN  [w \in Workers |->
                   IF w \notin Team(d) THEN results[s][d][w]
                   ELSE IF Download(s, d)
                   THEN [latency |-> Latency[w], count |-> count[d], recv |-> recv[w],
                         duration |-> time[w]]
                   ELSE [results[s][d][w] EXCEPT !.latency = Latency[w], !.count = count[d]]]]]
  /\ round' = IF round = Many THEN Many ELSE round + 1
  /\ pc' = "decide"
  /\ UNCHANGED <<cfg, link, talk, count, shown>>

SteadyStream ==
  /\ pc = "stream" /\ Steady
  /\ Round([w \in Workers |-> (count[DirOf(w)] * link[w]) \div 10],
           [w \in Workers |-> count[DirOf(w)]])

(* What is received of a stream that loses some packets, and when the last of it
   came: at once if there is nothing, as the timeout that is subtracted started
   with the stream.                                                           *)
FreeStream ==
  /\ pc = "stream" /\ ~Steady
  /\ \E stream \in [Workers -> Streams] :
       LET Lost(w) == Min({stream[w][2], count[DirOf(w)]})
           recv == [w \in Workers |-> count[DirOf(w)] - Lost(w)]
       IN  Round([w \in Workers |-> IF recv[w] = 0 THEN 0 ELSE stream[w][1]], recv)

(* All the streams of direction d were weak. *)
AllWeak(d) == \A w \in Team(d) : Weak(Found(d, w).duration, cfg.minTime)

(* Mutation: a restart takes weak streams in all directions. *)
NeedsRestartAll == \A d \in Talks[talk] : AllWeak(d)

NeedsRestart == \E d \in Talks[talk] : AllWeak(d)

(* The counts of the weak directions are raised, each from the duration that was
   marked last, and both ends look at them.                                   *)
Restart ==
  /\ pc = "decide" /\ NeedsRestart
  /\ \E last \in [Talks[talk] -> Workers] :
       /\ \A d \in Talks[talk] : last[d] \in Team(d)
       /\ count' = [d \in Dirs |->
            IF d \in Talks[talk] /\ AllWeak(d)
            THEN Multiplied(count[d], Found(d, last[d]).duration, cfg.minTime, cfg.countMul, cfg.async)
            ELSE count[d]]
  /\ pc' = IF \A d \in Talks[talk] : Admissible(count'[d]) THEN "stream" ELSE "failed"
  /\ busy' = Silent
  /\ UNCHANGED <<cfg, link, talk, round, results, shown>>

(* The receivers send their results to the senders. *)
ExchangeReports ==
  results' = [s \in Sides |-> [d \in Dirs |-> [w \in Workers |->
    IF d \in Talks[talk] /\ w \in Team(d) /\ ~Download(s, d)
    THEN Exchanged(Found(d, w)) ELSE results[s][d][w]]]]

(* The talk has its result. *)
Accept ==
  /\ pc = "decide" /\ ~NeedsRestart
  /\ IF talk < Len(Talks) THEN talk' = talk + 1 /\ pc' = "begin"
                          ELSE UNCHANGED talk /\ pc' = "report"
  /\ ExchangeReports
  /\ busy' = Silent
  /\ UNCHANGED <<cfg, link, round, count, shown>>

(* process_report() of side s. *)
ProcessReport(s) ==
  /\ pc = "report" /\ shown[s] = <<>>
  /\ \E straight \in {Combine(results[s][0], cfg.async)},
        reverse \in {Combine(results[s][1], cfg.async)} :
       shown' = [shown EXCEPT ![s] =
         [i \in DOMAIN Shown(cfg) |->
            LET d == Shown(cfg)[i] IN Section(s, d, IF d = 0 THEN straight ELSE reverse)]]
  /\ UNCHANGED <<cfg, link, pc, talk, round, count, busy, results>>

(* The test has failed, or both processes have reported. *)
Ended == /\ pc = "failed" \/ \A s \in Sides : shown[s] # <<>>
         /\ UNCHANGED vars

Progress == \/ Begin \/ SteadyStream \/ FreeStream \/ Restart \/ Accept
            \/ \E s \in Sides : ProcessReport(s)

Next == Progress \/ Ended

Spec == Init /\ [][Next]_vars

(* A test goes on as long as it can. *)
FairSpec == Spec /\ WF_vars(Progress)

-----------------------------------------------------------------------------
(* Properties. *)

(* The sections of the report of side s that have been written. *)
Sections(s) == {shown[s][i] : i \in DOMAIN shown[s]}

Regular == cfg.countMul = 0 /\ ~Overflows(cfg.minTime)

(* What is reported rests on a stream of at least the minimum time in that
   direction (-t), although the marks count workers, both directions share one
   weak count and a restart of one direction repeats the other; provided the
   minimum fits into the int in which line 658 computes it.                   *)
LongEnough ==
  ~Overflows(cfg.minTime) =>
    \A s \in Sides : \A sec \in Sections(s) :
      sec.collected.duration >= cfg.minTime * Second

(* The duration of a direction, the longest of its workers' (lines 629-630), is
   never less than the time in which packets came, and exceeds it by a timeout
   at most: if some worker, but not every one, ran into its timeout.          *)
DurationFair ==
  pc = "decide" => \A d \in Talks[talk] :
    LET came == Max({busy[w] : w \in Team(d)})
        duration == Max({Found(d, w).duration : w \in Team(d)})
        Cut(w) == Found(d, w).recv < Found(d, w).count
    IN  /\ came <= duration /\ duration <= came + StreamRun * Second
        /\ (\A w, u \in Team(d) : Cut(w) = Cut(u)) => duration = came

(* On a steady link one recount is enough: the tolerance (lines 928-943) makes up
   for the truncation of the count.                                           *)
OneRecount == Steady /\ Regular => round <= 2

(* A test on a steady link fails only if the link is so fast that the largest
   count would not, or hardly, last for the minimum time, at the speed of the
   first stream of each worker: the two limits of lines 328 and 954 do not
   refuse a test that could be run.                                           *)
FailsOnlyAtLimit ==
  pc = "failed" /\ Steady /\ Regular =>
    \E d \in Talks[talk] : \A w \in Team(d) :
      CountMax * ((CountDefault * link[w]) \div 10) * 100
        <= CountDefault * cfg.minTime * Second * Tolerance(cfg.async)

(* What is reported rests on packets that came: a direction in which every worker
   lost all of its packets is taken as weak and not as a slow link, because the
   time that its receivers waited is not part of the duration (line 630).     *)
SomethingCame ==
  \A s \in Sides : \A sec \in Sections(s) :
    \E w \in Team(sec.dir) : results[s][sec.dir][w].recv > 0

(* The reported packet loss is the share of the packets of all the workers of a
   direction that did not come, even if their sums (report.c:64-65) have gone
   round in 32 bits: they go round in the difference of report.c:237 as well,
   unless that itself, a hundredfold, has no room.                            *)
LossExact ==
  \A s \in Sides : \A sec \in Sections(s) :
    LET sent == SumOf("count", results[Receiver(sec.dir)][sec.dir])
        lost == sent - SumOf("recv", results[Receiver(sec.dir)][sec.dir])
    IN  /\ sent < Mod32 => sec.collected.count = sent
        /\ lost * 100 < Mod32 => sec.computed.lost = lost * 100

(* The reported latency lies between those of the workers of the direction, unless
   their sum, of 32 bits, overflows (report.c:62).                            *)
LatencyMean ==
  \A s \in Sides : \A sec \in Sections(s) :
    LET found == {Latency[w] : w \in Team(sec.dir)}
        total == SumOf("latency", results[Receiver(sec.dir)][sec.dir])
    IN  total < Mod32 => sec.collected.latency \in Min(found) .. Max(found)

(* Both sides report exactly the directions that were tested, and what one calls
   download the other calls upload, with the same figures.                    *)
SectionsMatch ==
  (\A s \in Sides : shown[s] # <<>>) =>
    /\ \A s \in Sides : {sec.dir : sec \in Sections(s)} = UNION {Talks[k] : k \in DOMAIN Talks}
    /\ \A a \in Sections("listener"), b \in Sections("connector") :
         /\ (a.label = b.label) = (a.dir # b.dir)
         /\ a.dir = b.dir => a.collected = b.collected /\ a.computed = b.computed

(* A restart raises the count of a direction and lowers none. *)
RestartRaises ==
  [][pc = "decide" /\ pc' # pc /\ NeedsRestart =>
       /\ \E d \in Dirs : count'[d] > count[d]
       /\ \A d \in Dirs : count'[d] >= count[d]]_vars

(* So that every test comes to an end, on whatever link: with a report of both
   sides, or at the limit of the count.                                       *)
Settles == <>(pc = "failed" \/ \A s \in Sides : shown[s] # <<>>)
=============================================================================
