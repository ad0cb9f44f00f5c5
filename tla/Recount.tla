------------------------------ MODULE Recount ------------------------------
(* The arithmetic of a stream in src/src/talk.c: how long it took, whether that
   is too short to be a measurement, and how many packets the next one has.

   Times are in ticks.  The program's tick is a microsecond and its int has 32
   bits; a model uses fewer of either.  Ratios that the program computes as
   doubles are exact here, and truncated where the program truncates.         *)
EXTENDS Integers, FiniteSetsExt

CONSTANTS
  Second,         \* ticks in a second
  IntMax,         \* the largest int
  StreamRun,      \* config->net_timeout_talk_stream_run, in seconds
  CountDefault,   \* config->talk_count_default
  CountMax        \* config->talk_count_max

ASSUME RecountAssumption ==
  /\ Second \in Nat \ {0} /\ IntMax \in Nat \ {0} /\ StreamRun \in Nat \ {0}
  /\ CountDefault \in Nat /\ CountMax \in Nat
  /\ 5 <= CountDefault /\ CountDefault < CountMax

(* talk_stream_minimum_time * 1000000 as the program computes it: in an int, for
   the time is 16 bits wide.  What exceeds the int wraps around.              *)
Threshold(minTime) == ((minTime * Second + IntMax + 1) % (2 * (IntMax + 1))) - IntMax - 1
Overflows(minTime) == minTime * Second > IntMax

(* Mutation: the timeout is part of the duration. *)
DurationsNoTimeout(own, cut) ==
  [w \in DOMAIN own |->
     Max({own[u] + (IF cut[u] THEN StreamRun * Second ELSE 0) : u \in DOMAIN own})]

(* The durations that the receivers of a direction compute.  own[w] is when w's
   last packet came; cut[w] says that the rest did not, which w has waited for
   until the timeout.  Everybody looks at the clock after the barrier with the
   others, and those who timed out subtract their own timeout.                *)
Durations(own, cut) ==
  LET Waited(w) == IF cut[w] THEN StreamRun * Second ELSE 0
      end == Max({own[w] + Waited(w) : w \in DOMAIN own})
  IN  [w \in DOMAIN own |-> end - Waited(w)]

(* A stream is weak if it is shorter than the minimum.  The comparison is one of
   unsigned numbers, so that a negative threshold is longer than any stream.  *)
Weak(t, minTime) == Threshold(minTime) < 0 \/ t < Threshold(minTime)

(* The tolerance, in percent. *)
Tolerance(async) == IF async THEN 135 ELSE 120

(* Mutations: no tolerance; the factor is an integer; the time has been reset. *)
MultipliedExactly(count, t, minTime, countMul, async) ==
  LET time == IF t = 0 THEN 1 ELSE t IN
  IF countMul # 0 THEN count * countMul
  ELSE IF Threshold(minTime) < time THEN count
  ELSE (count * Threshold(minTime)) \div time

MultipliedInteger(count, t, minTime, countMul, async) ==
  LET time == IF t = 0 THEN 1 ELSE t IN
  IF countMul # 0 THEN count * countMul
  ELSE IF Threshold(minTime) < time THEN count
  ELSE count * ((Threshold(minTime) * Tolerance(async)) \div (time * 100))

MultipliedReset(count, t, minTime, countMul, async) ==
  IF countMul # 0 THEN count * countMul
  ELSE (count * Threshold(minTime) * Tolerance(async)) \div 100

(* The count of the next round: multiplied by -M or, by default, by the factor
   that would have made the stream long enough, and the tolerance.            *)
Multiplied(count, t, minTime, countMul, async) ==
  LET time == IF t = 0 THEN 1 ELSE t IN
  IF countMul # 0 THEN count * countMul
  ELSE IF Threshold(minTime) < time THEN (count * Tolerance(async)) \div 100
  ELSE (count * Threshold(minTime) * Tolerance(async)) \div (time * 100)

(* The sender asserts that a new count is at most the maximum, the receiver
   refuses the maximum itself.                                                *)
Admissible(count) == CountDefault <= count /\ count < CountMax
=============================================================================
