------------------------------- MODULE Report -------------------------------
(* The results of a test: what src/src/report.c makes of the results that the
   workers collected, and what process_report() of src/src/process.c shows and
   exports.  All operators are functions of the collected results.

   A collected result is a record of the latency, the packets expected and
   received, and the duration; the octets, which have 64 bits, are the received
   packets times their size, and the start time, which is not used, is left
   out.  The numbers of packets and the latency have 32 bits in the program.
   Formatting and the exported document are left out.                         *)
EXTENDS Integers, Sequences, SequencesExt, FiniteSets, FiniteSetsExt

CONSTANTS Mod32,         \* 2^32, or less
          PayloadSize,   \* config->talk_payload_current_size
          Mtu,           \* config->net_mtu
          HdrSize        \* estimated size of the headers of a packet

ASSUME ReportAssumption ==
  Mod32 \in Nat \ {0} /\ PayloadSize \in Nat \ {0} /\ Mtu \in Nat \ {0} /\ HdrSize \in Nat

Nothing == [latency |-> 0, count |-> 0, recv |-> 0, duration |-> 0]

(* Mutation: a field is forgotten. *)
ExchangedNoLatency(r) ==
  [r EXCEPT !.latency = 0, !.count = @ % Mod32, !.recv = @ % Mod32]

(* report_marshal() and report_unmarshal(): what the sender has of the receiver's
   results.  The conversions to and from the order of the network cancel out;
   the duration and the octets have 64 bits.                                  *)
Exchanged(r) ==
  [r EXCEPT !.latency = @ % Mod32, !.count = @ % Mod32, !.recv = @ % Mod32]

SumOf(field, results) == MapThenSumSet(LAMBDA w : results[w][field], DOMAIN results)

(* The sums over all the workers, the longest duration, and the mean latency of
   n workers.                                                                 *)
Combined(results, n) ==
  [latency |-> (SumOf("latency", results) % Mod32) \div n,
   count |-> SumOf("count", results) % Mod32,
   recv |-> SumOf("recv", results) % Mod32,
   bytes |-> SumOf("recv", results) * PayloadSize,
   duration |-> Max({results[w].duration : w \in DOMAIN results})]

(* Mutations: the packets received by one worker; the latency of an asynchronous
   test spread over all the workers.                                          *)
CombineOne(results, async) ==
  [Combined(results, IF async THEN Cardinality(DOMAIN results) \div 2
                              ELSE Cardinality(DOMAIN results))
     EXCEPT !.recv = Max({results[w].recv : w \in DOMAIN results})]
CombineAll(results, async) == Combined(results, Cardinality(DOMAIN results))

(* report_worker_combine() for one direction, in which only half of the workers
   of an asynchronous test have results.                                      *)
Combine(results, async) ==
  Combined(results, IF async THEN Cardinality(DOMAIN results) \div 2
                             ELSE Cardinality(DOMAIN results))

(* _report_bandwidth_theoretical_mbps(): the next class of Ethernet. *)
Classes == {10, 100, 1000, 2500, 5000, 10000, 20000, 40000, 100000, 200000, 400000,
            800000, 1000000, 1600000}
Theoretical(effective) ==
  LET above == {c \in Classes : effective < c} IN
  IF above = {} THEN effective ELSE Min(above)

(* report_results_compute(), with the packet loss in hundredths of the count;
   bits per tick instead of Mbps, truncated.                                  *)
Compute(c) ==
  LET totalPkts == c.bytes \div (IF Mtu < PayloadSize THEN Mtu ELSE PayloadSize)
      effective == (c.bytes * 8) \div c.duration
  IN  [estimated |-> ((c.bytes + totalPkts * HdrSize) * 8) \div c.duration,
       effective |-> effective,
       theoretical |-> Theoretical(effective),
       fragments |-> (PayloadSize + Mtu - 1) \div Mtu,
       lost |-> ((c.count - c.recv) * 100) % Mod32]

(* The directions that process_report() shows, in this order. *)
Shown(cfg) ==
  (IF cfg.bidirectional \/ ~cfg.reverseFirst THEN <<0>> ELSE <<>>) \o
  (IF cfg.bidirectional \/ cfg.reverseFirst THEN <<1>> ELSE <<>>)

(* Whether side s was the receiver in direction d. *)
Download(s, d) == (s = "listener") = (d = 0)

(* What side s shows of the combined results of direction d. *)
Section(s, d, combined) ==
  [dir |-> d, label |-> IF Download(s, d) THEN "download" ELSE "upload",
   collected |-> combined, computed |-> Compute(combined)]
=============================================================================
