----------------------------- MODULE MC_Measure -----------------------------
(* Measure with two workers, or four in an asynchronous test.  A tick is a tenth
   of a second and an int ends at 31, so that minimum times of 4 and 7 seconds
   overflow, to a negative and to a small number.  32 bits end at 128: the packets
   of two workers overflow when their count has been tripled twice, and a loss of
   two packets a hundredfold.  A stream may lose more packets than the default
   count has, that is, all of them.                                           *)
EXTENDS Measure

StreamMenu == {<<3, 0>>, <<25, 1>>, <<12, 60>>}
WorkerLatency == [w \in 1 .. 4 |-> 10 * w + w * w]
=============================================================================
