-------------------------- MODULE MC_CustomBarrier --------------------------
(* CustomBarrier on a small set of threads. *)
EXTENDS CustomBarrier
=============================================================================
