----------------------------- MODULE MC_Config -----------------------------
(* Config with the options on both sides of their limits. *)
EXTENDS Config

Numeric(opt, args) == {<<opt, a>> : a \in args}
Flags(opts) == {<<opt, 0>> : opt \in opts}

AllOptions ==
  Flags({"A", "b", "C", "R"}) \cup {<<"p", "tcp">>, <<"p", "udp">>, <<"p", "sctp">>}
  \cup Numeric("B", {-1, 0, 600, 65536})
  \cup Numeric("I", {0, 65536}) \cup Numeric("N", {0, 1, 65535})
  \cup Numeric("m", {507, 508}) \cup Numeric("s", {507, 508, 8192, 8193})
  \cup Numeric("M", {1, 2, 9999999, 10000000})
  \cup Numeric("o", {0, 1, 19, 20, 25}) \cup Numeric("O", {1, 4, 19, 30, 120, 65535})
  \cup Numeric("T", {0, 1, 19, 20, 30}) \cup Numeric("w", {1, 20, 21, 65535})
  \cup Numeric("t", {0, 1, 65535}) \cup Numeric("W", {0, 1, 2, 3, 4, 1023, 1024, 1025})
=============================================================================
