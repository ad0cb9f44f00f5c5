----------------------------- MODULE MC_Session -----------------------------
(* Session with one or two workers of each kind on either side. *)
EXTENDS Session
=============================================================================
