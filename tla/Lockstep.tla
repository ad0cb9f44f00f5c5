------------------------------ MODULE Lockstep ------------------------------
(* What talk_sender() and talk_receiver() (src/src/talk.c) promise together: all
   the workers of the two processes measure in lockstep.  A test is a sequence
   of talks, a talk a sequence of rounds.  Nobody begins a round before
   everybody has begun the one before; in a round the workers of a direction
   stream the same number of packets, and never fewer than in the round before;
   and everybody closes a talk after the same round.

   Nothing here is exchanged: how two machines that share no memory come to agree
   on this is what module Talk is about.                                      *)
EXTENDS Naturals

CONSTANTS Workers,     \* the workers of both processes
          Direction,   \* Direction[w]: the direction in which w tests; workers of a
                       \* direction stream the same number of packets
          Talks,       \* the number of talks of a test
          Counts       \* the packet counts that can be agreed upon

VARIABLES talk,        \* talk[w]: the talk that w is in
          round,       \* round[w]: the rounds of it that w has begun
          count,       \* count[w]: packets in its current round
          closed       \* closed[w]: w goes on to report the result of the talk

vars == <<talk, round, count, closed>>

Init == /\ talk = [w \in Workers |-> 1]
        /\ round = [w \in Workers |-> 0]
        /\ count = [w \in Workers |-> 0]
        /\ closed = [w \in Workers |-> FALSE]

(* w and u are in the same talk, or u is already about to begin the next. *)
NotBehind(u, w) == \/ talk[u] = talk[w]
                   \/ talk[u] = talk[w] + 1 /\ round[u] = 0

(* The counts that are left to w in its next round: that of the team mates who
   have begun it, otherwise any that is no lower.                             *)
Agreeable(w) == {c \in Counts :
                   /\ c >= count[w]
                   /\ \A u \in Workers :
                        Direction[u] = Direction[w] /\ round[u] > round[w] => count[u] = c}

(* w begins a round. *)
Begin(w) == /\ ~closed[w]
            /\ round' = [round EXCEPT ![w] = @ + 1]
            /\ \A u \in Workers : /\ talk[u] = talk[w] /\ ~closed[u]
                                  /\ round[u] \in {round[w], round[w] + 1}
            /\ \E c \in Agreeable(w) : count' = [count EXCEPT ![w] = c]
            /\ UNCHANGED <<talk, closed>>

(* w takes the result of its round for the result of the talk. *)
Close(w) == /\ ~closed[w] /\ round[w] > 0
            /\ closed' = [closed EXCEPT ![w] = TRUE]
            /\ \A u \in Workers : /\ NotBehind(u, w)
                                  /\ talk[u] = talk[w] => round[u] = round[w]
            /\ UNCHANGED <<talk, round, count>>

(* w goes on to the next talk, possibly before others have closed this one. *)
NextTalk(w) == /\ closed[w] /\ talk[w] < Talks
               /\ talk' = [talk EXCEPT ![w] = @ + 1]
               /\ round' = [round EXCEPT ![w] = 0]
               /\ count' = [count EXCEPT ![w] = 0]
               /\ closed' = [closed EXCEPT ![w] = FALSE]

Next == \E w \in Workers : Begin(w) \/ Close(w) \/ NextTalk(w)

Safe == Init /\ [][Next]_vars
=============================================================================
