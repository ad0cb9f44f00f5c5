---------------------------- MODULE ConfigProofs ----------------------------
(* The configuration of the two processes, for any options in any order, any
   arguments and command lines of any length.                                 *)
EXTENDS Config, TLAPS

-----------------------------------------------------------------------------
(* The inductive invariant. *)

(* What holds of a configuration while the options are read, whatever the order
   of those on which usage_check_optarg() looks back; straight and reverse are
   not set yet.                                                               *)
Configs ==
  [async : BOOLEAN, bidirectional : BOOLEAN, reverseFirst : BOOLEAN,
   proto : {"tcp", "udp"}, timeout : Nat, streamRun : Nat, streamEnd : Nat,
   reverseDelay : Nat, mtu : Nat, handshakeIter : Nat, handshakeInterval : Nat,
   countMul : Nat, payloadDefault : Nat, payloadCurrent : Nat, minimumTime : Nat,
   bufferSize : Nat, bufferFile : BOOLEAN, workers : Nat, straight : Nat, reverse : Nat]

Ranges(c) ==
  /\ c \in Configs
  /\ 0 < c.streamRun /\ 0 < c.reverseDelay
  /\ TalkPayloadMinSize <= c.mtu /\ TalkPayloadMinSize <= c.payloadDefault
  /\ TalkPayloadMinSize <= c.payloadCurrent /\ c.payloadCurrent <= TalkPayloadMaxSize
  /\ 0 < c.handshakeIter /\ 0 < c.minimumTime
  /\ c.countMul # 0 => 1 < c.countMul /\ c.countMul < TalkCountMulMax
  /\ 0 < c.workers /\ c.workers <= WorkersMax
  /\ c.async => c.bidirectional /\ ~c.reverseFirst

(* The workers have been split. *)
IsSplit(c) ==
  /\ c.async => c.workers % 2 = 0 /\ c.straight = c.workers \div 2
                /\ c.reverse = c.workers \div 2
  /\ ~c.async => /\ c.straight = IF c.reverseFirst THEN 0 ELSE c.workers
                 /\ c.reverse = IF c.reverseFirst THEN c.workers ELSE 0

(* The only ways in which a consistent configuration is not sane. *)
Excused(c) == \/ c.payloadDefault > TalkPayloadMaxSize
              \/ c.proto = "udp" /\ (c.async \/ c.workers > 1)

InvCfg ==
  \A s \in Sides :
    /\ Ranges(cfg[s])
    /\ status[s] = "parsing" => cfg[s].straight = 0 /\ cfg[s].reverse = 0
    /\ status[s] \in Passed \cup {"failed"} =>
         IsSplit(cfg[s]) /\ Consistent(cfg[s]) /\ Sane(cfg[s])
    /\ status[s] = "aborted" =>
         \/ cfg[s].straight = 0 /\ cfg[s].reverse = 0
         \/ Excused(cfg[s])

Agreed == Payload(cfg["listener"]) = Payload(cfg["connector"])

(* What is on the wire is the configuration of the process that sent it, which
   does not change any more, and the listener has decided before the connector
   does.                                                                      *)
InvWire ==
  /\ wire["listener"] # {} =>
       /\ Sides = {"listener", "connector"}
       /\ wire["listener"] = {Payload(cfg["connector"])}
       /\ status["connector"] \in {"connecting", "failed"}
       /\ status["listener"] = "ready"
  /\ Sides = {"listener", "connector"} /\ wire["connector"] # {} =>
       /\ wire["connector"] = {Payload(cfg["listener"])}
       /\ status["listener"] \in {"talking", "mismatch"}
  /\ Sides # {"listener", "connector"} => status["listener"] # "talking"
  /\ Sides = {"listener", "connector"} =>
       /\ status["listener"] = "talking" =>
            Agreed /\ status["connector"] \in {"connecting", "talking", "failed"}
       /\ status["listener"] = "mismatch" =>
            ~Agreed /\ status["connector"] \in {"connecting", "mismatch", "failed"}
       /\ status["connector"] = "talking" => status["listener"] = "talking"

TypeInv ==
  /\ cfg = [s \in Sides |-> cfg[s]]
  /\ given \in [Sides -> 0 .. MaxOptions]
  /\ status \in [Sides -> Passed \cup {"parsing", "refused", "aborted", "failed"}]
  /\ wire = [s \in Sides |-> wire[s]]

Inv == TypeInv /\ InvCfg /\ InvWire

-----------------------------------------------------------------------------
(* What one option, and the end of the options, do to a configuration. *)

(* All that is used of the limits in config.h and usage.c. *)
LEMMA Limits ==
  /\ Uint16Max \in Nat /\ BufferMax \in Nat /\ TalkCountMulMax \in Nat
  /\ WorkersMax \in Nat /\ WorkersMax % 2 = 0 /\ WorkersMax <= Uint16Max
  /\ TalkPayloadMinSize \in Nat /\ TalkPayloadMaxSize \in Nat
  /\ TimeoutTalkStreamEnd \in Nat
BY SMT DEF Uint16Max, BufferMax, WorkersMax, TalkPayloadMinSize, TalkPayloadMaxSize,
   TimeoutTalkStreamEnd, TalkCountMulMax, TalkCountMax, TalkCountDefault

LEMMA DefaultRanges == Ranges(Defaults) /\ Defaults.straight = 0 /\ Defaults.reverse = 0
BY SMT DEF Ranges, Configs, Defaults, WorkersMax, TalkPayloadMinSize, TalkPayloadMaxSize,
   TimeoutTalkStreamEnd

(* An option stores what has been admitted, and leaves the rest alone. *)
LEMMA ApplyRanges ==
  ASSUME NEW c, Ranges(c), NEW opt \in DOMAIN Field \cup {"A", "b", "C", "p", "R"}, NEW arg,
         Checked(opt, arg, c), Asserted(opt, arg)
  PROVE  /\ Ranges(Apply(opt, arg, c))
         /\ Apply(opt, arg, c).straight = c.straight
         /\ Apply(opt, arg, c).reverse = c.reverse
<1> DEFINE e == Apply(opt, arg, c)
<1> USE Limits DEF Ranges, Configs
<1>1. CASE opt = "A"
  <2>1. e = [c EXCEPT !.async = TRUE, !.bidirectional = TRUE] /\ ~c.reverseFirst
    BY <1>1 DEF Apply, Checked
  <2> QED BY <2>1
<1>2. CASE opt = "b"
  <2>1. e = [c EXCEPT !.bidirectional = TRUE]
    BY <1>2 DEF Apply
  <2> QED BY <2>1
<1>3. CASE opt = "C"
  <2>1. e = [c EXCEPT !.bufferFile = TRUE]
    BY <1>3 DEF Apply
  <2> QED BY <2>1
<1>4. CASE opt = "R"
  <2>1. e = [c EXCEPT !.reverseFirst = TRUE] /\ ~c.async
    BY <1>4 DEF Apply, Checked
  <2> QED BY <2>1
<1>5. CASE opt = "p"
  <2>1. e = [c EXCEPT !.proto = arg] /\ arg \in {"tcp", "udp"}
    BY <1>5 DEF Apply, Checked
  <2> QED BY <2>1
<1>6. CASE opt = "o"
  <2>1. e = [c EXCEPT !.reverseDelay = arg, !.bidirectional = TRUE]
    BY <1>6 DEF Apply
  <2>2. arg \in Nat /\ 0 < arg
    BY <1>6 DEF Checked, Admitted
  <2> QED BY <2>1, <2>2
<1>7. CASE opt = "B"
  <2>1. e = [c EXCEPT !.bufferSize = arg]
    BY <1>7 DEF Apply, Field
  <2>2. arg \in 0 .. BufferMax
    BY <1>7 DEF Checked, Admitted
  <2> QED BY <2>1, <2>2
<1>8. CASE opt = "I"
  <2>1. e = [c EXCEPT !.handshakeInterval = arg]
    BY <1>8 DEF Apply, Field
  <2>2. arg \in 0 .. Uint16Max
    BY <1>8 DEF Checked, Admitted
  <2> QED BY <2>1, <2>2
<1>9. CASE opt = "m"
  <2>1. e = [c EXCEPT !.mtu = arg]
    BY <1>9 DEF Apply, Field
  <2>2. arg \in TalkPayloadMinSize .. Uint16Max
    BY <1>9 DEF Checked, Admitted
  <2> QED BY <2>1, <2>2
<1>10. CASE opt = "M"
  <2>1. e = [c EXCEPT !.countMul = arg]
    BY <1>10 DEF Apply, Field
  <2>2. arg \in 2 .. TalkCountMulMax - 1
    BY <1>10 DEF Checked, Admitted
  <2> QED BY <2>1, <2>2
<1>11. CASE opt = "N"
  <2>1. e = [c EXCEPT !.handshakeIter = arg]
    BY <1>11 DEF Apply, Field
  <2>2. arg \in 1 .. Uint16Max
    BY <1>11 DEF Checked, Admitted
  <2> QED BY <2>1, <2>2
<1>12. CASE opt = "O"
  <2>1. e = [c EXCEPT !.streamEnd = arg]
    BY <1>12 DEF Apply, Field
  <2>2. arg \in 1 .. Uint16Max
    BY <1>12 DEF Checked, Admitted
  <2> QED BY <2>1, <2>2
<1>13. CASE opt = "s"
  <2>1. e = [c EXCEPT !.payloadDefault = arg]
    BY <1>13 DEF Apply, Field
  <2>2. arg \in TalkPayloadMinSize .. Uint16Max
    BY <1>13 DEF Checked, Admitted
  <2> QED BY <2>1, <2>2
<1>14. CASE opt = "t"
  <2>1. e = [c EXCEPT !.minimumTime = arg]
    BY <1>14 DEF Apply, Field
  <2>2. arg \in 1 .. Uint16Max
    BY <1>14 DEF Checked, Admitted
  <2> QED BY <2>1, <2>2
<1>15. CASE opt = "T"
  <2>1. e = [c EXCEPT !.streamRun = arg]
    BY <1>15 DEF Apply, Field
  <2>2. arg \in 1 .. Uint16Max
    BY <1>15 DEF Checked, Admitted
  <2> QED BY <2>1, <2>2
<1>16. CASE opt = "w"
  <2>1. e = [c EXCEPT !.timeout = arg]
    BY <1>16 DEF Apply, Field
  <2>2. arg \in 1 .. Uint16Max
    BY <1>16 DEF Checked, Admitted
  <2> QED BY <2>1, <2>2
<1>17. CASE opt = "W"
  <2>1. e = [c EXCEPT !.workers = arg]
    BY <1>17 DEF Apply, Field
  <2>2. arg \in 1 .. WorkersMax
    BY <1>17 DEF Checked, Admitted
  <2> QED BY <2>1, <2>2
<1> QED BY <1>1, <1>2, <1>3, <1>4, <1>5, <1>6, <1>7, <1>8, <1>9, <1>10, <1>11, <1>12, <1>13, <1>14, <1>15, <1>16, <1>17 DEF Field

(* Rounding the number of workers up to an even one stays within the limit. *)
LEMMA SplitRanges ==
  ASSUME NEW c, Ranges(c), c.straight = 0, c.reverse = 0
  PROVE  Ranges(Split(c)) /\ IsSplit(Split(c))
<1>1. CASE c.async
  <2> DEFINE n == c.workers + (c.workers % 2)
             e == [c EXCEPT !.workers = n, !.straight = n \div 2, !.reverse = n \div 2]
  <2>1. c.workers \in Nat /\ 0 < c.workers /\ c.workers <= WorkersMax
    BY DEF Ranges, Configs
  <2>2. n \in Nat /\ 0 < n /\ n <= WorkersMax /\ n % 2 = 0 /\ n \div 2 \in Nat
    BY <2>1, Limits
  <2>3. Split(c) = e
    BY <1>1 DEF Split
  <2> HIDE DEF n
  <2>4. Ranges(e)
    BY <2>2, Limits DEF Ranges, Configs
  <2>5. e.async /\ e.workers = n /\ e.straight = n \div 2 /\ e.reverse = n \div 2
    BY <1>1 DEF Ranges, Configs
  <2> HIDE DEF e
  <2> QED BY <2>2, <2>3, <2>4, <2>5 DEF IsSplit
<1>2. CASE ~c.async
  BY <1>2, Limits DEF Ranges, Configs, Split, IsSplit
<1> QED BY <1>1, <1>2

(* _config_sanity() asserts nothing else than what has been checked. *)
LEMMA ConsistentIsSane ==
  ASSUME NEW c, Ranges(c), IsSplit(c), Consistent(c), ~Excused(c)
  PROVE  Sane(c)
BY Limits DEF Ranges, Configs, IsSplit, Consistent, Excused, Sane

(* Configurations with the same payload make the same test. *)
LEMMA PayloadDetermines ==
  ASSUME NEW c, NEW e, Ranges(c), IsSplit(c), Ranges(e), IsSplit(e),
         Payload(c) = Payload(e)
  PROVE  \A f \in {"async", "bidirectional", "reverseFirst", "workers", "straight",
                   "reverse", "payloadCurrent", "handshakeIter", "streamRun", "streamEnd"} :
           c[f] = e[f]
<1>1. /\ c.async = e.async /\ c.bidirectional = e.bidirectional
      /\ c.reverseFirst = e.reverseFirst /\ c.payloadCurrent = e.payloadCurrent
      /\ c.handshakeIter = e.handshakeIter /\ c.streamRun = e.streamRun
      /\ c.streamEnd = e.streamEnd /\ c.workers % (Uint16Max + 1) = e.workers % (Uint16Max + 1)
  BY DEF Payload
<1>2. c.workers = e.workers
  BY <1>1, Limits DEF Ranges, Configs
<1>3. c.straight = e.straight /\ c.reverse = e.reverse
  BY <1>1, <1>2 DEF Ranges, Configs, IsSplit
<1> QED BY <1>1, <1>2, <1>3

-----------------------------------------------------------------------------
(* The steps of the two processes: one lemma per step. *)

LEMMA InitInv == Init => Inv
<1> SUFFICES ASSUME Init PROVE Inv
  OBVIOUS
<1> USE ConfigAssumption DEF Init
<1>1. TypeInv
  BY DEF TypeInv
<1>2. InvCfg
  BY DefaultRanges DEF InvCfg, Passed
<1>3. InvWire
  BY DEF InvWire
<1> QED BY <1>1, <1>2, <1>3 DEF Inv

(* While s reads its options it is on neither end of a message. *)
LEMMA ParsingWire ==
  ASSUME Inv, NEW s \in Sides, status[s] = "parsing", UNCHANGED wire,
         \A o \in Sides \ {s} : cfg'[o] = cfg[o] /\ status'[o] = status[o],
         status'[s] \in {"parsing", "refused", "aborted", "ready"}
  PROVE  InvWire'
<1> USE ConfigAssumption DEF Inv, InvWire, Agreed
<1>1. CASE Sides = {"listener", "connector"} /\ s = "listener"
  BY <1>1
<1>2. CASE Sides = {"listener", "connector"} /\ s = "connector"
  BY <1>2
<1>3. CASE Sides # {"listener", "connector"}
  BY <1>3
<1> QED BY <1>1, <1>2, <1>3

LEMMA OptionInv == ASSUME Inv, NEW s \in Sides, Option(s) PROVE Inv'
<1> USE ConfigAssumption DEF Inv
<1>1. PICK opt \in Options :
        \/ cfg' = cfg /\ status'[s] \in {"refused", "aborted"}
        \/ /\ Checked(opt[1], opt[2], cfg[s]) /\ Asserted(opt[1], opt[2])
           /\ cfg' = [cfg EXCEPT ![s] = Apply(opt[1], opt[2], cfg[s])]
           /\ status' = status
  BY DEF Option, SetStatus, TypeInv
<1>2. /\ status[s] = "parsing" /\ UNCHANGED wire
      /\ given[s] < MaxOptions /\ given' = [given EXCEPT ![s] = @ + 1]
  BY DEF Option
<1>3. \A o \in Sides \ {s} : cfg'[o] = cfg[o] /\ status'[o] = status[o]
  BY DEF Option, SetStatus, TypeInv
<1>4. TypeInv'
  <2>1. /\ cfg' = [o \in Sides |-> cfg'[o]]
        /\ status' \in [Sides -> Passed \cup {"parsing", "refused", "aborted", "failed"}]
    BY DEF Option, SetStatus, TypeInv
  <2>2. given' \in [Sides -> 0 .. MaxOptions]
    BY <1>2 DEF TypeInv
  <2>3. wire' = [o \in Sides |-> wire'[o]]
    BY <1>2 DEF TypeInv
  <2> QED BY <2>1, <2>2, <2>3 DEF TypeInv
<1>5. InvCfg'
  <2>1. Ranges(cfg[s]) /\ cfg[s].straight = 0 /\ cfg[s].reverse = 0
    BY <1>2 DEF InvCfg
  <2>2. Ranges(cfg'[s]) /\ cfg'[s].straight = 0 /\ cfg'[s].reverse = 0
    <3>1. CASE cfg' = cfg
      BY <2>1, <3>1
    <3>2. CASE /\ Checked(opt[1], opt[2], cfg[s]) /\ Asserted(opt[1], opt[2])
               /\ cfg' = [cfg EXCEPT ![s] = Apply(opt[1], opt[2], cfg[s])]
      <4>1. opt[1] \in DOMAIN Field \cup {"A", "b", "C", "p", "R"}
        BY OptionsAssumption
      <4>2. cfg'[s] = Apply(opt[1], opt[2], cfg[s])
        BY <3>2 DEF TypeInv
      <4> QED BY <2>1, <3>2, <4>1, <4>2, ApplyRanges
    <3> QED BY <1>1, <3>1, <3>2
  <2>3. status'[s] \in {"parsing", "refused", "aborted"}
    BY <1>1, <1>2
  <2> QED BY <1>3, <2>2, <2>3 DEF InvCfg, Passed
<1>6. InvWire'
  BY <1>1, <1>2, <1>3, ParsingWire
<1> QED BY <1>4, <1>5, <1>6

LEMMA EndOptionsInv == ASSUME Inv, NEW s \in Sides, EndOptions(s) PROVE Inv'
<1> USE ConfigAssumption DEF Inv
<1> DEFINE c == Split(cfg[s])
<1>1. /\ status[s] = "parsing" /\ UNCHANGED <<given, wire>>
      /\ cfg' = [cfg EXCEPT ![s] = c]
      /\ status' = [status EXCEPT ![s] = IF ~Consistent(c) THEN "refused"
                                         ELSE IF ~Sane(c) THEN "aborted" ELSE "ready"]
  BY DEF EndOptions, SetStatus
<1>2. Ranges(c) /\ IsSplit(c)
  BY <1>1, SplitRanges DEF InvCfg
<1>3. Consistent(c) => Sane(c) \/ Excused(c)
  BY <1>2, ConsistentIsSane
<1> HIDE DEF c
<1>4. TypeInv'
  BY <1>1 DEF TypeInv, Passed
<1>5. cfg'[s] = c /\ \A o \in Sides \ {s} : cfg'[o] = cfg[o] /\ status'[o] = status[o]
  BY <1>1 DEF TypeInv
<1>6. \/ status'[s] = "refused"
      \/ status'[s] = "aborted" /\ Excused(c)
      \/ status'[s] = "ready" /\ Consistent(c) /\ Sane(c)
  BY <1>1, <1>3 DEF TypeInv
<1>7. InvCfg'
  BY <1>2, <1>5, <1>6 DEF InvCfg, Passed
<1>8. InvWire'
  BY <1>1, <1>5, <1>6, ParsingWire
<1> QED BY <1>4, <1>7, <1>8

(* After the options a process keeps its configuration and does not go back. *)
LEMMA LaterCfg ==
  ASSUME Inv, NEW s \in Sides, UNCHANGED <<cfg, given>>,
         NEW st \in Passed \cup {"failed"}, status' = [status EXCEPT ![s] = st],
         status[s] \in Passed, wire' = [o \in Sides |-> wire'[o]]
  PROVE  TypeInv' /\ InvCfg'
<1>1. TypeInv'
  BY DEF Inv, TypeInv
<1>2. InvCfg'
  BY <1>1 DEF Inv, TypeInv, InvCfg, Passed
<1> QED BY <1>1, <1>2

LEMMA ConnectInv == ASSUME Inv, Connect PROVE Inv'
<1> USE ConfigAssumption DEF Inv
<1>1. TypeInv' /\ InvCfg'
  BY LaterCfg DEF Connect, SetStatus, TypeInv, Passed
<1>2. InvWire'
  BY DEF Connect, SetStatus, TypeInv, InvWire, Agreed
<1> QED BY <1>1, <1>2

LEMMA ConnectFailsInv == ASSUME Inv, ConnectFails PROVE Inv'
<1> USE ConfigAssumption DEF Inv
<1>1. TypeInv' /\ InvCfg'
  BY LaterCfg DEF ConnectFails, SetStatus, TypeInv, Passed
<1>2. InvWire'
  BY DEF ConnectFails, SetStatus, TypeInv, InvWire, Agreed
<1> QED BY <1>1, <1>2

LEMMA AcceptTimeoutInv == ASSUME Inv, AcceptTimeout PROVE Inv'
<1> USE ConfigAssumption DEF Inv
<1>1. TypeInv' /\ InvCfg'
  BY LaterCfg DEF AcceptTimeout, SetStatus, TypeInv, Passed
<1>2. InvWire'
  BY DEF AcceptTimeout, SetStatus, TypeInv, InvWire, Agreed
<1> QED BY <1>1, <1>2

(* What the listener reads is the connector's configuration, so that its verdict
   is whether the two agree.                                                  *)
LEMMA AcceptInv == ASSUME Inv, Accept PROVE Inv'
<1> USE ConfigAssumption DEF Inv
<1>1. /\ Sides = {"listener", "connector"} /\ status["listener"] = "ready"
      /\ status["connector"] \in {"connecting", "failed"}
      /\ wire["listener"] = {Payload(cfg["connector"])}
  BY DEF Accept, InvWire
<1>2. /\ UNCHANGED <<cfg, given>>
      /\ wire' = [listener |-> {}, connector |-> {Payload(cfg["listener"])}]
      /\ status' = [status EXCEPT !["listener"] = IF Agreed THEN "talking" ELSE "mismatch"]
  BY <1>1 DEF Accept, SetStatus, Match, Agreed
<1>3. /\ wire'["listener"] = {} /\ wire'["connector"] = {Payload(cfg["listener"])}
      /\ wire' = [o \in Sides |-> wire'[o]]
  BY <1>1, <1>2
<1>4. TypeInv' /\ InvCfg'
  BY <1>1, <1>2, <1>3, LaterCfg DEF Passed
<1>5. status'["connector"] = status["connector"] /\ (Agreed' <=> Agreed)
      /\ status'["listener"] = IF Agreed THEN "talking" ELSE "mismatch"
  BY <1>1, <1>2 DEF TypeInv, Agreed
<1>6. InvWire'
  BY <1>1, <1>2, <1>3, <1>5 DEF InvWire
<1> QED BY <1>4, <1>6

(* The connector comes to the verdict of the listener. *)
LEMMA RecvAcceptInv == ASSUME Inv, RecvAccept PROVE Inv'
<1> USE ConfigAssumption DEF Inv
<1>1. /\ Sides = {"listener", "connector"} /\ status["connector"] = "connecting"
      /\ wire["connector"] = {Payload(cfg["listener"])}
      /\ status["listener"] = IF Agreed THEN "talking" ELSE "mismatch"
  BY DEF RecvAccept, InvWire
<1>2. /\ UNCHANGED <<cfg, given>> /\ wire' = [wire EXCEPT !["connector"] = {}]
      /\ status' = [status EXCEPT !["connector"] = IF Agreed THEN "talking" ELSE "mismatch"]
  BY <1>1 DEF RecvAccept, SetStatus, Match, Agreed
<1>3. TypeInv' /\ InvCfg'
  BY <1>1, <1>2, LaterCfg DEF TypeInv, Passed
<1>4. status'["listener"] = status["listener"] /\ (Agreed' <=> Agreed)
      /\ status'["connector"] = IF Agreed THEN "talking" ELSE "mismatch"
  BY <1>1, <1>2 DEF TypeInv, Agreed
<1>5. wire'["connector"] = {} /\ wire'["listener"] = wire["listener"]
  BY <1>1, <1>2 DEF TypeInv
<1>6. wire["listener"] = {}
  BY <1>1 DEF InvWire
<1>7. InvWire'
  BY <1>1, <1>4, <1>5, <1>6 DEF InvWire
<1> QED BY <1>3, <1>7

LEMMA ShortReadInv == ASSUME Inv, NEW s \in Sides, ShortRead(s) PROVE Inv'
<1> USE ConfigAssumption DEF Inv
<1>1. TypeInv' /\ InvCfg'
  BY LaterCfg DEF ShortRead, SetStatus, TypeInv, Passed
<1>2. CASE s = "listener"
  BY <1>1, <1>2 DEF ShortRead, SetStatus, TypeInv, InvWire, Agreed
<1>3. CASE s = "connector"
  BY <1>1, <1>3 DEF ShortRead, SetStatus, TypeInv, InvWire, Agreed
<1> QED BY <1>2, <1>3

LEMMA ReplyFailsInv == ASSUME Inv, ReplyFails PROVE Inv'
<1> USE ConfigAssumption DEF Inv
<1>1. TypeInv' /\ InvCfg'
  BY LaterCfg DEF ReplyFails, SetStatus, TypeInv, Passed
<1>2. InvWire'
  BY DEF ReplyFails, SetStatus, TypeInv, InvWire, Agreed
<1> QED BY <1>1, <1>2

(* Inv is an inductive invariant. *)
THEOREM Invariance == Spec => []Inv
<1>1. ASSUME Inv, [Next]_vars PROVE Inv'
  <2>1. CASE Next
    BY <1>1, <2>1, OptionInv, EndOptionsInv, ConnectInv, ConnectFailsInv, AcceptInv,
       AcceptTimeoutInv, RecvAcceptInv, ShortReadInv, ReplyFailsInv DEF Next
  <2>2. CASE UNCHANGED vars
    BY <1>1, <2>2 DEF vars, Inv, TypeInv, InvCfg, InvWire, Agreed
  <2> QED BY <1>1, <2>1, <2>2
<1> QED BY <1>1, InitInv, PTL DEF Spec

-----------------------------------------------------------------------------
(* The results. *)

(* A configuration that config_init() lets through has workers of both kinds that
   add up, timeouts in the order in which talk.c switches between them, and one
   worker if the test is over UDP: what Session and Talk assume.              *)
THEOREM PassedIsWorkable == Spec => []Workable
<1>1. Inv => Workable
  <2> SUFFICES ASSUME Inv, NEW s \in Sides, status[s] \in Passed
               PROVE  Workable!(s)
    BY DEF Workable
  <2> DEFINE c == cfg[s]
  <2>1. Ranges(c) /\ IsSplit(c) /\ Consistent(c) /\ Sane(c)
    BY DEF Inv, InvCfg
  <2> HIDE DEF c
  <2>2. /\ c.straight + c.reverse = c.workers /\ c.workers > 0
        /\ c.async => c.bidirectional /\ c.straight = c.reverse /\ c.proto = "tcp"
        /\ ~c.async => c.straight = 0 \/ c.reverse = 0
    BY <2>1 DEF Ranges, Configs, IsSplit, Sane
  <2>3. /\ c.streamRun < c.streamEnd /\ c.streamEnd < c.timeout
        /\ c.proto = "udp" => c.workers = 1
    BY <2>1 DEF Consistent, Sane
  <2> QED BY <2>2, <2>3 DEF c, Workable
<1> QED BY <1>1, Invariance, PTL

(* Two processes that talk have configurations that make the same test: what
   conn_config_match() compares determines everything that has to agree.      *)
THEOREM TalkersAgree == Spec => []SameTest
<1>1. Inv => SameTest
  <2> SUFFICES ASSUME Inv, NEW s \in Sides, NEW o \in Sides,
                      status[s] = "talking", status[o] = "talking"
               PROVE  \A f \in {"async", "bidirectional", "reverseFirst", "workers",
                                "straight", "reverse", "payloadCurrent", "handshakeIter",
                                "streamRun", "streamEnd"} : cfg[s][f] = cfg[o][f]
    BY DEF SameTest
  <2>1. /\ Ranges(cfg[s]) /\ IsSplit(cfg[s])
        /\ Ranges(cfg[o]) /\ IsSplit(cfg[o])
    BY DEF Inv, InvCfg, Passed
  <2>2. s = o \/ Agreed
    BY ConfigAssumption DEF Inv, InvWire
  <2>3. Payload(cfg[s]) = Payload(cfg[o])
    BY <2>2, ConfigAssumption DEF Agreed
  <2> QED BY <2>1, <2>3, PayloadDetermines
<1> QED BY <1>1, Invariance, PTL

(* The connector talks only if the listener does. *)
THEOREM NeverAlone == Spec => []BothOrNeither
<1>1. Inv => BothOrNeither
  BY ConfigAssumption DEF Inv, InvWire, BothOrNeither
<1> QED BY <1>1, Invariance, PTL

(* Only a payload above the maximum, and the options that UDP excludes given in
   the wrong order, get as far as the assertions of _config_sanity().         *)
THEOREM SanityFollows == Spec => []SanityImplied
<1>1. Inv => SanityImplied
  BY DEF Inv, InvCfg, Excused, SanityImplied
<1> QED BY <1>1, Invariance, PTL
=============================================================================
