------------------------------- MODULE Config -------------------------------
(* How a process gets its configuration, and how two processes find out whether
   they have the same: usage_check_optarg() of src/src/usage.c and config_init()
   of src/src/config.c, which read the command line option by option, and the
   exchange of src/src/conn.c in net_connector_connect() and
   net_listener_accept() of src/src/net.c.

   An option is a pair <<letter, argument>>; a numeric argument stands for what
   atoi() makes of it.  The options that only choose files or output (-d -D -F
   -h -j -P -r -v) are left out.  A process has one worker here: what the
   connections of several workers are paired with is Session's subject.       *)
EXTENDS Integers, FiniteSets

CONSTANTS
  Sides,        \* the processes: {"listener"}, or with the "connector"
  Options,      \* the options that may be given
  MaxOptions    \* bound: options on a command line

ASSUME ConfigAssumption ==
  /\ "listener" \in Sides /\ Sides \subseteq {"listener", "connector"}
  /\ MaxOptions \in Nat

VARIABLES
  cfg,       \* cfg[s]: current->config
  given,     \* given[s]: options read so far
  status,    \* status[s]: what became of the process
  wire       \* wire[s]: what its peer has sent to s

vars == <<cfg, given, status, wire>>

-----------------------------------------------------------------------------
(* Constants of the program (config.h). *)

TimeoutTalkStreamEnd == 20
TalkCountDefault == 100
TalkCountMax == 1000000000
TalkCountMulMax == TalkCountMax \div TalkCountDefault
TalkPayloadMinSize == 508
TalkPayloadMaxSize == 8192

Uint16Max == 65535
BufferMax == 2147483647
WorkersMax == 1024

(* config_init(): the defaults. *)
Defaults ==
  [async |-> FALSE, bidirectional |-> FALSE, reverseFirst |-> FALSE, proto |-> "tcp",
   timeout |-> 120, streamRun |-> 5, streamEnd |-> TimeoutTalkStreamEnd,
   reverseDelay |-> 3, mtu |-> 1500, handshakeIter |-> 20, handshakeInterval |-> 1,
   countMul |-> 0, payloadDefault |-> 1432, payloadCurrent |-> 1432,
   minimumTime |-> 3, bufferSize |-> 0, bufferFile |-> FALSE,
   workers |-> 1, straight |-> 0, reverse |-> 0]

-----------------------------------------------------------------------------
(* One option. *)

(* The field that a numeric option sets. *)
Field == [B |-> "bufferSize", I |-> "handshakeInterval", m |-> "mtu", M |-> "countMul",
          N |-> "handshakeIter", o |-> "reverseDelay", O |-> "streamEnd",
          s |-> "payloadDefault", t |-> "minimumTime", T |-> "streamRun",
          w |-> "timeout", W |-> "workers"]

(* The letters that getopt() returns, apart from those left out. *)
ASSUME OptionsAssumption ==
  \A opt \in Options : opt[1] \in DOMAIN Field \cup {"A", "b", "C", "p", "R"}

(* The numbers that usage_check_optarg() admits. *)
Admitted(opt) ==
  CASE opt = "B" -> 0 .. BufferMax
    [] opt = "I" -> 0 .. Uint16Max
    [] opt \in {"m", "s"} -> TalkPayloadMinSize .. Uint16Max
    [] opt = "M" -> 2 .. TalkCountMulMax - 1
    [] opt = "W" -> 1 .. WorkersMax
    [] OTHER -> 1 .. Uint16Max

(* usage_check_optarg(): the option is refused with a message otherwise.  Some
   conditions look at the options that came before.                           *)
Checked(opt, arg, c) ==
  CASE opt = "A" -> ~c.reverseFirst /\ c.proto # "udp"
    [] opt = "R" -> ~c.async
    [] opt = "p" -> arg \in {"tcp", "udp"}
    [] opt = "W" -> arg \in Admitted("W") /\ (c.proto = "udp" => arg <= 1)
    [] opt \in {"b", "C"} -> TRUE
    [] OTHER -> arg \in Admitted(opt)

(* The assertions on the argument in _config_cmdopt_process(). *)
Asserted(opt, arg) ==
  CASE opt = "T" -> arg > 0 /\ arg < TimeoutTalkStreamEnd
    [] opt \in DOMAIN Field \ {"T"} -> arg \in Admitted(opt)
    [] OTHER -> TRUE

(* What _config_cmdopt_process() stores. *)
Apply(opt, arg, c) ==
  CASE opt = "A" -> [c EXCEPT !.async = TRUE, !.bidirectional = TRUE]
    [] opt = "b" -> [c EXCEPT !.bidirectional = TRUE]
    [] opt = "C" -> [c EXCEPT !.bufferFile = TRUE]
    [] opt = "o" -> [c EXCEPT !.reverseDelay = arg, !.bidirectional = TRUE]
    [] opt = "p" -> [c EXCEPT !.proto = arg]
    [] opt = "R" -> [c EXCEPT !.reverseFirst = TRUE]
    [] OTHER -> [c EXCEPT ![Field[opt]] = arg]

-----------------------------------------------------------------------------
(* All the options. *)

(* Mutation: the workers of an asynchronous test are not halved. *)
SplitWhole(c) ==
  IF c.async
  THEN LET n == c.workers + (c.workers % 2) IN
       [c EXCEPT !.workers = n, !.straight = n, !.reverse = n]
  ELSE IF c.reverseFirst THEN [c EXCEPT !.reverse = c.workers]
  ELSE [c EXCEPT !.straight = c.workers]

(* The workers that start with the straight and with the reverse test.  An
   asynchronous test needs an even number.                                    *)
Split(c) ==
  IF c.async
  THEN LET n == c.workers + (c.workers % 2) IN
       [c EXCEPT !.workers = n, !.straight = n \div 2, !.reverse = n \div 2]
  ELSE IF c.reverseFirst THEN [c EXCEPT !.reverse = c.workers]
  ELSE [c EXCEPT !.straight = c.workers]

(* Mutation: the delay of the reverse test is not compared. *)
ConsistentNoDelay(c) ==
  /\ c.streamRun < c.streamEnd /\ c.streamEnd < c.timeout
  /\ (c.bufferSize > 0) = c.bufferFile
  /\ c.bufferSize > 0 => c.bufferSize >= c.payloadDefault

(* _config_consistency(): refused with a message otherwise. *)
Consistent(c) ==
  /\ c.streamRun < c.streamEnd /\ c.streamEnd < c.timeout
  /\ c.reverseDelay < c.streamEnd
  /\ (c.bufferSize > 0) = c.bufferFile
  /\ c.bufferSize > 0 => c.bufferSize >= c.payloadDefault

(* _config_sanity(): aborted by an assertion otherwise. *)
Sane(c) ==
  /\ c.mtu >= TalkPayloadMinSize
  /\ 0 < c.streamRun /\ c.streamRun < c.streamEnd /\ c.streamEnd < c.timeout
  /\ 0 < c.reverseDelay /\ c.reverseDelay < c.streamEnd
  /\ c.handshakeIter > 0 /\ c.minimumTime > 0
  /\ c.countMul # 0 => 1 < c.countMul /\ c.countMul < TalkCountMulMax
  /\ TalkPayloadMinSize <= c.payloadCurrent /\ c.payloadCurrent <= TalkPayloadMaxSize
  /\ TalkPayloadMinSize <= c.payloadDefault /\ c.payloadDefault <= TalkPayloadMaxSize
  /\ c.bufferSize > 0 => c.bufferSize >= c.payloadDefault
  /\ 0 < c.workers /\ c.workers <= WorkersMax
  /\ c.async => c.workers % 2 = 0 /\ ~c.reverseFirst
  /\ c.proto = "udp" => ~c.async /\ c.workers = 1

-----------------------------------------------------------------------------
(* The processes. *)

SetStatus(s, st) == status' = [status EXCEPT ![s] = st]

(* The next option of the command line. *)
Option(s) ==
  /\ status[s] = "parsing" /\ given[s] < MaxOptions
  /\ given' = [given EXCEPT ![s] = @ + 1]
  /\ \E opt \in Options :
       \/ /\ ~Checked(opt[1], opt[2], cfg[s])
          /\ SetStatus(s, "refused") /\ UNCHANGED cfg
       \/ /\ Checked(opt[1], opt[2], cfg[s]) /\ ~Asserted(opt[1], opt[2])
          /\ SetStatus(s, "aborted") /\ UNCHANGED cfg
       \/ /\ Checked(opt[1], opt[2], cfg[s]) /\ Asserted(opt[1], opt[2])
          /\ cfg' = [cfg EXCEPT ![s] = Apply(opt[1], opt[2], @)]
          /\ UNCHANGED status
  /\ UNCHANGED wire

(* No option is left: config_init() goes on. *)
EndOptions(s) ==
  LET c == Split(cfg[s]) IN
  /\ status[s] = "parsing"
  /\ cfg' = [cfg EXCEPT ![s] = c]
  /\ SetStatus(s, IF ~Consistent(c) THEN "refused"
                  ELSE IF ~Sane(c) THEN "aborted" ELSE "ready")
  /\ UNCHANGED <<given, wire>>

(* Mutation: the payload leaves out who starts. *)
PayloadNoReverse(c) ==
  [async |-> c.async, bidir |-> c.bidirectional,
   workerCount |-> c.workers, linkMtu |-> c.mtu, l4PayloadSize |-> c.payloadCurrent,
   connTimeout |-> c.timeout, handshakeIter |-> c.handshakeIter,
   handshakeInterval |-> c.handshakeInterval, streamRunTimeout |-> c.streamRun,
   streamEndTimeout |-> c.streamEnd, reverseDelay |-> c.reverseDelay,
   streamTime |-> c.minimumTime, countMul |-> c.countMul]

(* conn_payload_create(): what a process tells the other.  All of it fits into
   the fields, and conn_payload_hton() and conn_payload_ntoh() cancel out.    *)
Payload(c) ==
  [async |-> c.async, bidir |-> c.bidirectional, revrs |-> c.reverseFirst,
   workerCount |-> c.workers % (Uint16Max + 1), linkMtu |-> c.mtu,
   l4PayloadSize |-> c.payloadCurrent,
   connTimeout |-> c.timeout, handshakeIter |-> c.handshakeIter,
   handshakeInterval |-> c.handshakeInterval, streamRunTimeout |-> c.streamRun,
   streamEndTimeout |-> c.streamEnd, reverseDelay |-> c.reverseDelay,
   streamTime |-> c.minimumTime, countMul |-> c.countMul]

(* conn_config_match() *)
Match(p1, p2) == p1 = p2

Dead(s) == status[s] \in {"refused", "aborted", "failed", "mismatch"}

(* net_connector_connect(): the connector tells the listener its configuration. *)
Connect ==
  /\ Sides = {"listener", "connector"}
  /\ status["connector"] = "ready" /\ status["listener"] = "ready"
  /\ cfg["connector"].proto = cfg["listener"].proto
  /\ wire' = [wire EXCEPT !["listener"] = {Payload(cfg["connector"])}]
  /\ SetStatus("connector", "connecting")
  /\ UNCHANGED <<cfg, given>>

(* ... unless nobody listens, or not with this protocol. *)
ConnectFails ==
  /\ Sides = {"listener", "connector"}
  /\ status["connector"] = "ready"
  /\ \/ status["listener"] = "parsing" \/ Dead("listener")
     \/ cfg["connector"].proto # cfg["listener"].proto
  /\ SetStatus("connector", "failed")
  /\ UNCHANGED <<cfg, given, wire>>

(* Nobody connects until the receive timeout of the listening socket. *)
AcceptTimeout ==
  /\ status["listener"] = "ready"
  /\ "connector" \in Sides => Dead("connector")
  /\ wire["listener"] = {}
  /\ SetStatus("listener", "failed")
  /\ UNCHANGED <<cfg, given, wire>>

(* net_listener_accept(): the listener reads the configuration of the connector
   and answers with its own before it compares them.                          *)
Accept ==
  /\ status["listener"] = "ready" /\ wire["listener"] # {}
  /\ LET mine == Payload(cfg["listener"]) IN
     \E theirs \in wire["listener"] :
       /\ wire' = [listener |-> {}, connector |-> {mine}]
       /\ SetStatus("listener", IF Match(mine, theirs) THEN "talking" ELSE "mismatch")
  /\ UNCHANGED <<cfg, given>>

(* Mutation: only the listener compares the configurations. *)
RecvAcceptUnchecked ==
  /\ Sides = {"listener", "connector"}
  /\ status["connector"] = "connecting" /\ wire["connector"] # {}
  /\ SetStatus("connector", "talking")
  /\ wire' = [wire EXCEPT !["connector"] = {}]
  /\ UNCHANGED <<cfg, given>>

(* The connector reads the answer and compares them, too. *)
RecvAccept ==
  /\ Sides = {"listener", "connector"}
  /\ status["connector"] = "connecting" /\ wire["connector"] # {}
  /\ LET mine == Payload(cfg["connector"]) IN
     \E theirs \in wire["connector"] :
       SetStatus("connector", IF Match(mine, theirs) THEN "talking" ELSE "mismatch")
  /\ wire' = [wire EXCEPT !["connector"] = {}]
  /\ UNCHANGED <<cfg, given>>

(* The configuration is read with a single read(), which may return a part of it,
   or with a recvfrom(), which never gets a datagram that was lost: the process
   gives up.                                                                  *)
ShortRead(s) ==
  /\ wire[s] # {}
  /\ status[s] = IF s = "listener" THEN "ready" ELSE "connecting"
  /\ SetStatus(s, "failed")
  /\ wire' = [wire EXCEPT ![s] = {}]
  /\ UNCHANGED <<cfg, given>>

(* The connector's receive timeout expires, or the listener has gone, before the
   answer comes.                                                              *)
ReplyFails ==
  /\ Sides = {"listener", "connector"}
  /\ status["connector"] = "connecting" /\ wire["connector"] = {}
  /\ SetStatus("connector", "failed")
  /\ UNCHANGED <<cfg, given, wire>>

Init == /\ cfg = [s \in Sides |-> Defaults]
        /\ given = [s \in Sides |-> 0]
        /\ status = [s \in Sides |-> "parsing"]
        /\ wire = [s \in Sides |-> {}]

Next == \/ \E s \in Sides : Option(s) \/ EndOptions(s)
        \/ \E s \in Sides : ShortRead(s)
        \/ Connect \/ ConnectFails \/ Accept \/ AcceptTimeout \/ RecvAccept
        \/ ReplyFails

Spec == Init /\ [][Next]_vars

-----------------------------------------------------------------------------
(* Properties. *)

Passed == {"ready", "connecting", "talking", "mismatch"}

(* A configuration that is let through is one the rest of the program can work
   with, whatever the options and their order: the assumptions of Session and
   Talk (runtime.c:97, the sizes of the barriers in worker.c:306-324, the order
   of the receive timeouts that talk.c switches between).                     *)
Workable ==
  \A s \in Sides : status[s] \in Passed =>
    LET c == cfg[s] IN
    /\ c.straight + c.reverse = c.workers /\ c.workers > 0
    /\ c.async => c.bidirectional /\ c.straight = c.reverse /\ c.proto = "tcp"
    /\ ~c.async => c.straight = 0 \/ c.reverse = 0
    /\ c.streamRun < c.streamEnd /\ c.streamEnd < c.timeout
    /\ c.proto = "udp" => c.workers = 1

(* Two processes that talk run the same test: they agree on who sends first, on
   how many workers of each kind there are, on the length of a packet and on
   the timeouts.                                                              *)
SameTest ==
  \A s, o \in Sides : status[s] = "talking" /\ status[o] = "talking" =>
    \A f \in {"async", "bidirectional", "reverseFirst", "workers", "straight",
              "reverse", "payloadCurrent", "handshakeIter", "streamRun", "streamEnd"} :
      cfg[s][f] = cfg[o][f]

(* The connector never starts the test alone, although each process compares
   the configurations by itself and the listener answers before it does; the
   listener does so only if the connector could not read its answer.          *)
BothOrNeither ==
  Sides = {"listener", "connector"} =>
    /\ status["connector"] = "talking" => status["listener"] = "talking"
    /\ status["listener"] = "talking" =>
         status["connector"] \in {"connecting", "talking", "failed"}

(* What _config_sanity() asserts follows from the checks that end with a message,
   except for the upper limit of -s and the conditions on UDP, which
   usage_check_optarg() only applies to the options that came before.         *)
SanityImplied ==
  \A s \in Sides : status[s] = "aborted" /\ cfg[s].straight + cfg[s].reverse > 0 =>
    \/ cfg[s].payloadDefault > TalkPayloadMaxSize
    \/ cfg[s].proto = "udp" /\ (cfg[s].async \/ cfg[s].workers > 1)

(* The ranges of usage_check_optarg(), for example "Value for -T must be between
   1 and 65535": an option it lets pass is not refused by an assertion.       *)
CheckedIsEnough == \A s \in Sides : status[s] # "aborted"

(* The usage text of -s, "L4 payload size": the size asked for is the size of
   the packets that are sent (config->talk_payload_current_size).             *)
PayloadSizeApplied ==
  \A s \in Sides : status[s] \in Passed => cfg[s].payloadCurrent = cfg[s].payloadDefault
=============================================================================
