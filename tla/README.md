# Verification of ubwt

ubwt measures the bandwidth between two hosts.  One process, the *listener*,
waits for connections; the other, the *connector*, makes them.  Each connection
is served by a worker thread on either side, and the workers of a side share a
talk context and meet at barriers.  This directory holds TLA+ models of the
parts of ubwt where threads, processes and messages interact, the TLC runs that
check them, and TLAPS proofs.

Run a model with `tlc -config <run>.cfg <module>` and the proofs of a module with
`tlapm <module>.tla` (`CustomBarrierProofs`, `SessionProofs`, `ConfigProofs`,
`TalkTypes`, `TalkProofs`, `AgreementProofs`, `RecountProofs`, `MeasureProofs`).
`PROJECT.json` lists the runs, the source lines of every definition, the hazards
and the findings.

## Inventory

| component | state | operations | with whom | what makes it correct |
|---|---|---|---|---|
| talk (`talk.c`) | `__talk[2]`: count, `im_weak`, shared `weak` | handshake, negotiate, stream, restart, report, finish, abort | the peer worker (messages), the workers of its side (shared context, barriers) | both ends take the same branches; all workers use the same count; marks complete when read; both ends report the same; the test ends |
| process (`process.c`) | role and direction | one or two talks per worker, combined report | talk, report | roles of the two ends are opposite |
| barrier (`worker.c`) | two mutexes, two conditions, `count`, `waiting`, `block_r` | `worker_barrier_init`, `worker_barrier_wait` | talk | nobody early, one true result a round, everybody gets back |
| worker tasks (`worker.c`), contexts (`current.c`), `runtime.c` | forking flag, list of contexts, flags READY/RUNNING/JOINABLE, mutex per context | create, fork, run, exit, join; wait for flags | main thread and workers, `accept()` queue | connections join workers of one direction; contexts freed only when unused; everything ends |
| net (`net.c`) | sockets | connect, accept, read and write loops, timeouts, payload buffer | kernel, talk | complete packets or an error, in bounded time |
| conn (`conn.c`) | the configuration as sent | create, compare | net | two processes that start a test run the same test |
| config, usage | `struct ubwt_config` | options, consistency, sanity | everything reads it | what is let through, the program can work with; what is documented is accepted and applied |
| report (`report.c`) | collected and computed results per direction | set, marshal, combine, compute, show, export as JSON | talk, process | complete, consistent on both ends |
| stage, debug, error, datetime, bitops | display, tracing, clock | | | FATAL ends the process; no other influence on the test |

What is hard here: the barrier takes its two mutexes in both orders; shared
marks are written under a mutex but read without one, protected by barriers
only; restart decisions are taken independently by every worker on two hosts and
must agree; a worker that times out leaves data behind in its connection; a
signal is sent without the mutex of its condition; the pairing of connections
depends on the order in which threads are started; options are checked in the
order in which they come.

## Modules

| module | models |
|---|---|
| `WorkerBarrier` | the promise of `worker_barrier_wait()`: a cyclic barrier with one true result per round |
| `CustomBarrier` | the barrier written with mutexes and conditions (`UBWT_CONFIG_PTHREAD_CUSTOM_BARRIER`), one action per step between two lock operations; implements `WorkerBarrier` |
| `Lockstep` | what the workers of both processes promise together: a sequence of talks, each a sequence of rounds with agreed counts, closed by everybody after the same round |
| `Talk` | `talk_sender()` and `talk_receiver()` on all connections of both processes, over TCP or UDP, with the barriers as `WorkerBarrier` promises them, and the failures of a connection; implements `Lockstep` |
| `Recount` | the arithmetic of a stream: duration, verdict, the next count |
| `Report` | the arithmetic of a report: exchange, combination, computed figures, sections |
| `Measure` | a test as a measurement: rounds until the streams are long enough, then the reports of both sides; `Recount` and `Report` put to work |
| `Session` | `runtime_do()`, creation, connection, exit and join of the workers; the talk itself is one step |
| `Config` | `config_init()`, option by option, and the comparison of the configurations of two processes |
| `CustomBarrierProofs`, `SessionProofs`, `ConfigProofs`, `RecountProofs`, `MeasureProofs` | the theorems about the module of that name |
| `TalkTypes`, `TalkProofs`, `AgreementProofs` | the theorems about `Talk`: types and wire, then the marks, then what the two processes agree on |
| `MC_*` | symmetry and option sets for the runs |

### CustomBarrier

The variables are the fields of `ubwt_worker_barrier_t` and the owners of the
mutexes; `pc` says where a thread is.  `arrived`, `left` and `serials` are
history: calls, returns and true results.  `First` and `Last` take and release
`mutex[0]` in one step, because they do nothing in between but assign.

`FairSpec` allows spurious wakeups, but finitely many: a thread that is woken
again and again for no reason could keep the others from their mutex for ever
under weak fairness, and POSIX allows no program to exclude that.

### Talk

A worker is `<<side, connection>>`.  `weak`, `imWeak` and `cnt` are the shared
context; `loc` holds the local variables; `report` what the report of the
worker's context contains.  `chan[w]` is the TCP stream towards `w` in units:
a packet is its header and, outside the handshake, its body, so that a receive
that ends between them (a timeout) desynchronises the stream as it does in the
program.  A label `b_...` in `pc` is a call of `worker_barrier_wait()`; which
barrier it is (0 and 1 for a direction, 2 for both) follows from the label and
the mode.

* Time is abstracted.  Whether a stream is weak is any choice below `WeakLimit`
  packets; a stream cut short by a timeout may always be weak.  The factor of a
  recount is any of `Muls`.
* `Exit` is a FATAL error or a failed assertion; the whole process is gone with
  all its workers.  `Fail` also sends the abort message first.
* When a process is gone its peer reads what was sent before.  After that, if
  the kernel has to reset the connection (data the dead process never read), a
  receive fails and a send raises SIGPIPE; otherwise `read()` returns 0 and the
  loop spins (`Spin`).

* With `Udp` a segment of `chan[w]` is a whole packet.  `Lose` and `Duplicate`
  take any datagram on its way, whatever stage it belongs to; a duplicate comes
  after what is already on its way, so that it also stands for reordering.  The
  read loop (`Needed`) cuts off what is longer than asked for and appends
  datagrams to one that is too short.  There is no end of file: a process whose
  peer is gone runs into its timeouts.

`Talk` implements `Lockstep`: a worker begins a round when it negotiates a
count, and closes a talk when it leaves the loop.  `Lockstep` has no messages,
marks or barriers; that all workers of two hosts take the same way through the
loop is what the refinement shows.  It holds without faults.  A receive that
times out in the middle of a packet leaves one worker with the rest of it, so
that with faults only what a process *completes* is guaranteed
(`ReportAgreement`).

### Recount, Report and Measure

`Measure` starts where `Talk` ends: it takes for granted that all workers go
through the rounds together (`RefinesLockstep`) and that a direction restarts
exactly if all its streams were weak (`MarksExact`, `NeedsRestart`), and makes a
round one step.  In turn it computes what `Talk` leaves open, whether a stream
is weak and what the next count is, and checks that the numbers make sense.

`Durations` is the computation of `talk.c:598-632` with the barrier in it: the
clock is read when the slowest receiver is there.  `Multiplied` is
`talk.c:921-946`, including the case `t = 0` and the lower bound of the factor;
the doubles of the program are exact fractions, truncated where the program
assigns the product to the count, whose 64 bits (`talk.h:46`) no count within the
limits fills.  `Threshold` wraps around as the `int` of line 658 does
(the two's complement outcome of an undefined overflow), and `Weak` compares as
unsigned numbers do.  Numbers of 32 bits are taken modulo `Mod32`.

Units are scaled: a tick is a tenth of a second, an `int` ends at 31, 32 bits at
128 and the count at 100, so that every limit is within reach of a few rounds.
The scaling keeps the order of the program's constants (default count, maximum
count, the shortest time that overflows).

`results[s][d][w]` is what worker `w` of side `s` has collected; the receiver of a
direction fills it in each round, the sender gets it in the report exchange
(`Exchanged`, `report_marshal()` and `report_unmarshal()`).  `busy` is history:
when packets really came.  The reports are computed in `ProcessReport`, once per
side.

On a link that is not steady a stream takes any time and loses any number of its
packets, all of them included (`FreeStream`).  A receiver that gets nothing has
its timeout run from the start of the stream, so that subtracting it leaves
nothing: such a direction is weak, and is never reported (`SomethingCame`).

### Session

`forking`, `flags`, `linked` and `busy` are `__worker_forking`, `worker_flags`,
the list of contexts and the ownership of `worker_mutex_local`.  Main's timed
waits are guards, since they look again every 125 ms; its untimed wait in
`worker_task_create()` is a sleep that only a signal ends.  A flag and the signal
that follows it are one step where main, woken in between, would only look at
the flag again.

`Prompt` names a timing assumption of the program: main gets from its check of
the forking flag to its wait before the worker it has just created is connected
to the other host and signals that it runs, and it polls RUNNING at least once
while the test lasts.  All runs but `session_lost` assume it; `session_lost`
shows what it hides.

### Config

`cfg` is the part of `struct ubwt_config` that influences the test, with the
numbers of `config.h`.  A refused option or configuration ends in `"refused"`
(a message), a failed assertion in `"aborted"`.  One connection stands for all.
Reading the other's configuration may fail on either side: a read may return
part of it, a datagram or the answer may not come, the peer may be gone.

## Runs

| run | instance | shows |
|---|---|---|
| `barrier` | 4 threads, 3 calls each, spurious wakeups | safety of the barrier; `Inv` is an invariant; it implements `WorkerBarrier`, liveness included |
| `talk_sync` | 2 connections, both directions in turn, counts 1, 2, 4 | no failure; `Lockstep` is implemented (same rounds, counts and verdicts); same reports; the test ends |
| `talk_async` | 4 connections, 2 in each direction at once, counts 1, 2 | no failure, fresh and exact marks, `Lockstep` with both directions sharing barriers and marks; no deadlock |
| `talk_faults` | 2 connections, up to 2 timeouts, a killed process | what completes is consistent |
| `talk_peer_gone` | 1 connection, a killed process | *violation*: the stream is never given up |
| `talk_udp` | 1 connection (UDP admits no more), both directions, 2 datagrams lost or duplicated | both processes end, and what completes is consistent |
| `session` | 2 + 2 workers on each side | pairing, join and report safety; both processes end |
| `session_lost` | 2 workers, without `Prompt` | *violation*: a lost wakeup |
| `config_match` | two processes, each with up to 2 of about 50 options at their limits | what is let through is workable and needs no assertion to be so; both start the same test, or the connector does not start |
| `config_assertions` | up to 2 options | *violation*: `-T 20` |
| `config_payload` | up to 2 options | *violation*: `-s` has no effect |
| `measure` | 2 workers, or 2 + 2; four minimum times, two of which overflow; with and without `-M`; 4 rates per worker, or 3 outcomes per worker and round | results are long enough, fair and about packets that came; one recount is enough on a steady link; only the limit of the count ends a test; every test ends; reports are exact and match |

Without faults a step of a talk always moves some worker forward, the rounds
being bounded by `WeakLimit`; `talk_async` therefore needs no fairness to show,
by the absence of deadlocks, that every behaviour can only end with the test.

Bounds.  Three calls of the barrier contain a first, a middle and a last round
with threads of two neighbouring rounds inside at once, the furthest apart they
can be.  In a talk `WeakLimit` and `Muls` allow two restarts of each talk in
`talk_sync` and one in `talk_async`; the marks start from zero in every round,
so a third adds nothing new.  `CountMax` is above every count without timeouts.
Two workers per direction are enough for "all streams weak" and "some streams
weak" to differ, which the restart decision distinguishes.  Two timeouts let
both receivers of a side, or two stages of a worker, time out.  In `talk_udp`
two faults allow a loss and a duplicate, or a loss in each direction;
`MaxTimeouts` is above the number of timeouts that a behaviour can have with
them, so that it never keeps a receive waiting.  In `measure` a stream takes
less than, about and more than the minimum times, and loses nothing, one packet
or up to 60: all, at the counts of the first rounds, and two thirds at 90.  With
`-M 3` the two workers of a direction reach counts of 90, whose sum of 180
overflows at 128; `LossExact` is checked on both sides of that limit.  `round` is counted up to `Many`, one more than `OneRecount` asks about.
Symmetry is used only for sets of interchangeable threads or connections and
only in runs without liveness properties.

Fairness.  Every thread that can run runs (weak fairness of the steps of a
thread, or of all the steps together where there are no cycles), and TCP
delivers what was sent.  `TimedSpec` adds that a receive that goes on for ever
times out, as SO_RCVTIMEO does.  The fairness of the barrier is that of the
mutexes it uses; since each mutex is free again after a bounded number of steps
and the number of calls is finite, weak fairness suffices.  In `Session` and
`Measure` weak fairness of all the steps together says that the program does not
stop while it can go on; no step there can be repeated for ever without
progress, except the rounds of `Measure`, which `Settles` is about.

`CHECK_DEADLOCK FALSE` is used where processes really stop: with faults a worker
may wait for a barrier whose other callers will never come, and a process that
has refused its options is gone.

## What is proved

All theorems hold for every value of the constants that the named `ASSUME`s
admit; TLC evaluates those on the runs.  They are about `Spec`, that is, without
fairness.  Every invariant `Inv` below was first checked by TLC on the instance of
a run, and each proof has one lemma per action or per group of actions that
change the same variables.

| module | theorems | property |
|---|---|---|
| `CustomBarrierProofs` | `TypeCorrect`, `Safety`, `AssertionHolds`, `NoLockCycle`, `WakeupsArrive`, `Refinement` | `TypeOK`, `BarrierSafety`, `CountsMatch`, `NoEmbrace`, `NoLostWakeup`, `RefinesBarrier` |
| `SessionProofs` | `TypeCorrect`, `KindsAgree`, `JoinsSafely`, `ReportsAfterTest` | `TypeOK`, `SameKind`, `JoinSafe`, `ReportsComplete` |
| `ConfigProofs` | `PassedIsWorkable`, `TalkersAgree`, `NeverAlone`, `SanityFollows` | `Workable`, `SameTest`, `BothOrNeither`, `SanityImplied` |
| `TalkTypes` | `TypeCorrect` | `TypeOK` |
| `TalkProofs` | `MarksAreFresh`, `MarksAreExact` | `FreshMarks`, `MarksExact` |
| `AgreementProofs` | `ReportsAgree`, `VerdictsAgree`, `NeverFails`, `LockstepRefined` | `ReportAgreement`, `SameVerdict`, `NoFailure`, `RefinesLockstep` |
| `RecountProofs` | `DurationsFair`, `RecountRaises`, `RecountSuffices` | facts about `Durations` and `Multiplied` |
| `MeasureProofs` | `DurationsAreFair`, `OneRecountSuffices`, `FailureIsJustified`, `RestartsRaise`, `ReportsAreLongEnough`, `SectionsAgree`, `ReportsRestOnPackets`, `LossIsExact`, `LatencyIsMean` | `DurationFair`, `OneRecount`, `FailsOnlyAtLimit`, `RestartRaises`, `LongEnough`, `SectionsMatch`, `SomethingCame`, `LossExact`, `LatencyMean` |

**CustomBarrierProofs.**  For every finite non-empty set of threads, any
`MaxRounds` and with spurious wakeups.  The properties are not inductive.  `Inv`
adds who owns which mutex (`InvMutex`) and describes the two phases of a round,
told apart by `block_r`: while the gate is open (`InvOpen`) `count` is `total`,
nobody has left and nobody sleeps at the gate; while it is closed (`InvClosed`)
`count = waiting` and exactly those who are no longer counted have left.
`InvEnds` fixes the two moments when the gate moves: it closes when all are in,
and opens when `waiting` is 0.  `waiting = Cardinality(Counted)` ties the counter
to the threads: it makes the first release coincide with the arrival of everybody
(`CountedBound`).  For the refinement, a step that returns (`Leave` but for the
last, `Last`) is a `Return` of `WorkerBarrier`, `Enter` is an `Arrive`, and every
other step leaves the history alone.

**SessionProofs.**  For any numbers of straight and reverse workers, with and
without `Prompt`.  `LifeInv` follows each worker from its creation to
`pthread_join()`: workers exist in the order of their numbers (`InvCreated`), main
is in its second group only when the first is complete (`InvGroup`), the flags of
a context and its mutex follow the worker (`InvFlags`), the list of contexts holds
those that have forked and are not taken down, and only a worker that has ended is
taken down (`InvLinked`, `InvJoined`).  `JoinSafe` and `ReportsComplete` follow.
`SameKind` needs in addition that `mate` is a symmetric relation (`InvMates`), that
every waiting connector is in the accept queue once (`InvBacklog`), and the heart
of the argument, `InvOrder`: a side starts its reverse workers only when its
straight workers are all connected, because main waits for as many RUNNING flags.
So no queue ever holds both kinds while both kinds accept.

**ConfigProofs.**  For any set of options with the letters of `OptionsAssumption`
(what `getopt()` returns) and any arguments, any number of them in any order.
`InvCfg` says what every configuration on the way satisfies (`Ranges`: each field in
the range of its option), and what one that got through satisfies besides.
`InvWire` says that a configuration on the wire is still that of its sender, and
that the listener has decided before its answer is sent; so that two independent
comparisons come to the same result.

**TalkTypes.**  Type correctness for any connections, over TCP and UDP, with all
failures.  It takes that no segment on the wire is empty: the read loop joins
and cuts datagrams, so that a worker can take anything for a header, but there
is always one.

**TalkProofs.**  That the marks of the weak streams are clear while packets flow
and complete when read, for any number of connections, in every kind of test,
over TCP and UDP and whatever fails.  `Together` is the effect of the barriers:
the workers of a team (the same side, and in an asynchronous test the same
direction) are in the same `Section` between two barriers, all the workers of a
side in the same `Stage`, and in the same talk unless they wait for the next.  A
barrier opens when its whole team, or side, waits at it, so that nobody is left in
the section before.  `MarkInv` follows the marks through the sections: zero from the
reset on (`InvClear`), the number of those who have marked while marking
(`InvMarking`), and the number of weak streams until the last worker has read them
(`InvMarks`).  The cardinalities are those of the sets of workers that are weak.

**AgreementProofs.**  What two processes that share nothing but connections agree
on, for any number of connections, rounds, handshakes and packets, in one
direction, in both in turn or in both at once.  A step of a worker is described by
what it reads from its channel and appends to that of its peer.  The four theorems
assume less and less to go well the less they promise:

* `ReportsAgree`, over TCP and UDP, whatever is lost, duplicated, late or killed.
  `InvReports` follows a report from the receiver that stored it at the end of its
  stream over the wire to the sender that takes it; the receiver does not touch it
  again, because it is past its last stream of the direction.  `InvDone` says that a
  process completes only when its workers have finished all their talks.
* `VerdictsAgree`, over TCP, with timeouts and killed processes.  Each process
  decides from its own marks whether to go on, so the argument needs both sides at
  once.  `InvBase`: the workers of a side are in the same round.  `InvVerdict`: a
  side goes on if all the streams of one of its teams were weak, and closes
  otherwise.  `InvPairs`: the two workers of a connection are at most one message
  apart in COUNT, START and END, an END on its way tells its reader the flag of its
  writer, and once it is read both have the same flag.  So the flags of the two
  sides are equal when both have decided, and so are the decisions.  When a worker
  has left the talk, `InvPairs` speaks of a team mate that has not.
* `NeverFails`, over TCP, if no receive times out and no process is killed
  (`Reliable`), and if no recount of a stream that can be weak reaches the limit of
  counts (`Attainable`); the code raises the count without looking at the limit
  (`talk.c:946`), and the assertion after it ends the process.  `CalmInv`
  describes the whole conversation: `InvConv` puts the two workers of a connection
  into one of twelve scenes (`Conf`), from the first PING to FINISH, each with the
  places of both and the contents of both channels, or one of them into the next
  talk while FINISH is on its way (`Ahead`); `InvIdle` says that the loops start
  from 0; `InvCounts` that only one worker of a team sets or raises the count, and
  that what is negotiated lies within the bounds.  `SameVerdict` excludes the scenes
  in which one worker goes on and the other closes.  `NoFailure` is part of the
  invariant, since a failure on one connection ends the process.
* `LockstepRefined`, under the same hypotheses: every step of `Talk` is a step of
  `Lockstep` or none.  Negotiating a count is `Begin`: the scenes and the verdicts put
  every worker of both sides in the same round or one further, and those that
  are further have the count that this one reads (`BegunCount`).  `InvNoMore` is
  needed in addition, that a receiver does not stream more than its sender: a
  receiver's next count is then not lower than its last.  Leaving the loop is
  `Close`, the end of a talk that is not the last is `NextTalk`.

The constants of the runs `talk_sync` and `talk_async` satisfy `Reliable` and
`Attainable`.  How far a real link is from the limit is outside `Talk`, which has no
time; `Measure` shows that a test fails there only on a link too fast for it
(`FailsOnlyAtLimit`).

**RecountProofs.**  The arithmetic, for natural numbers of any size: `Durations` and
the barrier in it, and the two facts about a recount on which everything else
rests.  They are nonlinear, and are derived from a few facts about `\div` and
products (`DivIs`, `Product`, `Monotonic`, `Cancel`, `DivAtLeast`).

**MeasureProofs.**  For any even number of asynchronous and any number of
synchronous workers, any minimum times (overflowing ones included), multipliers,
rates and outcomes of streams (any duration, any number of packets lost), and for any tick and limits: the scaled units of
the run are not a restriction of the theorems.  `Inv` says that the counts are
admissible (`InvCounts`), the durations in `results` are those of the last round
(`InvRound`, `InvSteady`), a finished direction has a stream that was not weak
and the same results on both sides (`InvDone`), and a report is computed from
them (`InvShown`).  `InvRecount` is the strengthening of `OneRecount`: the counts
of a round are the defaults, or last.  For the sums of `Combine` a second
invariant, `Figures`, says which numbers were collected; a third, `Heard`, that
who received nothing in a round has no busy time in it, from which it follows that
a direction without packets is weak (`NotWeakHeard`).  `LossIsExact` does not ask
for the sums to fit into 32 bits: what they lose cancels out in their difference
(`ModDifference`).  The sums themselves are
bounded by lemmas (`FoldExists`, `PartialIs`, `SumBounds`) whose induction is
written as the absence of a least counterexample, since the induction theorems of
the library cannot be instantiated here.

### Assumptions

`BarrierAssumption`, `SessionAssumption`, `ConfigAssumption`, `TalkAssumption` and
the assumptions of `Recount` and `Report` only give constants their types and the
limits their order.  `OptionsAssumption` says which letters an option has.
`MeasureAssumption` also excludes links on which the default count passes in less
than a tick (a stream is at least as long as the clock can show), and that only
for steady links; numbers that do not fit the 32 bits in which the program keeps
them (`Latency`, `CountMax`); and minimum times that overflow to exactly zero.
There are none: `-t` has 16 bits, and a second has 10^6 = 2^6 * 15625 ticks, so
that no product is a multiple of 2^32.

Three things came out of the proofs.  The mean latency is within the latencies of
the workers only if their sum fits 32 bits (`report.c:62`), which `LatencyMean` now
says.  The limit in `FailsOnlyAtLimit` is that of the speed the program computes
from the truncated duration of the first stream, not that of the exact one.  And
`SameKind` does not need the timing assumption of `Session`.

### Only model-checked

* Liveness: `RefinesFairBarrier`, `Termination`, `AlwaysEnds`, `Completes`,
  `Settles`.  It needs fairness and `ENABLED`, which the prover does not handle.

Every safety property of a passing run is stated by a theorem.  `SameVerdict` is
neither proved nor checked over UDP, where it does not hold (see the findings).

## Findings

1. `net.c:276` (and 315): at the end of file the read loops spin.  After killing
   the connector during a stream the listener was seen to use a whole CPU for as
   long as it was watched, although `-T` promises a maximum wait.
2. `worker.c:51-53` and `106-111`: the wakeup of `worker_task_create()` can be
   lost.  It usually is not, because the flag is mostly clear by the time of the
   check, and because the signal of a worker that gets connected comes later.
3. `config.c:359`: `-T` is limited to 19 by an assertion.  `-W 4 -p udp` and
   `-s 9000` also end in assertions.
4. `config.c:349`: `-s` has no effect on the packets.  With `-B` the buffer is
   compared with the size that has no effect: `-s 508 -B 600` passes the checks,
   and `net_buf_fill()` (`net.c:578`) aborts at the first packet.

Noted while modelling, without a run of their own:

* `process.c:231`: with `-R` but not `-b` the reverse section is the first one of
  the JSON document, but still exported as a further one (`report.c:319`): two
  commas follow each other.  The document is not modelled, since what stands
  between its figures is fixed by the options and no behaviour is involved.
* `report.c:237`: the lost packets are multiplied by 100 in 32 bits, so that the
  reported loss is wrong from 42949673 lost packets on (`LossExact` excludes it).
* `report.c:299` and `302`: the theoretical bandwidth and the size of the headers
  in the head of the JSON document are printed before they are computed, as 0.
* `report.c:71`: the start time is the minimum with main's own, which is 0.
* `talk.c:658`: from `-t 2148` on the minimum time overflows.  Then a test accepts
  streams of any length, or none at all and fails when the count reaches its
  limit (`Settles` holds; `LongEnough` excludes the case).
* `net.c:70`: a configuration that comes in two segments ends the process that
  reads it.  The connector then never starts alone (`BothOrNeither`), but the
  listener may, and waits for its timeout.
* Over UDP a duplicated datagram can make the two processes count different
  numbers of rounds (`SameVerdict` does not hold there); the test then fails.

## Plan

1. done: barrier and its proofs; `Talk` over TCP and UDP; `Lockstep`; `Session`;
   `Config`; `Recount`, `Report` and `Measure`.
2. done: the proofs above.
3. done: the two ends of a talk, `AgreementProofs`.
4. Not started: a proof that `Talk` with the steps of `CustomBarrier` in place of
   `BarrierWait` still implements `Lockstep`; today the two are tied by the
   refinement of `WorkerBarrier` alone.

## Not modelled

* `debug.c`, `usage.c` but for its checks, the messages of `error.c`, the progress
  display: output.
* `main.c` calls the initialisations, `runtime_do()` and the destructors in a row.
* `datetime.c`, `bitops.c`: wrappers.  Times are inputs of `Measure`, flags are
  sets.  Setting the clock during a test is not modelled.
* The JSON document of `report.c:276-363`: its figures are those of the report, and
  its layout is fixed by the options (see the notes under the findings).
* The contents of the payload (`net_buf_fill()`): nobody looks at them.
* `worker.c`: cancellation, which nothing calls, and the one-line wrappers of
  pthread functions, which appear as the steps that use them.
* The builds without threads, for Windows and with `UBWT_CONFIG_NET_UDP_CONNECT`.
