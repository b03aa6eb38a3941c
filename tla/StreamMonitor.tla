---------------------------- MODULE StreamMonitor ----------------------------
(***************************************************************************)
(* dds/monitor/stats.py: what the monitor makes of the samples of one      *)
(* stream that reach it.                                                   *)
(*                                                                         *)
(* A talker numbers its samples and sends one per period until it stops.   *)
(* The network between talker and listener loses, delays, reorders and     *)
(* duplicates them.  The two hosts' clocks differ by an offset of which    *)
(* the monitor knows only the relation it was told.  Times are             *)
(* microseconds.                                                           *)
(***************************************************************************)
EXTENDS QosMapper, SequencesExt

CONSTANTS
  Monitored,    \* requests of the streams that are measured
  Clocks,       \* relations of the two clocks: [sync, offset]
  Residual,     \* the largest offset left between hosts gPTP has locked
  TickLength,   \* the clock's step
  MaxSent,      \* samples the talker sends
  MaxArrivals,  \* samples, copies included, that arrive
  MaxDelay,     \* time after which a sample has arrived or is lost
  Horizon       \* time at which the observation ends

ASSUME ClocksAssumption ==
  \A c \in Clocks : /\ c.sync \in {"same_host", "ptp_locked", "unsynchronised"}
                    /\ c.offset \in Int
                    /\ c.sync = "same_host" => c.offset = 0
                    /\ c.sync = "ptp_locked" => c.offset \in -Residual .. Residual

\* A deadline and a budget are given or not, and are whole microseconds.
ASSUME MonitoredAssumption ==
  \A r \in Monitored :
    /\ Resolvable(r) /\ r.period \in Nat /\ r.period % TickLength = 0
    /\ Deadline(r) \subseteq Nat
    /\ Classes[r.qos_class].latency_budget \subseteq Nat
    /\ Classes[r.qos_class].jitter_budget \subseteq Nat

ASSUME BoundsAssumption ==
  /\ Residual \in Nat /\ MaxSent \in Nat /\ MaxArrivals \in Nat /\ MaxDelay \in Nat
  /\ TickLength \in Nat \ {0}
  /\ Horizon \in Nat /\ Horizon % TickLength = 0

VARIABLES
  request,   \* the stream's request
  clock,     \* the relation of talker and listener clock
  now,       \* the listener's clock
  sent,      \* samples sent
  running,   \* the talker has not stopped
  inFlight,  \* samples on the network, [seq, at]
  stats,     \* the stream's StreamStats
  timer,     \* when the DDS deadline timer runs out next, once it is armed
  expired,   \* history: arrivals after which it ran out
  reported,  \* history: calls of the DDS deadline listener
  arrived    \* history: [seq, at, rx] for each arrival

\* What the middleware's own DEADLINE keeps.
dds == <<timer, expired, reported>>

vars == <<request, clock, now, sent, running, inFlight, stats, dds, arrived>>

-----------------------------------------------------------------------------
(* StreamStats.                                                            *)

\* A stream the profile does not know is measured and never judged.
Unprofiled(sync) ==
  [ deadline |-> {}, latency_budget |-> {}, jitter_budget |-> {}, sync |-> sync,
    latencies |-> << >>, deadline_miss |-> 0, sample_lost |-> 0,
    last_rx |-> {}, last_seq |-> {} ]

FromProfile(r, sync) ==
  [ Unprofiled(sync) EXCEPT
      !.deadline = Deadline(r),
      !.latency_budget = Classes[r.qos_class].latency_budget,
      !.jitter_budget = Classes[r.qos_class].jitter_budget ]

\* Mutant: a gap of exactly the deadline is a miss.
LateAtDeadline(s, rx) == \E last \in s.last_rx, d \in s.deadline : rx - last >= d

Late(s, rx) == \E last \in s.last_rx, d \in s.deadline : rx - last > d

\* Mutant: the sample that ends a gap is counted with it.
SkippedInclusive(s, seq) ==
  IF \E last \in s.last_seq : seq > last + 1
  THEN seq - (CHOOSE last \in s.last_seq : TRUE) ELSE 0

\* Mutant: the distance is taken as it is, forwards or backwards.
SkippedSigned(s, seq) ==
  IF s.last_seq # {} THEN seq - (CHOOSE last \in s.last_seq : TRUE) - 1 ELSE 0

\* Sequence numbers passed over since the previous arrival.
Skipped(s, seq) ==
  IF \E last \in s.last_seq : seq > last + 1
  THEN seq - (CHOOSE last \in s.last_seq : TRUE) - 1 ELSE 0

\* Mutant: every source timestamp is taken for a latency.
MeasuredAlways(s, rx, source) == <<rx - source>>

\* No latency without a clock the two timestamps share.
Measured(s, rx, source) ==
  IF s.sync = "unsynchronised" THEN << >> ELSE <<rx - source>>

OnSample(s, rx, source, seq) ==
  [ s EXCEPT !.deadline_miss = @ + (IF Late(s, rx) THEN 1 ELSE 0),
             !.sample_lost = @ + Skipped(s, seq),
             !.latencies = @ \o Measured(s, rx, source),
             !.last_rx = {rx},
             !.last_seq = {seq} ]

\* distribution(values).p50: nearest rank on the sorted values.
Median(values) ==
  CHOOSE m \in ToSet(values) :
    /\ 2 * Cardinality({ i \in DOMAIN values : values[i] < m }) < Len(values)
    /\ 2 * Cardinality({ i \in DOMAIN values : values[i] <= m }) >= Len(values)

Distance(a, b) == Greatest(a, b) - Least(a, b)

LatencyWithin(s) ==
  \A budget \in s.latency_budget : \A l \in ToSet(s.latencies) : l <= budget

\* jitter_us: deviation from the median, of two latencies at least.
JitterWithin(s) ==
  \A budget \in s.jitter_budget :
    \A l \in ToSet(s.latencies) : Distance(l, Median(s.latencies)) <= budget

Judgeable(s) ==
  /\ s.latency_budget \cup s.jitter_budget # {}
  /\ s.latency_budget # {} => s.latencies # << >>
  /\ s.jitter_budget # {} => Len(s.latencies) >= 2

\* within_budget: "none" when the question cannot be answered.
Verdict(s) ==
  IF ~Judgeable(s) THEN "none"
  ELSE IF LatencyWithin(s) /\ JitterWithin(s) THEN "passed" ELSE "failed"

-----------------------------------------------------------------------------
(* Talker, network and listener.                                           *)

Init ==
  /\ request \in Monitored
  /\ clock \in Clocks
  /\ now = 0 /\ sent = 0 /\ running = TRUE
  /\ inFlight = {}
  /\ stats \in { Unprofiled(clock.sync), FromProfile(request, clock.sync) }
  /\ timer = {} /\ expired = {} /\ reported = 0
  /\ arrived = << >>

DueAt(n) == n * request.period

Publish ==
  /\ running /\ sent < MaxSent
  /\ now = DueAt(sent)
  /\ sent' = sent + 1
  /\ inFlight' = inFlight \cup {[seq |-> sent, at |-> now]}
  /\ UNCHANGED <<request, clock, now, running, stats, dds, arrived>>

Stop ==
  /\ running
  /\ running' = FALSE
  /\ UNCHANGED <<request, clock, now, sent, inFlight, stats, dds, arrived>>

Lose ==
  /\ \E m \in inFlight : inFlight' = inFlight \ {m}
  /\ UNCHANGED <<request, clock, now, sent, running, stats, dds, arrived>>

\* Monitor.on_sample for a sample on the network, of which a copy may be left
\* there.  The source timestamp is the talker's clock.  The sample also arms the
\* middleware's own DEADLINE timer.
Deliver ==
  /\ Len(arrived) < MaxArrivals
  /\ \E m \in inFlight :
       /\ inFlight' \in { inFlight, inFlight \ {m} }
       /\ stats' = OnSample(stats, now, m.at + clock.offset, m.seq)
       /\ arrived' = Append(arrived, [seq |-> m.seq, at |-> m.at, rx |-> now])
  /\ timer' = { now + d : d \in stats.deadline }
  /\ UNCHANGED <<request, clock, now, sent, running, expired, reported>>

\* The timer runs out: the listener is called, and called again when another
\* deadline has passed without a sample.
Expire ==
  /\ \E t \in timer : now' > t
  /\ timer' = { t + d : t \in timer, d \in stats.deadline }
  /\ expired' = expired \cup {Len(arrived)}
  /\ reported' = reported + 1

\* Time passes, and the timer with it.
Pass ==
  /\ now < Horizon
  /\ running /\ sent < MaxSent => now < DueAt(sent)
  /\ \A m \in inFlight : now + TickLength - m.at <= MaxDelay
  /\ now' = now + TickLength
  /\ \/ Expire
     \/ (\A t \in timer : now' <= t) /\ UNCHANGED dds
  /\ UNCHANGED <<request, clock, sent, running, inFlight, stats, arrived>>

\* The observation is over.
Over == now = Horizon /\ UNCHANGED vars

Next == Publish \/ Stop \/ Lose \/ Deliver \/ Pass \/ Over

Spec == Init /\ [][Next]_vars

-----------------------------------------------------------------------------
(* Properties.                                                             *)

\* Every variable holds what the code, or the network, can put there.
TypeOK ==
  /\ request \in Monitored /\ clock \in Clocks /\ running \in BOOLEAN
  /\ now \in 0 .. Horizon /\ sent \in 0 .. MaxSent
  /\ \A m \in inFlight : m.seq \in 0 .. sent - 1 /\ m.at \in 0 .. now
  /\ stats.deadline_miss \in 0 .. MaxArrivals /\ stats.sample_lost \in Nat
  /\ Len(stats.latencies) <= Len(arrived)
  /\ expired \subseteq DOMAIN arrived /\ timer \subseteq Nat /\ reported \in Nat

Received == { arrived[i].seq : i \in DOMAIN arrived }

\* Numbers after the first arrival's that were passed over, up to now for good.
Holes ==
  { n \in 0 .. MaxSent : /\ n \notin Received
                         /\ \E m \in Received : n < m
                         /\ n > arrived[1].seq }

InOrder == \A i, j \in DOMAIN arrived : i < j => arrived[i].seq <= arrived[j].seq

\* The loss that is reported covers every sample that did not arrive, whatever
\* the network does to the order; and where the order is kept it is exact,
\* duplicates or not ("the conformance report cannot overstate what was
\* measured", tests/unit/test_monitor.py:3).
LossCoversHoles ==
  arrived # << >> =>
    /\ stats.sample_lost >= Cardinality(Holes)
    /\ InOrder => stats.sample_lost = Cardinality(Holes)

\* How long the talker was not heard of between arrivals, and now.
Silences ==
  { arrived[i + 1].rx - arrived[i].rx : i \in 1 .. Len(arrived) - 1 }
    \cup { now - arrived[i].rx : i \in {Len(arrived)} \ {0} }

\* The monitor's misses are the silences the middleware's deadline timer saw
\* that a later sample has ended; the one that lasts is not counted yet.  The
\* listener has reported each of them ("which is what the DDS DEADLINE listener
\* would report", stats.py:108-110), and nothing else where no silence exceeds
\* two deadlines; a longer one it reports again for each that passes.
MissesAreEndedSilences ==
  /\ stats.deadline_miss = Cardinality(expired \ {Len(arrived)})
  /\ Cardinality(expired) <= reported
  /\ \A d \in stats.deadline :
       (\A s \in Silences : s <= 2 * d) => reported = Cardinality(expired)

Delays == { arrived[i].rx - arrived[i].at : i \in DOMAIN arrived }

\* A talker that keeps its period, over a network that loses nothing and whose
\* delay varies by less than the tolerance the profile grants, is never
\* reported late (mapper.py:198-201 and stats.py:111).
PunctualTalkerIsOnTime ==
  \A d \in stats.deadline :
    (arrived # << >> /\ Holes = {} /\ \A x, y \in Delays : x - y <= d - request.period)
      => stats.deadline_miss = 0

\* A verdict is about what happened.  If the stream passed, no sample that
\* arrived took longer than the budget and the clocks' residual offset, and no
\* two differ by more than the jitter budget allows; if it failed, one did take
\* too long or two differ by more; between unsynchronised clocks there is no
\* verdict (stats.py:158-163).
VerdictIsEarned ==
  LET spread == { x - y : x, y \in Delays }
      slack  == IF clock.sync = "same_host" THEN 0 ELSE Residual
  IN  /\ Verdict(stats) # "none" =>
           /\ clock.sync # "unsynchronised"
           /\ stats.jitter_budget # {} => Len(arrived) >= 2
      /\ Verdict(stats) = "passed" =>
           /\ \A b \in stats.latency_budget, x \in Delays : x <= b + slack
           /\ \A b \in stats.jitter_budget, v \in spread : v <= 2 * b
      /\ Verdict(stats) = "failed" =>
           \/ \E b \in stats.latency_budget, x \in Delays : x > b - slack
           \/ \E b \in stats.jitter_budget, v \in spread : v > b
=============================================================================
