------------------------- MODULE StreamMonitorProofs -------------------------
(***************************************************************************)
(* Theorems about StreamMonitor, for any streams, clocks and bounds that   *)
(* satisfy its assumptions.                                                *)
(***************************************************************************)
EXTENDS StreamMonitor, DataTheorems, SequenceTheorems

-----------------------------------------------------------------------------
(* The median.                                                             *)

\* The values of a sequence are finitely many.
LEMMA ValuesFinite ==
  ASSUME NEW S, NEW values \in Seq(S)
  PROVE  /\ IsFiniteSet(ToSet(values)) /\ ToSet(values) \subseteq S
         /\ IsFiniteSet(DOMAIN values)
         /\ Cardinality(DOMAIN values) = Len(values)
<1>1. DOMAIN values = 1 .. Len(values) /\ Len(values) \in Nat
  OBVIOUS
<1>2. Len(values) \in Int /\ 1 \in Int
  BY <1>1
<1>3. IsFiniteSet(1 .. Len(values)) /\ Cardinality(1 .. Len(values)) = Len(values)
  <2>1. IsFiniteSet(1 .. Len(values))
    BY <1>2, FS_Interval
  <2>2. Cardinality(1 .. Len(values)) = IF 1 > Len(values) THEN 0 ELSE Len(values) - 1 + 1
    BY <1>2, FS_Interval
  <2>3. QED
    BY <1>1, <2>1, <2>2
<1>4. values \in Surjection(DOMAIN values, ToSet(values))
  BY <1>1 DEF Surjection, ToSet
<1>5. IsFiniteSet(ToSet(values))
  BY <1>1, <1>3, <1>4, FS_Surjection
<1>6. ToSet(values) \subseteq S
  BY DEF ToSet
<1>7. QED
  BY <1>1, <1>3, <1>5, <1>6

\* A nonempty sample has a median, and it is one of the values.
LEMMA MedianIsAValue ==
  ASSUME NEW values \in Seq(Int), values # << >>
  PROVE  Median(values) \in ToSet(values)
<1> DEFINE V == ToSet(values)
           n == Len(values)
           Under(m) == { i \in DOMAIN values : values[i] < m }
           UpTo(m) == { i \in DOMAIN values : values[i] <= m }
           Half == { m \in V : 2 * Cardinality(UpTo(m)) >= n }
<1>1. /\ IsFiniteSet(V) /\ V \subseteq Int
      /\ IsFiniteSet(DOMAIN values) /\ Cardinality(DOMAIN values) = n
  BY ValuesFinite
<1>2. n \in Nat /\ n > 0 /\ DOMAIN values = 1 .. n /\ \A i \in 1 .. n : values[i] \in V /\ values[i] \in Int
  BY DEF ToSet
<1>3. \A m : /\ IsFiniteSet(UpTo(m)) /\ Cardinality(UpTo(m)) \in Nat
             /\ IsFiniteSet(Under(m)) /\ Cardinality(Under(m)) \in Nat
  BY <1>1, FS_Subset, FS_CardinalityType
<1>4. V # {}
  BY <1>2
<1>5. Half # {}
  <2>1. PICK m \in V : \A v \in V : v <= m
    <3> HIDE DEF V
    <3> QED BY <1>1, <1>4, GreatestInteger
  <2>2. UpTo(m) = DOMAIN values
    BY <1>2, <2>1
  <2>3. 2 * Cardinality(UpTo(m)) >= n
    <3> HIDE DEF V, UpTo, n
    <3> QED BY <1>1, <1>2, <2>2
  <2>4. QED
    BY <2>3
<1>6. PICK m \in Half : \A h \in Half : m <= h
  <2>1. IsFiniteSet(Half) /\ Half \subseteq Int
    <3> HIDE DEF V, UpTo, n
    <3> QED BY <1>1, FS_Subset
  <2> HIDE DEF Half
  <2> QED BY <1>5, <2>1, LeastInteger
<1>7. m \in V /\ m \in Int /\ 2 * Cardinality(UpTo(m)) >= n
  BY <1>1
<1>8. 2 * Cardinality(Under(m)) < n
  <2>1. CASE Under(m) = {}
    <3>1. Cardinality(Under(m)) = 0
      BY <2>1, FS_EmptySet
    <3>2. QED
      <4> HIDE DEF Under, n
      <4> QED BY <1>2, <3>1
  <2>2. CASE Under(m) # {}
    <3> DEFINE Lower == { v \in V : v < m }
    <3>1. IsFiniteSet(Lower) /\ Lower \subseteq Int /\ Lower # {}
      <4>1. Lower # {}
        BY <1>2, <2>2
      <4> HIDE DEF V
      <4> QED BY <1>1, <4>1, FS_Subset
    <3>2. PICK l \in Lower : \A v \in Lower : v <= l
      <4> HIDE DEF Lower
      <4> QED BY <3>1, GreatestInteger
    <3>3. l \in V /\ l \in Int /\ l < m
      BY <1>1
    <3>4. UpTo(l) = Under(m)
      <4>1. ASSUME NEW i \in 1 .. n PROVE values[i] <= l <=> values[i] < m
        <5>1. values[i] < m => values[i] \in Lower
          BY <1>2
        <5>2. QED
          BY <1>2, <1>7, <3>2, <3>3, <5>1
      <4>2. QED
        BY <1>2, <4>1
    <3>5. l \notin Half
      BY <1>6, <1>7, <3>3
    <3>6. ~ (2 * Cardinality(UpTo(l)) >= n)
      BY <3>3, <3>5
    <3>7. QED
      <4> HIDE DEF UpTo, Under, n
      <4> QED BY <1>2, <1>3, <3>4, <3>6
  <2>3. QED
    BY <2>1, <2>2
<1>9. \E w \in ToSet(values) :
        /\ 2 * Cardinality({ i \in DOMAIN values : values[i] < w }) < Len(values)
        /\ 2 * Cardinality({ i \in DOMAIN values : values[i] <= w }) >= Len(values)
  BY <1>7, <1>8
<1>10. QED
  BY <1>9 DEF Median

-----------------------------------------------------------------------------
(* The inductive invariant.                                                *)

Stats == [ deadline : SUBSET Nat, latency_budget : SUBSET Nat, jitter_budget : SUBSET Nat,
           sync : {"same_host", "ptp_locked", "unsynchronised"}, latencies : Seq(Int), deadline_miss : Nat, sample_lost : Nat,
           last_rx : SUBSET Nat, last_seq : SUBSET Nat ]

Arrivals == [ seq : Nat, at : Nat, rx : Nat ]

LastArrival == arrived[Len(arrived)]

\* The variables hold what their actions put there.
TypesOK ==
  /\ request \in Monitored /\ clock \in Clocks /\ running \in BOOLEAN
  /\ now \in Nat /\ now <= Horizon /\ now % TickLength = 0
  /\ sent \in Nat /\ sent <= MaxSent
  /\ stats \in Stats /\ stats.deadline \subseteq Deadline(request)
  /\ stats.sync = clock.sync
  /\ arrived \in Seq(Arrivals) /\ Len(arrived) <= MaxArrivals

\* What is on the network, and what arrived, was sent when it was due, and
\* arrived in the order of the arrivals' times.
HistoryOK ==
  /\ \A m \in inFlight : /\ m.seq \in Nat /\ m.seq < sent
                         /\ m.at = DueAt(m.seq) /\ m.at \in Nat /\ m.at <= now
  /\ \A i \in DOMAIN arrived :
       /\ arrived[i].seq < sent
       /\ arrived[i].at = DueAt(arrived[i].seq)
       /\ arrived[i].at <= arrived[i].rx /\ arrived[i].rx <= now
  /\ \A i, j \in DOMAIN arrived : i <= j => arrived[i].rx <= arrived[j].rx

\* The accumulator remembers the last arrival and measures each.
StatsOK ==
  /\ stats.last_rx = IF arrived = << >> THEN {} ELSE {LastArrival.rx}
  /\ stats.last_seq = IF arrived = << >> THEN {} ELSE {LastArrival.seq}
  /\ stats.latencies =
       IF clock.sync = "unsynchronised" THEN << >>
       ELSE [ i \in DOMAIN arrived |-> arrived[i].rx - (arrived[i].at + clock.offset) ]

\* The timer has run out on the last arrival if it is older than the deadline;
\* the monitor has counted the other silences, and each ended in a late arrival.
SilencesOK ==
  /\ expired \subseteq DOMAIN arrived
  /\ arrived # << >> =>
       (Len(arrived) \in expired <=> \E d \in stats.deadline : now - LastArrival.rx > d)
  /\ stats.deadline_miss = Cardinality(expired \ {Len(arrived)})
  /\ stats.deadline_miss > 0 =>
       \E i \in DOMAIN arrived, d \in stats.deadline :
         /\ i + 1 \in DOMAIN arrived
         /\ arrived[i + 1].rx - arrived[i].rx > d

\* The timer is a deadline after the last arrival, or later when it has run out
\* on it, and what the listener reports more than once is a long silence.
TimerOK ==
  /\ timer = {} <=> arrived = << >> \/ stats.deadline = {}
  /\ \A s, t \in timer : s = t
  /\ \A t \in timer, d \in stats.deadline :
       /\ t \in Nat
       /\ Len(arrived) \notin expired => t = LastArrival.rx + d
       /\ Len(arrived) \in expired => t >= LastArrival.rx + 2 * d
  /\ reported \in Nat /\ Cardinality(expired) <= reported
  /\ \A d \in stats.deadline :
       (\A s \in Silences : s <= 2 * d) => reported = Cardinality(expired)

LossOK ==
  /\ LossCoversHoles
  /\ arrived = << >> => stats.sample_lost = 0

MonitorInvariant == TypesOK /\ HistoryOK /\ StatsOK /\ SilencesOK /\ TimerOK /\ LossOK

-----------------------------------------------------------------------------
(* What one sample changes.                                                *)

\* The numbers passed over since the sample before, if there was one.
LEMMA SkippedValue ==
  ASSUME NEW s, NEW seq
  PROVE  /\ s.last_seq = {} => Skipped(s, seq) = 0
         /\ \A l : s.last_seq = {l} =>
              Skipped(s, seq) = IF seq > l + 1 THEN seq - l - 1 ELSE 0
<1>1. s.last_seq = {} => Skipped(s, seq) = 0
  BY DEF Skipped
<1>2. ASSUME NEW l, s.last_seq = {l}
      PROVE  Skipped(s, seq) = IF seq > l + 1 THEN seq - l - 1 ELSE 0
  <2>1. (CHOOSE last \in s.last_seq : TRUE) = l
    BY <1>2
  <2>2. (\E last \in s.last_seq : seq > last + 1) <=> seq > l + 1
    BY <1>2
  <2>3. QED
    BY <2>1, <2>2 DEF Skipped
<1>3. QED
  BY <1>1, <1>2

\* on_sample keeps what the profile said and accounts for the sample.
LEMMA OnSampleFields ==
  ASSUME NEW s \in Stats, NEW rx \in Nat, NEW source \in Int, NEW seq \in Nat,
         Skipped(s, seq) \in Nat, NEW t, t = OnSample(s, rx, source, seq)
  PROVE  /\ t \in Stats
         /\ t.deadline = s.deadline /\ t.sync = s.sync
         /\ t.latency_budget = s.latency_budget /\ t.jitter_budget = s.jitter_budget
         /\ t.deadline_miss = s.deadline_miss + (IF Late(s, rx) THEN 1 ELSE 0)
         /\ t.sample_lost = s.sample_lost + Skipped(s, seq)
         /\ t.latencies = s.latencies \o Measured(s, rx, source)
         /\ t.last_rx = {rx} /\ t.last_seq = {seq}
<1>1. Measured(s, rx, source) \in Seq(Int)
  BY DEF Measured
<1>2. s.latencies \o Measured(s, rx, source) \in Seq(Int)
  BY <1>1, ConcatProperties DEF Stats
<1> HIDE DEF Late, Skipped, Measured
<1>3. s.deadline_miss + (IF Late(s, rx) THEN 1 ELSE 0) \in Nat
  BY DEF Stats
<1>4. s.sample_lost + Skipped(s, seq) \in Nat
  BY DEF Stats
<1>5. QED
  BY <1>2, <1>3, <1>4 DEF OnSample, Stats

-----------------------------------------------------------------------------
(* The invariant holds at the start.                                       *)

\* Before the first sample nothing has been counted, and nothing happened.
LEMMA MonitorStarts == ASSUME Init PROVE MonitorInvariant
<1>1. request \in Monitored /\ clock \in Clocks /\ now = 0 /\ sent = 0 /\ running = TRUE
      /\ inFlight = {} /\ timer = {} /\ expired = {} /\ reported = 0 /\ arrived = << >>
  BY DEF Init
<1>2. /\ stats \in Stats /\ stats.deadline \subseteq Deadline(request)
      /\ stats.sync = clock.sync /\ stats.latencies = << >>
      /\ stats.deadline_miss = 0 /\ stats.sample_lost = 0
      /\ stats.last_rx = {} /\ stats.last_seq = {}
  <2>1. clock.sync \in {"same_host", "ptp_locked", "unsynchronised"}
    BY <1>1, ClocksAssumption
  <2>2. /\ Deadline(request) \in SUBSET Nat
        /\ Classes[request.qos_class].latency_budget \in SUBSET Nat
        /\ Classes[request.qos_class].jitter_budget \in SUBSET Nat
    BY <1>1, MonitoredAssumption
  <2>3. stats = Unprofiled(clock.sync) \/ stats = FromProfile(request, clock.sync)
    BY DEF Init
  <2> DEFINE u == Unprofiled(clock.sync)
  <2>4. /\ u \in Stats /\ u.deadline = {} /\ u.sync = clock.sync /\ u.latencies = << >>
        /\ u.deadline_miss = 0 /\ u.sample_lost = 0 /\ u.last_rx = {} /\ u.last_seq = {}
    <3>1. << >> \in Seq(Int)
      OBVIOUS
    <3>2. QED
      BY <2>1, <3>1 DEF Unprofiled, Stats
  <2>5. CASE stats = u
    BY <2>4, <2>5
  <2>6. CASE stats = FromProfile(request, clock.sync)
    <3>1. stats = [ u EXCEPT !.deadline = Deadline(request),
                             !.latency_budget = Classes[request.qos_class].latency_budget,
                             !.jitter_budget = Classes[request.qos_class].jitter_budget ]
      BY <2>6 DEF FromProfile
    <3> HIDE DEF u
    <3>2. QED
      BY <2>2, <2>4, <3>1 DEF Stats
  <2>7. QED
    BY <2>3, <2>5, <2>6
<1>3. TypesOK
  <2>1. 0 % TickLength = 0
    BY BoundsAssumption
  <2>2. << >> \in Seq(Arrivals) /\ Len(<< >>) = 0
    OBVIOUS
  <2>3. QED
    BY <1>1, <1>2, <2>1, <2>2, BoundsAssumption DEF TypesOK
<1>4. HistoryOK
  BY <1>1 DEF HistoryOK
<1>5. StatsOK
  <2>1. << >> = [ i \in DOMAIN arrived |-> arrived[i].rx - (arrived[i].at + clock.offset) ]
    BY <1>1
  <2>2. QED
    BY <1>1, <1>2, <2>1 DEF StatsOK
<1>6. SilencesOK
  <2>1. Cardinality({}) = 0
    BY FS_EmptySet
  <2>2. expired \ {Len(arrived)} = {}
    BY <1>1
  <2>3. QED
    BY <1>1, <1>2, <2>1, <2>2 DEF SilencesOK
<1>7. TimerOK
  BY <1>1, FS_EmptySet DEF TimerOK
<1>8. LossOK
  BY <1>1, <1>2 DEF LossOK, LossCoversHoles
<1>9. QED
  BY <1>3, <1>4, <1>5, <1>6, <1>7, <1>8 DEF MonitorInvariant

-----------------------------------------------------------------------------
(* Every step keeps it.                                                    *)

\* The history is a sequence of arrivals.
LEMMA ArrivalTypes ==
  ASSUME TypesOK
  PROVE  /\ Len(arrived) \in Nat /\ DOMAIN arrived = 1 .. Len(arrived)
         /\ \A i \in DOMAIN arrived :
              arrived[i].seq \in Nat /\ arrived[i].at \in Nat /\ arrived[i].rx \in Nat
         /\ arrived # << >> =>
              /\ Len(arrived) \in DOMAIN arrived
              /\ LastArrival.seq \in Nat /\ LastArrival.at \in Nat /\ LastArrival.rx \in Nat
<1>1. arrived \in Seq(Arrivals)
  BY DEF TypesOK
<1>2. Len(arrived) \in Nat /\ DOMAIN arrived = 1 .. Len(arrived)
  BY <1>1
<1>3. \A i \in DOMAIN arrived : arrived[i] \in Arrivals
  BY <1>1
<1>4. \A i \in DOMAIN arrived :
        arrived[i].seq \in Nat /\ arrived[i].at \in Nat /\ arrived[i].rx \in Nat
  BY <1>3 DEF Arrivals
<1>5. arrived # << >> => Len(arrived) \in DOMAIN arrived
  BY <1>1
<1>6. QED
  BY <1>2, <1>4, <1>5 DEF LastArrival

\* The talker and a loss touch neither clock, accumulator nor history.
LEMMA TalkerKeepsMonitor ==
  ASSUME MonitorInvariant, Publish \/ Stop \/ Lose \/ UNCHANGED vars
  PROVE  MonitorInvariant'
<1> USE DEF MonitorInvariant
<1>1. UNCHANGED <<request, clock, now, stats, timer, expired, reported, arrived>>
  BY DEF Publish, Stop, Lose, vars, dds
<1>2. /\ running' \in BOOLEAN
      /\ sent' \in Nat /\ sent' >= sent /\ sent' <= MaxSent
  <2>1. running \in BOOLEAN /\ sent \in Nat /\ sent <= MaxSent /\ MaxSent \in Nat
    BY BoundsAssumption DEF TypesOK
  <2>2. running' = running \/ running' = FALSE
    BY DEF Publish, Stop, Lose, vars
  <2>3. sent' = sent \/ (sent' = sent + 1 /\ sent < MaxSent)
    BY DEF Publish, Stop, Lose, vars
  <2>4. running' \in BOOLEAN
    BY <2>1, <2>2, Zenon
  <2>5. sent' \in Nat /\ sent' >= sent /\ sent' <= MaxSent
    BY <2>1, <2>3
  <2>6. QED
    BY <2>4, <2>5
<1>3. \A n : DueAt(n)' = DueAt(n)
  BY <1>1 DEF DueAt
<1>4. \A m \in inFlight' : /\ m.seq \in Nat /\ m.seq < sent'
                           /\ m.at = DueAt(m.seq) /\ m.at \in Nat /\ m.at <= now
  <2>1. CASE Publish
    <3>1. inFlight' = inFlight \cup {[seq |-> sent, at |-> now]} /\ sent' = sent + 1 /\ now = DueAt(sent)
      BY <2>1 DEF Publish
    <3>2. \A m \in inFlight : /\ m.seq \in Nat /\ m.seq < sent'
                              /\ m.at = DueAt(m.seq) /\ m.at \in Nat /\ m.at <= now
      BY <3>1 DEF HistoryOK, TypesOK
    <3>3. QED
      BY <3>1, <3>2 DEF TypesOK
  <2>2. CASE Stop \/ UNCHANGED vars
    BY <2>2 DEF Stop, vars, HistoryOK
  <2>3. CASE Lose
    BY <2>3 DEF Lose, HistoryOK
  <2>4. QED
    BY <2>1, <2>2, <2>3
<1>5. TypesOK'
  BY <1>1, <1>2 DEF TypesOK
<1>6. HistoryOK'
  <2>1. \A i \in DOMAIN arrived : arrived[i].seq \in Nat
    BY ArrivalTypes
  <2>2. \A i \in DOMAIN arrived : arrived[i].seq < sent'
    BY <1>2, <2>1 DEF TypesOK, HistoryOK
  <2> HIDE DEF DueAt
  <2>3. QED
    BY <1>1, <1>3, <1>4, <2>2 DEF HistoryOK
<1>7. StatsOK'
  BY <1>1 DEF StatsOK, LastArrival
<1>8. SilencesOK'
  BY <1>1 DEF SilencesOK, LastArrival
<1>9. TimerOK'
  <2>1. Silences' = Silences
    BY <1>1 DEF Silences
  <2>2. LastArrival' = LastArrival
    BY <1>1 DEF LastArrival
  <2>3. QED
    BY <1>1, <2>1, <2>2 DEF TimerOK
<1>10. LossOK'
  BY <1>1 DEF LossOK, LossCoversHoles, Holes, Received, InOrder
<1>11. QED
  BY <1>5, <1>6, <1>7, <1>8, <1>9, <1>10

\* There is at most one deadline.
LEMMA OneDeadline ==
  ASSUME TypesOK, NEW d \in stats.deadline
  PROVE  stats.deadline = {d} /\ d \in Nat
<1>1. stats.deadline \subseteq Deadline(request) /\ \A e \in Deadline(request) : e = d
  BY DEF TypesOK, Deadline
<1>2. QED
  BY <1>1 DEF TypesOK, Stats

\* A timer that has run out leaves the deadline behind, or two of them.
LEMMA TimerRunsOut ==
  ASSUME NEW n \in Nat, NEW t \in Nat, NEW x \in Nat, NEW d \in Nat, n > t
  PROVE  /\ t = x + d => n - x > d
         /\ t >= x + 2 * d => n - x > d /\ ~ (n - x <= 2 * d)
         /\ t = x + d \/ t >= x + 2 * d => t + d \in Nat /\ t + d >= x + 2 * d
  OBVIOUS

\* Time that passes lets the deadline timer run out on an arrival older than the
\* deadline, and again on one older than two.
LEMMA PassKeepsMonitor ==
  ASSUME MonitorInvariant, Pass
  PROVE  MonitorInvariant'
<1> USE DEF MonitorInvariant
<1>1. /\ UNCHANGED <<request, clock, sent, running, inFlight, stats, arrived>>
      /\ now' = now + TickLength /\ now < Horizon
      /\ \/ Expire
         \/ (\A t \in timer : now' <= t) /\ UNCHANGED <<timer, expired, reported>>
  BY DEF Pass, dds
<1>2. now' \in Nat /\ now' >= now
  BY <1>1, BoundsAssumption DEF TypesOK
<1>3. now' <= Horizon /\ now' % TickLength = 0
  <2> DEFINE t == TickLength
  <2>1. t \in Nat /\ t > 0 /\ now \in Nat /\ Horizon \in Nat /\ now % t = 0 /\ Horizon % t = 0 /\ now < Horizon
    BY <1>1, BoundsAssumption DEF TypesOK
  <2> HIDE DEF t
  <2>2. PICK a \in Nat : now = a * t
    <3>1. now = (now \div t) * t + (now % t) /\ now \div t \in Nat
      BY <2>1
    <3>2. QED
      BY <2>1, <3>1
  <2>3. PICK b \in Nat : Horizon = b * t
    <3>1. Horizon = (Horizon \div t) * t + (Horizon % t) /\ Horizon \div t \in Nat
      BY <2>1
    <3>2. QED
      BY <2>1, <3>1
  <2>4. a < b
    <3>1. SUFFICES ASSUME a >= b PROVE FALSE
      OBVIOUS
    <3>2. a * t >= b * t
      BY <2>1, <3>1
    <3>3. QED
      BY <2>1, <2>2, <2>3, <3>2
  <2>5. (a + 1) * t <= b * t
    BY <2>1, <2>4
  <2>6. (a + 1) * t = now + t
    BY <2>1, <2>2
  <2>7. now + t <= Horizon
    BY <2>1, <2>3, <2>5, <2>6
  <2>8. (now + t) % t = 0
    BY <2>1
  <2>9. QED
    BY <1>1, <2>7, <2>8 DEF t
<1>4. TypesOK'
  BY <1>1, <1>2, <1>3 DEF TypesOK
<1>5. HistoryOK'
  <2>1. \A n : DueAt(n)' = DueAt(n)
    BY <1>1 DEF DueAt
  <2>2. \A m \in inFlight : m.at <= now'
    BY <1>2 DEF TypesOK, HistoryOK
  <2>3. \A i \in DOMAIN arrived : arrived[i].rx <= now'
    BY <1>2, ArrivalTypes DEF TypesOK, HistoryOK
  <2> HIDE DEF DueAt
  <2>4. QED
    BY <1>1, <2>1, <2>2, <2>3 DEF HistoryOK
<1>6. StatsOK'
  BY <1>1 DEF StatsOK, LastArrival
<1>7. /\ arrived' = arrived /\ stats' = stats /\ LastArrival' = LastArrival
      /\ Len(arrived) \in Nat /\ DOMAIN arrived = 1 .. Len(arrived) /\ now \in Nat
      /\ IsFiniteSet(expired) /\ Cardinality(expired) \in Nat
  <2>1. IsFiniteSet(DOMAIN arrived)
    BY ValuesFinite DEF TypesOK
  <2>2. expired \in SUBSET DOMAIN arrived
    BY DEF SilencesOK
  <2>3. QED
    BY <1>1, <2>1, <2>2, ArrivalTypes, FS_Subset, FS_CardinalityType DEF LastArrival, TypesOK
<1>8. ASSUME NEW d \in stats.deadline, arrived # << >>
      PROVE  /\ d \in Nat /\ stats.deadline = {d} /\ LastArrival.rx \in Nat
             /\ Len(arrived) \in DOMAIN arrived
             /\ \E t \in timer :
                  /\ timer = {t} /\ t \in Nat
                  /\ Len(arrived) \notin expired => t = LastArrival.rx + d
                  /\ Len(arrived) \in expired => t >= LastArrival.rx + 2 * d
  <2>1. d \in Nat /\ stats.deadline = {d}
    BY OneDeadline
  <2>2. PICK t \in timer : timer = {t}
    BY <1>8 DEF TimerOK
  <2>3. LastArrival.rx \in Nat /\ Len(arrived) \in DOMAIN arrived
    BY <1>8, ArrivalTypes
  <2>4. QED
    BY <2>1, <2>2, <2>3 DEF TimerOK
\* The timer has run out in time.
<1>9. ASSUME arrived # << >>
      PROVE  Len(arrived) \in expired' <=> \E d \in stats.deadline : now' - LastArrival.rx > d
  <2>1. CASE stats.deadline = {}
    <3>1. timer = {} /\ Len(arrived) \notin expired
      BY <1>9, <2>1 DEF TimerOK, SilencesOK
    <3>2. expired' = expired
      BY <1>1, <3>1 DEF Expire
    <3>3. QED
      BY <2>1, <3>1, <3>2
  <2>2. CASE stats.deadline # {}
    <3>1. PICK d \in stats.deadline : TRUE
      BY <2>2
    <3>2. d \in Nat /\ stats.deadline = {d} /\ LastArrival.rx \in Nat
      BY <1>8, <1>9
    <3>3. PICK t \in timer : /\ timer = {t} /\ t \in Nat
                             /\ Len(arrived) \notin expired => t = LastArrival.rx + d
                             /\ Len(arrived) \in expired => t >= LastArrival.rx + 2 * d
      BY <1>8, <1>9
    <3>4. Len(arrived) \in expired <=> now - LastArrival.rx > d
      BY <1>9, <3>2 DEF SilencesOK
    <3> DEFINE rx == LastArrival.rx
    <3> HIDE DEF rx
    <3>5. CASE Expire
      <4>1. now' > t /\ Len(arrived) \in expired'
        BY <3>3, <3>5 DEF Expire
      <4>2. rx \in Nat /\ (t = rx + d \/ t >= rx + 2 * d)
        BY <3>2, <3>3 DEF rx
      <4>3. now' \in Nat /\ now' > t /\ t \in Nat /\ d \in Nat
        BY <1>2, <3>2, <3>3, <4>1
      <4>4. now' - rx > d
        BY <4>2, <4>3, TimerRunsOut
      <4>5. QED
        BY <3>2, <4>1, <4>4 DEF rx
    <3>6. CASE (\A u \in timer : now' <= u) /\ UNCHANGED <<timer, expired, reported>>
      <4>1. now' <= t /\ expired' = expired
        BY <3>3, <3>6
      <4>2. rx \in Nat /\ (Len(arrived) \in expired <=> now - rx > d)
            /\ (Len(arrived) \notin expired => t = rx + d)
        BY <3>2, <3>3, <3>4 DEF rx
      <4>3. Len(arrived) \in expired <=> now' - rx > d
        BY <1>2, <1>7, <3>2, <3>3, <4>1, <4>2
      <4>4. QED
        BY <3>2, <4>1, <4>3 DEF rx
    <3>7. QED
      BY <1>1, <3>5, <3>6
  <2>3. QED
    BY <2>1, <2>2
\* It runs only once a sample has armed it.
<1>10. Expire => arrived # << >> /\ stats.deadline # {}
  BY DEF Expire, TimerOK
<1>11. SilencesOK'
  <2>1. expired' \subseteq DOMAIN arrived /\ expired' \ {Len(arrived)} = expired \ {Len(arrived)}
    <3>1. CASE Expire
      BY <1>10, <3>1, ArrivalTypes DEF SilencesOK, Expire
    <3>2. CASE UNCHANGED <<timer, expired, reported>>
      BY <3>2 DEF SilencesOK
    <3>3. QED
      BY <1>1, <3>1, <3>2
  <2>2. QED
    BY <1>7, <1>9, <2>1 DEF SilencesOK
<1>12. ASSUME NEW d \in stats.deadline, \A s \in Silences' : s <= 2 * d
       PROVE  /\ \A s \in Silences : s <= 2 * d
              /\ arrived # << >> => now' - LastArrival.rx <= 2 * d
  <2>1. d \in Nat
    BY OneDeadline
  <2>2. ASSUME arrived # << >> PROVE now' - LastArrival.rx <= 2 * d
    <3>1. Len(arrived) \in {Len(arrived)} \ {0}
      BY <1>7, <2>2, ArrivalTypes
    <3>2. now' - LastArrival.rx \in Silences'
      BY <1>7, <3>1 DEF Silences, LastArrival
    <3>3. QED
      BY <1>12, <3>2
  <2>3. ASSUME NEW i \in 1 .. Len(arrived) - 1 PROVE arrived[i + 1].rx - arrived[i].rx <= 2 * d
    BY <1>7, <1>12 DEF Silences
  <2>4. ASSUME NEW i \in {Len(arrived)} \ {0} PROVE now - arrived[i].rx <= 2 * d
    <3>1. arrived # << >> /\ arrived[i].rx = LastArrival.rx /\ arrived[i].rx \in Nat
      BY <2>4, <1>7, ArrivalTypes DEF LastArrival
    <3>2. QED
      BY <1>2, <1>7, <2>1, <2>2, <3>1
  <2>5. QED
    BY <2>2, <2>3, <2>4 DEF Silences
<1>13. TimerOK'
  <2>1. CASE Expire
    <3>1. PICK d \in stats.deadline : TRUE
      BY <1>10, <2>1
    <3>2. d \in Nat /\ stats.deadline = {d} /\ LastArrival.rx \in Nat /\ arrived # << >>
      BY <1>8, <1>10, <2>1
    <3>3. PICK t \in timer : /\ timer = {t} /\ t \in Nat
                             /\ Len(arrived) \notin expired => t = LastArrival.rx + d
                             /\ Len(arrived) \in expired => t >= LastArrival.rx + 2 * d
      BY <1>8, <3>2
    <3>4. /\ now' > t /\ timer' = {t + d} /\ reported' = reported + 1
          /\ expired' = expired \cup {Len(arrived)}
      BY <2>1, <3>2, <3>3 DEF Expire
    <3>5. reported \in Nat /\ Cardinality(expired) <= reported
      BY DEF TimerOK
    <3>6. Cardinality(expired') =
            IF Len(arrived) \in expired THEN Cardinality(expired) ELSE Cardinality(expired) + 1
      BY <1>7, <3>4, FS_AddElement
    <3>7. reported' \in Nat /\ Cardinality(expired') <= reported'
      BY <1>7, <3>4, <3>5, <3>6
    <3>8. t + d \in Nat /\ t + d >= LastArrival.rx + 2 * d
      <4> DEFINE rx == LastArrival.rx
      <4>1. rx \in Nat /\ (t = rx + d \/ t >= rx + 2 * d)
        BY <3>2, <3>3
      <4> HIDE DEF rx
      <4>2. t + d \in Nat /\ t + d >= rx + 2 * d
        BY <3>2, <3>3, <4>1
      <4>3. QED
        BY <4>2 DEF rx
    <3>9. ASSUME \A s \in Silences' : s <= 2 * d
          PROVE  reported' = Cardinality(expired')
      <4>1. (\A s \in Silences : s <= 2 * d) /\ now' - LastArrival.rx <= 2 * d
        BY <1>12, <3>2, <3>9
      <4>2. reported = Cardinality(expired)
        BY <4>1 DEF TimerOK
      <4>3. Len(arrived) \notin expired
        <5> DEFINE rx == LastArrival.rx
        <5>1. rx \in Nat /\ now' - rx <= 2 * d /\ (Len(arrived) \in expired => t >= rx + 2 * d)
          BY <3>2, <3>3, <4>1
        <5> HIDE DEF rx
        <5>2. now' \in Nat /\ now' > t /\ t \in Nat /\ d \in Nat
          BY <1>2, <3>2, <3>3, <3>4
        <5>3. t >= rx + 2 * d => ~ (now' - rx <= 2 * d)
          BY <5>1, <5>2, TimerRunsOut
        <5>4. QED
          BY <5>1, <5>3
      <4>4. QED
        BY <3>4, <3>6, <4>2, <4>3
    <3>10. Len(arrived') \in expired'
      BY <1>7, <3>4
    <3>11. QED
      BY <1>7, <3>2, <3>4, <3>7, <3>8, <3>9, <3>10 DEF TimerOK
  <2>2. CASE UNCHANGED <<timer, expired, reported>>
    <3>1. ASSUME NEW d \in stats.deadline, \A s \in Silences' : s <= 2 * d
          PROVE  reported = Cardinality(expired)
      BY <1>12, <3>1 DEF TimerOK
    <3>2. QED
      BY <1>7, <2>2, <3>1 DEF TimerOK
  <2>3. QED
    BY <1>1, <2>1, <2>2
<1>14. LossOK'
  BY <1>1 DEF LossOK, LossCoversHoles, Holes, Received, InOrder
<1>15. QED
  BY <1>4, <1>5, <1>6, <1>11, <1>13, <1>14

\* What a delivery does to the history and the accumulator.
LEMMA DeliverEffect ==
  ASSUME MonitorInvariant, Deliver
  PROVE  \E m \in inFlight :
    /\ inFlight' \in SUBSET inFlight
    /\ UNCHANGED <<request, clock, now, sent, running, expired, reported>>
    /\ timer' = { now + d : d \in stats.deadline }
    /\ m.seq \in Nat /\ m.seq < sent /\ m.at = DueAt(m.seq) /\ m.at \in Nat /\ m.at <= now
    /\ Len(arrived') = Len(arrived) + 1 /\ Len(arrived) < MaxArrivals
    /\ arrived' \in Seq(Arrivals) /\ DOMAIN arrived' = 1 .. Len(arrived) + 1
    /\ \A i \in DOMAIN arrived : arrived'[i] = arrived[i]
    /\ arrived'[Len(arrived) + 1] = [seq |-> m.seq, at |-> m.at, rx |-> now]
    /\ stats' \in Stats /\ stats'.deadline = stats.deadline /\ stats'.sync = stats.sync
    /\ stats'.latencies = stats.latencies \o Measured(stats, now, m.at + clock.offset)
    /\ stats'.deadline_miss = stats.deadline_miss + (IF Late(stats, now) THEN 1 ELSE 0)
    /\ stats'.sample_lost = stats.sample_lost + Skipped(stats, m.seq)
    /\ stats'.last_rx = {now} /\ stats'.last_seq = {m.seq}
<1> USE DEF MonitorInvariant
<1>1. PICK m \in inFlight :
        /\ inFlight' \in { inFlight, inFlight \ {m} }
        /\ stats' = OnSample(stats, now, m.at + clock.offset, m.seq)
        /\ arrived' = Append(arrived, [seq |-> m.seq, at |-> m.at, rx |-> now])
  BY DEF Deliver
<1>2. m.seq \in Nat /\ m.seq < sent /\ m.at = DueAt(m.seq) /\ m.at \in Nat /\ m.at <= now
  BY DEF HistoryOK
<1>3. now \in Nat /\ clock.offset \in Int /\ m.at + clock.offset \in Int
  BY <1>2, ClocksAssumption DEF TypesOK
<1>4. Skipped(stats, m.seq) \in Nat
  <2>1. CASE arrived = << >>
    BY <2>1, SkippedValue DEF StatsOK
  <2>2. CASE arrived # << >>
    <3>1. LastArrival.seq \in Nat /\ stats.last_seq = {LastArrival.seq}
      BY <2>2, ArrivalTypes DEF StatsOK
    <3>2. Skipped(stats, m.seq) =
            IF m.seq > LastArrival.seq + 1 THEN m.seq - LastArrival.seq - 1 ELSE 0
      BY <3>1, SkippedValue
    <3>3. QED
      BY <1>2, <3>1, <3>2
  <2>3. QED
    BY <2>1, <2>2
<1>5. stats \in Stats
  BY DEF TypesOK
<1>6. /\ stats' \in Stats /\ stats'.deadline = stats.deadline /\ stats'.sync = stats.sync
      /\ stats'.latencies = stats.latencies \o Measured(stats, now, m.at + clock.offset)
      /\ stats'.deadline_miss = stats.deadline_miss + (IF Late(stats, now) THEN 1 ELSE 0)
      /\ stats'.sample_lost = stats.sample_lost + Skipped(stats, m.seq)
      /\ stats'.last_rx = {now} /\ stats'.last_seq = {m.seq}
  <2> DEFINE source == m.at + clock.offset
             t == stats'
             seq == m.seq
  <2>1. t = OnSample(stats, now, source, seq) /\ source \in Int /\ seq \in Nat /\ Skipped(stats, seq) \in Nat
    BY <1>1, <1>2, <1>3, <1>4
  <2> HIDE DEF source, t, seq
  <2>2. /\ t \in Stats /\ t.deadline = stats.deadline /\ t.sync = stats.sync
        /\ t.deadline_miss = stats.deadline_miss + (IF Late(stats, now) THEN 1 ELSE 0)
        /\ t.sample_lost = stats.sample_lost + Skipped(stats, seq)
        /\ t.latencies = stats.latencies \o Measured(stats, now, source)
        /\ t.last_rx = {now} /\ t.last_seq = {seq}
    BY <1>3, <1>5, <2>1, OnSampleFields, SMTT(20)
  <2>3. QED
    BY <2>2 DEF source, t, seq
<1>7. [seq |-> m.seq, at |-> m.at, rx |-> now] \in Arrivals
  BY <1>2, <1>3 DEF Arrivals
<1>8. arrived \in Seq(Arrivals) /\ Len(arrived) \in Nat /\ DOMAIN arrived = 1 .. Len(arrived)
  BY ArrivalTypes DEF TypesOK
<1>9. /\ Len(arrived') = Len(arrived) + 1
      /\ arrived' \in Seq(Arrivals) /\ DOMAIN arrived' = 1 .. Len(arrived) + 1
      /\ \A i \in DOMAIN arrived : arrived'[i] = arrived[i]
      /\ arrived'[Len(arrived) + 1] = [seq |-> m.seq, at |-> m.at, rx |-> now]
  <2> DEFINE a == [seq |-> m.seq, at |-> m.at, rx |-> now]
  <2>1. a \in Arrivals /\ arrived' = Append(arrived, a)
    BY <1>1, <1>7
  <2> HIDE DEF a
  <2>2. QED
    BY <1>8, <2>1 DEF a
<1>10. /\ UNCHANGED <<request, clock, now, sent, running, expired, reported>>
       /\ timer' = { now + d : d \in stats.deadline } /\ Len(arrived) < MaxArrivals
  BY DEF Deliver
<1>11. inFlight' \in SUBSET inFlight
  BY <1>1
<1>12. QED
  BY <1>2, <1>6, <1>9, <1>10, <1>11

\* The measures of the arrivals, one sample longer.
LEMMA DeliverKeepsStats ==
  ASSUME MonitorInvariant, Deliver
  PROVE  TypesOK' /\ HistoryOK' /\ StatsOK'
<1> USE DEF MonitorInvariant
<1>1. PICK m \in inFlight :
        /\ inFlight' \in SUBSET inFlight
        /\ UNCHANGED <<request, clock, now, sent, running, expired, reported>>
        /\ timer' = { now + d : d \in stats.deadline }
        /\ m.seq \in Nat /\ m.seq < sent /\ m.at = DueAt(m.seq) /\ m.at \in Nat /\ m.at <= now
        /\ Len(arrived') = Len(arrived) + 1 /\ Len(arrived) < MaxArrivals
        /\ arrived' \in Seq(Arrivals) /\ DOMAIN arrived' = 1 .. Len(arrived) + 1
        /\ \A i \in DOMAIN arrived : arrived'[i] = arrived[i]
        /\ arrived'[Len(arrived) + 1] = [seq |-> m.seq, at |-> m.at, rx |-> now]
        /\ stats' \in Stats /\ stats'.deadline = stats.deadline /\ stats'.sync = stats.sync
        /\ stats'.latencies = stats.latencies \o Measured(stats, now, m.at + clock.offset)
        /\ stats'.deadline_miss = stats.deadline_miss + (IF Late(stats, now) THEN 1 ELSE 0)
        /\ stats'.sample_lost = stats.sample_lost + Skipped(stats, m.seq)
        /\ stats'.last_rx = {now} /\ stats'.last_seq = {m.seq}
  BY DeliverEffect
<1>2. /\ Len(arrived) \in Nat /\ DOMAIN arrived = 1 .. Len(arrived) /\ now \in Nat
      /\ \A i \in DOMAIN arrived :
           arrived[i].seq \in Nat /\ arrived[i].at \in Nat /\ arrived[i].rx \in Nat
  BY ArrivalTypes DEF TypesOK
<1>3. /\ arrived'[Len(arrived) + 1].seq = m.seq /\ arrived'[Len(arrived) + 1].at = m.at
      /\ arrived'[Len(arrived) + 1].rx = now
  BY <1>1
<1>4. TypesOK'
  BY <1>1, <1>2, BoundsAssumption DEF TypesOK
<1>5. HistoryOK'
  <2>1. \A n : DueAt(n)' = DueAt(n)
    BY <1>1 DEF DueAt
  <2>2. \A x \in inFlight' : /\ x.seq \in Nat /\ x.seq < sent
                             /\ x.at = DueAt(x.seq) /\ x.at \in Nat /\ x.at <= now
    BY <1>1 DEF HistoryOK
  <2> HIDE DEF DueAt
  <2>3. \A i \in DOMAIN arrived' :
          /\ arrived'[i].seq < sent /\ arrived'[i].at = DueAt(arrived'[i].seq)
          /\ arrived'[i].at <= arrived'[i].rx /\ arrived'[i].rx <= now
    BY <1>1, <1>2, <1>3 DEF HistoryOK
  <2>4. \A i, j \in DOMAIN arrived' : i <= j => arrived'[i].rx <= arrived'[j].rx
    <3>1. TAKE i, j \in DOMAIN arrived'
    <3>2. HAVE i <= j
    <3>3. CASE j \in DOMAIN arrived
      BY <1>1, <1>2, <3>2, <3>3 DEF HistoryOK
    <3>4. CASE j = Len(arrived) + 1
      BY <1>1, <1>3, <2>3, <3>4
    <3>5. QED
      BY <1>1, <1>2, <3>3, <3>4
  <2>5. QED
    BY <1>1, <2>1, <2>2, <2>3, <2>4 DEF HistoryOK
<1>6. StatsOK'
  <2>1. arrived' # << >> /\ LastArrival'.rx = now /\ LastArrival'.seq = m.seq
    BY <1>1, <1>2, <1>3 DEF LastArrival
  <2>2. CASE clock.sync = "unsynchronised"
    <3>1. stats.latencies = << >> /\ Measured(stats, now, m.at + clock.offset) = << >>
      BY <2>2 DEF StatsOK, TypesOK, Measured
    <3>2. stats'.latencies = << >>
      BY <1>1, <3>1
    <3>3. QED
      BY <1>1, <2>1, <2>2, <3>2 DEF StatsOK
  <2>3. CASE clock.sync # "unsynchronised"
    <3> DEFINE Lat(a) == a.rx - (a.at + clock.offset)
               ls == stats.latencies
               l == now - (m.at + clock.offset)
               n == Len(arrived)
    <3>1. Measured(stats, now, m.at + clock.offset) = << l >>
      BY <2>3 DEF TypesOK, Measured
    <3>2. ls = [ i \in 1 .. n |-> Lat(arrived[i]) ]
      BY <1>2, <2>3 DEF StatsOK
    <3>3. ls \in Seq(Int) /\ Len(ls) = n /\ \A i \in 1 .. n : ls[i] = Lat(arrived[i])
      <4>1. ls \in Seq(Int)
        BY DEF TypesOK, Stats
      <4>2. DOMAIN ls = 1 .. n
        BY <3>2
      <4>3. \A i \in 1 .. n : ls[i] = Lat(arrived[i])
        <5> HIDE DEF ls, Lat
        <5> QED BY <3>2
      <4>4. QED
        BY <1>2, <4>1, <4>2, <4>3
    <3>4. l \in Int
      BY <1>1, <1>2, ClocksAssumption DEF TypesOK
    <3>5. stats'.latencies = Append(ls, l)
      <4>1. ls \o << l >> = Append(ls, l)
        <5> HIDE DEF ls, l
        <5> QED BY <3>3, <3>4
      <4>2. QED
        BY <1>1, <3>1, <4>1
    <3>6. Append(ls, l) = [ i \in 1 .. n + 1 |-> Lat(arrived'[i]) ]
      <4>1. Lat(arrived'[n + 1]) = l
        BY <1>3
      <4>2. \A i \in 1 .. n : Lat(arrived'[i]) = ls[i]
        BY <1>1, <1>2, <3>3
      <4> HIDE DEF ls, l, Lat, n
      <4>3. n \in Nat
        BY <1>2 DEF n
      <4>4. DOMAIN Append(ls, l) = 1 .. n + 1 /\ Append(ls, l)[n + 1] = l
            /\ \A i \in 1 .. n : Append(ls, l)[i] = ls[i]
        BY <3>3, <3>4, <4>3
      <4>5. \A i \in 1 .. n + 1 : Append(ls, l)[i] = Lat(arrived'[i])
        BY <4>1, <4>2, <4>3, <4>4
      <4>6. Append(ls, l) = [ i \in DOMAIN Append(ls, l) |-> Append(ls, l)[i] ]
        <5>1. Append(ls, l) \in Seq(Int)
          BY <3>3, <3>4
        <5>2. Append(ls, l) \in [ 1 .. Len(Append(ls, l)) -> Int ]
          BY <5>1, LenProperties
        <5>3. QED
          BY <5>2
      <4>7. QED
        BY <4>4, <4>5, <4>6
    <3>7. stats'.latencies = [ i \in DOMAIN arrived' |-> Lat(arrived'[i]) ]
      <4> HIDE DEF Lat, ls, l
      <4> QED BY <1>1, <3>5, <3>6
    <3>8. QED
      BY <1>1, <2>1, <2>3, <3>7 DEF StatsOK
  <2>4. QED
    BY <2>2, <2>3
<1>7. QED
  BY <1>4, <1>5, <1>6

\* The silence that a sample ends is counted if the timer saw it.
LEMMA DeliverKeepsSilences ==
  ASSUME MonitorInvariant, Deliver
  PROVE  SilencesOK'
<1> USE DEF MonitorInvariant
<1>1. PICK m \in inFlight :
        /\ inFlight' \in SUBSET inFlight
        /\ UNCHANGED <<request, clock, now, sent, running, expired, reported>>
        /\ timer' = { now + d : d \in stats.deadline }
        /\ m.seq \in Nat /\ m.seq < sent /\ m.at = DueAt(m.seq) /\ m.at \in Nat /\ m.at <= now
        /\ Len(arrived') = Len(arrived) + 1 /\ Len(arrived) < MaxArrivals
        /\ arrived' \in Seq(Arrivals) /\ DOMAIN arrived' = 1 .. Len(arrived) + 1
        /\ \A i \in DOMAIN arrived : arrived'[i] = arrived[i]
        /\ arrived'[Len(arrived) + 1] = [seq |-> m.seq, at |-> m.at, rx |-> now]
        /\ stats' \in Stats /\ stats'.deadline = stats.deadline /\ stats'.sync = stats.sync
        /\ stats'.latencies = stats.latencies \o Measured(stats, now, m.at + clock.offset)
        /\ stats'.deadline_miss = stats.deadline_miss + (IF Late(stats, now) THEN 1 ELSE 0)
        /\ stats'.sample_lost = stats.sample_lost + Skipped(stats, m.seq)
        /\ stats'.last_rx = {now} /\ stats'.last_seq = {m.seq}
  BY DeliverEffect
<1>2. /\ Len(arrived) \in Nat /\ DOMAIN arrived = 1 .. Len(arrived) /\ now \in Nat
      /\ \A i \in DOMAIN arrived :
           arrived[i].seq \in Nat /\ arrived[i].at \in Nat /\ arrived[i].rx \in Nat
  BY ArrivalTypes DEF TypesOK
<1>3. /\ arrived'[Len(arrived) + 1].seq = m.seq /\ arrived'[Len(arrived) + 1].at = m.at
      /\ arrived'[Len(arrived) + 1].rx = now
  BY <1>1
<1>4. /\ IsFiniteSet(expired) /\ Cardinality(expired) \in Nat
      /\ expired \ {Len(arrived) + 1} = expired /\ Len(arrived) + 1 \notin expired
  <2>1. IsFiniteSet(DOMAIN arrived)
    BY ValuesFinite DEF TypesOK
  <2>2. expired \in SUBSET DOMAIN arrived
    BY DEF SilencesOK
  <2>3. IsFiniteSet(expired)
    BY <2>1, <2>2, FS_Subset
  <2>4. Len(arrived) + 1 \notin expired
    BY <1>2, <2>2
  <2>5. QED
    BY <2>3, <2>4, FS_CardinalityType
<1>5. /\ stats.deadline_miss \in Nat
      /\ stats.deadline_miss = Cardinality(expired \ {Len(arrived)})
      /\ \A d \in stats.deadline : d \in Nat
  BY DEF TypesOK, Stats, SilencesOK
<1>6. Late(stats, now) <=> Len(arrived) \in expired
  <2>1. CASE arrived = << >>
    BY <2>1 DEF Late, StatsOK, SilencesOK
  <2>2. CASE arrived # << >>
    BY <2>2 DEF Late, StatsOK, SilencesOK
  <2>3. QED
    BY <2>1, <2>2
<1>7. stats'.deadline_miss = Cardinality(expired)
  <2>1. Cardinality(expired \ {Len(arrived)}) =
          IF Len(arrived) \in expired THEN Cardinality(expired) - 1 ELSE Cardinality(expired)
    BY <1>4, FS_RemoveElement
  <2> HIDE DEF Late
  <2>2. QED
    BY <1>1, <1>4, <1>5, <1>6, <2>1
<1>8. LastArrival'.rx = now
  BY <1>1, <1>3 DEF LastArrival
<1>9. ASSUME stats'.deadline_miss > 0
      PROVE  \E i \in DOMAIN arrived', d \in stats.deadline :
               /\ i + 1 \in DOMAIN arrived'
               /\ arrived'[i + 1].rx - arrived'[i].rx > d
  <2>1. CASE stats.deadline_miss > 0
    <3>1. PICK i \in DOMAIN arrived, d \in stats.deadline :
            i + 1 \in DOMAIN arrived /\ arrived[i + 1].rx - arrived[i].rx > d
      BY <2>1 DEF SilencesOK
    <3>2. i \in DOMAIN arrived' /\ i + 1 \in DOMAIN arrived'
          /\ arrived'[i] = arrived[i] /\ arrived'[i + 1] = arrived[i + 1]
      BY <1>1, <1>2, <3>1
    <3>3. QED
      BY <3>1, <3>2
  <2>2. CASE ~ (stats.deadline_miss > 0)
    <3>1. Late(stats, now)
      <4> HIDE DEF Late
      <4> QED BY <1>1, <1>5, <1>9, <2>2
    <3>2. arrived # << >>
      BY <3>1 DEF Late, StatsOK
    <3>3. PICK d \in stats.deadline : now - LastArrival.rx > d
      BY <3>1, <3>2 DEF Late, StatsOK
    <3>4. Len(arrived) \in DOMAIN arrived /\ Len(arrived) \in DOMAIN arrived'
          /\ Len(arrived) + 1 \in DOMAIN arrived'
      BY <1>1, <1>2, <3>2, ArrivalTypes
    <3>5. arrived'[Len(arrived) + 1].rx - arrived'[Len(arrived)].rx > d
      BY <1>1, <1>3, <3>3, <3>4 DEF LastArrival
    <3>6. QED
      BY <3>4, <3>5
  <2>3. QED
    BY <2>1, <2>2
<1>10. \A d \in stats.deadline : ~ (now - now > d)
  BY <1>2, <1>5
<1>11. expired \subseteq DOMAIN arrived'
  BY <1>1, <1>2 DEF SilencesOK
<1>12. QED
  <2>1. stats'.deadline_miss = Cardinality(expired' \ {Len(arrived')})
    BY <1>1, <1>4, <1>7
  <2>2. ~ (\E d \in stats'.deadline : now' - LastArrival'.rx > d)
    BY <1>1, <1>8, <1>10
  <2>3. Len(arrived') \notin expired'
    BY <1>1, <1>4
  <2>4. stats'.deadline = stats.deadline /\ expired' = expired
    BY <1>1
  <2>5. QED
    BY <1>9, <1>11, <2>1, <2>2, <2>3, <2>4 DEF SilencesOK

\* A sample arms the timer anew, and the silence it ends stays as long as it was.
LEMMA DeliverKeepsTimer ==
  ASSUME MonitorInvariant, Deliver
  PROVE  TimerOK'
<1> USE DEF MonitorInvariant
<1>1. PICK m \in inFlight :
        /\ UNCHANGED <<now, expired, reported>>
        /\ timer' = { now + d : d \in stats.deadline }
        /\ Len(arrived') = Len(arrived) + 1 /\ DOMAIN arrived' = 1 .. Len(arrived) + 1
        /\ \A i \in DOMAIN arrived : arrived'[i] = arrived[i]
        /\ arrived'[Len(arrived) + 1] = [seq |-> m.seq, at |-> m.at, rx |-> now]
        /\ stats'.deadline = stats.deadline
  BY DeliverEffect
<1>2. /\ Len(arrived) \in Nat /\ DOMAIN arrived = 1 .. Len(arrived) /\ now \in Nat
      /\ arrived'[Len(arrived) + 1].rx = now
  BY <1>1, ArrivalTypes DEF TypesOK
<1>3. arrived' # << >> /\ LastArrival'.rx = now
  BY <1>1, <1>2 DEF LastArrival
<1>4. Len(arrived') \notin expired'
  BY <1>1, <1>2 DEF SilencesOK
<1>5. Silences \subseteq Silences'
  <2>1. ASSUME NEW i \in 1 .. Len(arrived) - 1 PROVE arrived[i + 1].rx - arrived[i].rx \in Silences'
    <3>1. i \in 1 .. Len(arrived') - 1 /\ i \in DOMAIN arrived /\ i + 1 \in DOMAIN arrived
      BY <1>1, <1>2
    <3>2. QED
      BY <1>1, <3>1 DEF Silences
  <2>2. ASSUME NEW i \in {Len(arrived)} \ {0} PROVE now - arrived[i].rx \in Silences'
    <3>1. i \in 1 .. Len(arrived') - 1 /\ i \in DOMAIN arrived /\ i + 1 = Len(arrived) + 1
      BY <1>1, <1>2
    <3>2. arrived'[i + 1].rx - arrived'[i].rx = now - arrived[i].rx
      BY <1>1, <1>2, <3>1
    <3>3. QED
      BY <3>1, <3>2 DEF Silences
  <2>3. QED
    BY <2>1, <2>2 DEF Silences
<1>6. ASSUME NEW d \in stats.deadline
      PROVE  d \in Nat /\ stats.deadline = {d} /\ timer' = {now + d}
  BY <1>1, OneDeadline
<1>7. ASSUME NEW d \in stats.deadline, \A s \in Silences' : s <= 2 * d
      PROVE  reported = Cardinality(expired)
  BY <1>5, <1>7 DEF TimerOK
<1>8. timer' = {} <=> stats.deadline = {}
  BY <1>1
<1>9. \A s, t \in timer' : s = t
  BY <1>1, <1>6
<1>10. \A t \in timer', d \in stats.deadline : t \in Nat /\ t = LastArrival'.rx + d
  BY <1>2, <1>3, <1>6
<1>11. reported \in Nat /\ Cardinality(expired) <= reported
  BY DEF TimerOK
<1>12. QED
  BY <1>1, <1>3, <1>4, <1>7, <1>8, <1>9, <1>10, <1>11 DEF TimerOK

\* The loss that one more arrival adds.
LEMMA DeliverKeepsLoss ==
  ASSUME MonitorInvariant, Deliver
  PROVE  LossOK'
<1> USE DEF MonitorInvariant
<1>1. PICK m \in inFlight :
        /\ inFlight' \in SUBSET inFlight
        /\ UNCHANGED <<request, clock, now, sent, running, expired, reported>>
        /\ timer' = { now + d : d \in stats.deadline }
        /\ m.seq \in Nat /\ m.seq < sent /\ m.at = DueAt(m.seq) /\ m.at \in Nat /\ m.at <= now
        /\ Len(arrived') = Len(arrived) + 1 /\ Len(arrived) < MaxArrivals
        /\ arrived' \in Seq(Arrivals) /\ DOMAIN arrived' = 1 .. Len(arrived) + 1
        /\ \A i \in DOMAIN arrived : arrived'[i] = arrived[i]
        /\ arrived'[Len(arrived) + 1] = [seq |-> m.seq, at |-> m.at, rx |-> now]
        /\ stats' \in Stats /\ stats'.deadline = stats.deadline /\ stats'.sync = stats.sync
        /\ stats'.latencies = stats.latencies \o Measured(stats, now, m.at + clock.offset)
        /\ stats'.deadline_miss = stats.deadline_miss + (IF Late(stats, now) THEN 1 ELSE 0)
        /\ stats'.sample_lost = stats.sample_lost + Skipped(stats, m.seq)
        /\ stats'.last_rx = {now} /\ stats'.last_seq = {m.seq}
  BY DeliverEffect
<1>2. /\ Len(arrived) \in Nat /\ DOMAIN arrived = 1 .. Len(arrived) /\ now \in Nat
      /\ \A i \in DOMAIN arrived :
           arrived[i].seq \in Nat /\ arrived[i].at \in Nat /\ arrived[i].rx \in Nat
  BY ArrivalTypes DEF TypesOK
<1>3. /\ arrived'[Len(arrived) + 1].seq = m.seq /\ arrived'[Len(arrived) + 1].at = m.at
      /\ arrived'[Len(arrived) + 1].rx = now
  BY <1>1
<1>4. arrived' # << >> /\ Received' = Received \cup {m.seq}
  <2>1. arrived' # << >>
    BY <1>1, <1>2
  <2>2. ASSUME NEW r \in Received' PROVE r \in Received \cup {m.seq}
    <3>1. PICK i \in DOMAIN arrived' : r = arrived'[i].seq
      BY DEF Received
    <3>2. CASE i \in DOMAIN arrived
      BY <1>1, <3>1, <3>2 DEF Received
    <3>3. CASE i = Len(arrived) + 1
      BY <1>3, <3>1, <3>3
    <3>4. QED
      BY <1>1, <1>2, <3>2, <3>3
  <2>3. ASSUME NEW r \in Received PROVE r \in Received'
    <3>1. PICK i \in DOMAIN arrived : r = arrived[i].seq
      BY DEF Received
    <3>2. i \in DOMAIN arrived' /\ arrived'[i] = arrived[i]
      BY <1>1, <1>2
    <3>3. QED
      BY <3>1, <3>2 DEF Received
  <2>4. m.seq \in Received'
    <3>1. Len(arrived) + 1 \in DOMAIN arrived'
      BY <1>1, <1>2
    <3>2. QED
      BY <1>3, <3>1 DEF Received
  <2>5. QED
    BY <2>1, <2>2, <2>3, <2>4
<1>5. Received \subseteq Nat /\ IsFiniteSet(0 .. MaxSent)
  <2>1. 0 \in Int /\ MaxSent \in Int
    BY BoundsAssumption
  <2>2. IsFiniteSet(0 .. MaxSent)
    BY <2>1, FS_Interval
  <2>3. QED
    BY <1>2, <2>2 DEF Received
<1>6. /\ IsFiniteSet(Holes) /\ Cardinality(Holes) \in Nat
      /\ IsFiniteSet(Holes') /\ Cardinality(Holes') \in Nat
  <2>1. Holes \in SUBSET (0 .. MaxSent) /\ Holes' \in SUBSET (0 .. MaxSent)
    BY DEF Holes
  <2>2. QED
    BY <1>5, <2>1, FS_Subset, FS_CardinalityType
<1>7. CASE arrived = << >>
  <2>1. Received = {} /\ Len(arrived) = 0 /\ stats.sample_lost = 0
    BY <1>2, <1>7 DEF Received, LossOK
  <2>2. Holes' = {}
    <3>1. arrived'[1].seq = m.seq /\ Received' = {m.seq}
      BY <1>3, <1>4, <2>1
    <3>2. \A k \in 0 .. MaxSent : ~ (k < m.seq /\ k > m.seq)
      BY <1>1
    <3>3. QED
      BY <3>1, <3>2 DEF Holes
  <2>3. stats'.sample_lost = 0
    <3>1. Skipped(stats, m.seq) = 0
      BY <1>7, SkippedValue DEF StatsOK
    <3>2. QED
      BY <1>1, <2>1, <3>1
  <2>4. Cardinality(Holes') = 0
    BY <2>2, FS_EmptySet
  <2>5. QED
    BY <1>4, <2>3, <2>4 DEF LossOK, LossCoversHoles
<1>8. CASE arrived # << >>
  <2> DEFINE l == LastArrival.seq
             s == m.seq
             gap == (l + 1) .. (s - 1)
             first == arrived[1].seq
             lost == IF s > l + 1 THEN s - l - 1 ELSE 0
  <2>1. /\ l \in Nat /\ s \in Nat /\ first \in Nat /\ l \in Received /\ first \in Received
        /\ arrived'[1].seq = first /\ 1 \in DOMAIN arrived /\ Len(arrived) \in DOMAIN arrived
    <3>1. 1 \in DOMAIN arrived /\ Len(arrived) \in DOMAIN arrived
      BY <1>2, <1>8, ArrivalTypes
    <3>2. QED
      BY <1>1, <1>2, <3>1 DEF LastArrival, Received
  <2>2. s < MaxSent
    BY <1>1, BoundsAssumption DEF TypesOK
  <2>3. stats'.sample_lost = stats.sample_lost + lost /\ stats.sample_lost \in Nat
    <3>1. stats.last_seq = {LastArrival.seq}
      BY <1>8 DEF StatsOK
    <3>2. Skipped(stats, m.seq) = lost
      BY <3>1, SkippedValue
    <3>3. QED
      BY <1>1, <3>2 DEF TypesOK, Stats
  <2>4. Holes = { k \in 0 .. MaxSent : k \notin Received /\ (\E r \in Received : k < r) /\ k > first }
    BY DEF Holes
  <2>5. Holes' = { k \in 0 .. MaxSent : /\ k \notin Received \cup {s}
                                        /\ (\E r \in Received \cup {s} : k < r) /\ k > first }
    BY <1>4, <2>1 DEF Holes
  <2>6. IsFiniteSet(gap) /\ Cardinality(gap) = lost
    <3>1. l + 1 \in Int /\ s - 1 \in Int
      BY <2>1
    <3>2. IsFiniteSet(gap) /\ Cardinality(gap) = IF l + 1 > s - 1 THEN 0 ELSE (s - 1) - (l + 1) + 1
      <4> HIDE DEF l, s
      <4> QED BY <3>1, FS_Interval
    <3>3. QED
      <4> HIDE DEF gap, l, s
      <4> QED BY <2>1, <3>2 DEF lost
  <2> HIDE DEF l, s, first, lost, gap
  <2>7. Holes' \in SUBSET (Holes \cup gap)
    <3>1. ASSUME NEW k \in Holes', k \notin Holes PROVE k \in gap
      <4>1. /\ k \in 0 .. MaxSent /\ k \notin Received /\ k # s /\ k > first
            /\ \E r \in Received \cup {s} : k < r
        BY <2>5, <3>1
      <4>2. ~ (\E r \in Received : k < r)
        BY <2>4, <3>1, <4>1
      <4>3. k < s /\ ~ (k < l) /\ k # l
        BY <2>1, <4>1, <4>2
      <4>4. QED
        BY <2>1, <4>1, <4>3, BoundsAssumption DEF gap
    <3>2. QED
      BY <3>1
  <2>8. /\ IsFiniteSet(Holes \cup gap)
        /\ Cardinality(Holes \cup gap) =
             Cardinality(Holes) + Cardinality(gap) - Cardinality(Holes \cap gap)
        /\ Cardinality(Holes \cap gap) \in Nat
    <3>1. IsFiniteSet(Holes \cap gap)
      BY <1>6, FS_Intersection
    <3>2. Cardinality(Holes \cap gap) \in Nat
      BY <3>1, FS_CardinalityType
    <3>3. QED
      BY <1>6, <2>6, <3>2, FS_Union
  <2>9. Cardinality(Holes') <= Cardinality(Holes \cup gap)
    BY <2>7, <2>8, FS_Subset
  <2>10. lost \in Nat
    BY <2>1 DEF lost
  <2>11. stats'.sample_lost >= Cardinality(Holes')
    <3>1. stats.sample_lost >= Cardinality(Holes)
      BY <1>8 DEF LossOK, LossCoversHoles
    <3>2. QED
      BY <1>6, <2>3, <2>6, <2>8, <2>9, <2>10, <3>1
  <2>12. ASSUME InOrder' PROVE stats'.sample_lost = Cardinality(Holes')
    <3>1. \A i, j \in DOMAIN arrived' : i < j => arrived'[i].seq <= arrived'[j].seq
      BY <2>12 DEF InOrder
    <3>2. InOrder
      <4>1. \A i \in DOMAIN arrived : i \in DOMAIN arrived' /\ arrived'[i] = arrived[i]
        BY <1>1, <1>2
      <4>2. QED
        BY <3>1, <4>1 DEF InOrder
    <3>3. \A r \in Received : r <= l
      <4>1. \A i \in DOMAIN arrived : arrived[i].seq <= arrived[Len(arrived)].seq
        BY <1>2, <2>1, <3>2 DEF InOrder
      <4>2. QED
        BY <4>1 DEF Received, l, LastArrival
    <3>4. l <= s
      <4>1. Len(arrived) \in DOMAIN arrived' /\ Len(arrived) + 1 \in DOMAIN arrived'
            /\ Len(arrived) < Len(arrived) + 1
        BY <1>1, <1>2, <2>1
      <4>2. QED
        BY <1>1, <1>3, <2>1, <3>1, <4>1 DEF l, s, LastArrival
    <3>5. Holes \cap gap = {}
      <4>1. ASSUME NEW k \in Holes, k \in gap PROVE FALSE
        <5>1. PICK r \in Received : k < r
          BY <2>4
        <5>2. k \in Int /\ r \in Nat /\ r <= l /\ k >= l + 1
          BY <1>5, <2>1, <3>3, <4>1 DEF gap
        <5>3. QED
          BY <2>1, <5>1, <5>2
      <4>2. QED
        BY <4>1
    <3>6. Holes \cup gap \subseteq Holes'
      <4>1. ASSUME NEW k \in Holes PROVE k \in Holes'
        <5>1. k \in 0 .. MaxSent /\ k \notin Received /\ k > first /\ \E r \in Received : k < r
          BY <2>4
        <5>2. PICK r \in Received : k < r
          BY <5>1
        <5>3. k # s
          BY <1>5, <2>1, <3>3, <3>4, <5>1, <5>2, BoundsAssumption
        <5>4. QED
          BY <2>5, <5>1, <5>3
      <4>2. ASSUME NEW k \in gap PROVE k \in Holes'
        <5>1. k \in Int /\ k >= l + 1 /\ k <= s - 1
          BY <2>1 DEF gap
        <5>2. k \notin Received
          BY <1>5, <2>1, <3>3, <5>1
        <5>3. first <= l
          BY <2>1, <3>3
        <5>4. k \in 0 .. MaxSent /\ k # s /\ k < s /\ k > first
          BY <2>1, <2>2, <5>1, <5>3, BoundsAssumption DEF s
        <5>5. QED
          BY <2>5, <5>2, <5>4
      <4>3. QED
        BY <4>1, <4>2
    <3>7. Holes' = Holes \cup gap
      BY <2>7, <3>6
    <3>8. Cardinality(Holes \cap gap) = 0
      BY <3>5, FS_EmptySet
    <3>9. stats.sample_lost = Cardinality(Holes)
      BY <1>8, <3>2 DEF LossOK, LossCoversHoles
    <3>10. QED
      BY <1>6, <2>3, <2>6, <2>8, <2>10, <3>7, <3>8, <3>9
  <2>13. QED
    BY <1>4, <2>11, <2>12 DEF LossOK, LossCoversHoles
<1>9. QED
  BY <1>7, <1>8

-----------------------------------------------------------------------------
(* The theorems.                                                           *)

\* Whatever the talker, the network or time does, the invariant stays.
LEMMA MonitorStep == ASSUME MonitorInvariant, [Next]_vars PROVE MonitorInvariant'
<1>1. CASE Publish \/ Stop \/ Lose \/ UNCHANGED vars
  BY <1>1, TalkerKeepsMonitor
<1>2. CASE Deliver
  BY <1>2, DeliverKeepsStats, DeliverKeepsSilences, DeliverKeepsTimer, DeliverKeepsLoss
    DEF MonitorInvariant
<1>3. CASE Pass
  BY <1>3, PassKeepsMonitor
<1>4. CASE Over
  BY <1>1, <1>4 DEF Over
<1>5. QED
  BY <1>1, <1>2, <1>3, <1>4 DEF Next

\* The inductive invariant holds in every state of every behaviour.
THEOREM MonitorCorrect == Spec => []MonitorInvariant
<1>1. Init => MonitorInvariant
  BY MonitorStarts
<1>2. MonitorInvariant /\ [Next]_vars => MonitorInvariant'
  BY MonitorStep
<1>3. QED
  BY <1>1, <1>2, PTL DEF Spec

\* The counters stay within what was sent and what arrived (on_sample).
THEOREM MonitorTypeCorrect == Spec => []TypeOK
<1>1. MonitorInvariant => TypeOK
  <2> SUFFICES ASSUME MonitorInvariant PROVE TypeOK
    OBVIOUS
  <2> USE DEF MonitorInvariant
  <2>1. /\ request \in Monitored /\ clock \in Clocks
        /\ now \in 0 .. Horizon /\ sent \in 0 .. MaxSent
    BY BoundsAssumption DEF TypesOK
  <2>2. running \in BOOLEAN
    BY DEF TypesOK
  <2>3. \A m \in inFlight : m.seq \in 0 .. sent - 1 /\ m.at \in 0 .. now
    BY DEF TypesOK, HistoryOK
  <2>4. /\ IsFiniteSet(DOMAIN arrived) /\ Cardinality(DOMAIN arrived) = Len(arrived)
        /\ Len(arrived) \in Nat
    BY ValuesFinite, ArrivalTypes DEF TypesOK
  <2>5. expired \ {Len(arrived)} \in SUBSET DOMAIN arrived
    BY DEF SilencesOK
  <2>6. Cardinality(expired \ {Len(arrived)}) <= Len(arrived)
    BY <2>4, <2>5, FS_Subset
  <2>7. stats.deadline_miss \in 0 .. MaxArrivals /\ stats.sample_lost \in Nat
    BY <2>4, <2>6, BoundsAssumption DEF TypesOK, Stats, SilencesOK
  <2>8. Len(stats.latencies) <= Len(arrived)
    <3>1. CASE clock.sync = "unsynchronised"
      BY <2>4, <3>1 DEF StatsOK
    <3>2. CASE clock.sync # "unsynchronised"
      <4>1. stats.latencies = [ i \in DOMAIN arrived |-> arrived[i].rx - (arrived[i].at + clock.offset) ]
        BY <3>2 DEF StatsOK
      <4>2. DOMAIN stats.latencies = 1 .. Len(arrived)
        BY <4>1, ArrivalTypes
      <4>3. stats.latencies \in Seq(Int)
        BY DEF TypesOK, Stats
      <4>4. QED
        BY <2>4, <4>2, <4>3
    <3>3. QED
      BY <3>1, <3>2
  <2>9. expired \subseteq DOMAIN arrived /\ timer \subseteq Nat /\ reported \in Nat
    BY DEF SilencesOK, TimerOK
  <2>10. QED
    BY <2>1, <2>2, <2>3, <2>7, <2>8, <2>9 DEF TypeOK
<1>2. QED
  BY <1>1, MonitorCorrect, PTL

\* sample_lost covers every sample that did not arrive, and is exact where the
\* network keeps the order, whatever it loses, delays or duplicates.
THEOREM LossIsNotUnderstated == Spec => []LossCoversHoles
<1>1. MonitorInvariant => LossCoversHoles
  BY DEF MonitorInvariant, LossOK
<1>2. QED
  BY <1>1, MonitorCorrect, PTL

\* deadline_miss is the number of silences the middleware's timer saw that a
\* later sample has ended; its listener reported each, and more only where one
\* was longer than two deadlines.
THEOREM MissesAreSilences == Spec => []MissesAreEndedSilences
<1>1. MonitorInvariant => MissesAreEndedSilences
  BY DEF MonitorInvariant, SilencesOK, TimerOK, MissesAreEndedSilences
<1>2. QED
  BY <1>1, MonitorCorrect, PTL

\* A punctual talker is never reported late, whatever period and deadline.
THEOREM PunctualTalkersAreOnTime == Spec => []PunctualTalkerIsOnTime
<1>1. MonitorInvariant => PunctualTalkerIsOnTime
  <2> SUFFICES ASSUME MonitorInvariant,
                      NEW d \in stats.deadline, arrived # << >>, Holes = {},
                      \A x, y \in Delays : x - y <= d - request.period,
                      stats.deadline_miss # 0
               PROVE  FALSE
    BY DEF PunctualTalkerIsOnTime
  <2> USE DEF MonitorInvariant
  <2> DEFINE p == request.period
  <2>1. p \in Nat /\ d \in Nat /\ stats.deadline = {d}
    <3>1. \A e \in Deadline(request) : e = d
      BY DEF TypesOK, Deadline
    <3>2. QED
      BY <3>1, MonitoredAssumption DEF TypesOK, Stats
  <2>2. stats.deadline_miss > 0
    BY DEF TypesOK, Stats
  <2>3. PICK i \in DOMAIN arrived : /\ i + 1 \in DOMAIN arrived
                                    /\ arrived[i + 1].rx - arrived[i].rx > d
    BY <2>1, <2>2 DEF SilencesOK
  <2>4. /\ Len(arrived) \in Nat /\ DOMAIN arrived = 1 .. Len(arrived)
        /\ \A j \in DOMAIN arrived :
             /\ arrived[j].seq \in Nat /\ arrived[j].at \in Nat /\ arrived[j].rx \in Nat
             /\ arrived[j].at = arrived[j].seq * p
             /\ arrived[j].seq < sent
             /\ arrived[j].rx - arrived[j].at \in Delays
        /\ \A j, k \in DOMAIN arrived : j <= k => arrived[j].rx <= arrived[k].rx
    BY ArrivalTypes DEF HistoryOK, DueAt, Delays
  <2> DEFINE Early == { arrived[j].seq : j \in 1 .. i }
  <2>5. PICK j \in 1 .. i : \A k \in 1 .. i : arrived[k].seq <= arrived[j].seq
    <3>1. Early \subseteq 0 .. MaxSent
      BY <2>4, BoundsAssumption DEF TypesOK
    <3>2. 0 \in Int /\ MaxSent \in Int
      BY BoundsAssumption
    <3>3. IsFiniteSet(0 .. MaxSent)
      BY <3>2, FS_Interval
    <3>4. IsFiniteSet(Early) /\ Early \subseteq Int
      <4>1. Early \subseteq Int
        BY <2>4
      <4> HIDE DEF Early
      <4> QED BY <3>1, <3>3, <4>1, FS_Subset
    <3>5. Early # {}
      <4>1. i \in 1 .. i
        BY <2>3, <2>4
      <4>2. arrived[i].seq \in Early
        BY <4>1
      <4>3. QED
        BY <4>2
    <3>6. PICK x \in Early : \A y \in Early : y <= x
      <4> HIDE DEF Early
      <4> QED BY <3>4, <3>5, GreatestInteger
    <3>7. PICK j \in 1 .. i : x = arrived[j].seq
      OBVIOUS
    <3>8. \A k \in 1 .. i : arrived[k].seq \in Early
      OBVIOUS
    <3>9. QED
      BY <3>6, <3>7, <3>8
  <2> HIDE DEF Early
  <2> DEFINE m == arrived[j].seq
  <2>6. j \in DOMAIN arrived /\ m \in Nat /\ arrived[j].at = m * p /\ arrived[j].rx <= arrived[i].rx
    BY <2>4, <2>5
  \* A sample at most one period after m arrives at most d after it.
  <2>7. ASSUME NEW k \in DOMAIN arrived, arrived[k].seq <= m + 1
        PROVE  arrived[k].rx <= arrived[i].rx + d
    <3>1. arrived[k].seq * p <= (m + 1) * p
      BY <2>1, <2>4, <2>6, <2>7, SMTT(20)
    <3>2. (m + 1) * p = m * p + p
      <4>1. p \in Nat /\ m \in Nat
        BY <2>1, <2>6
      <4> HIDE DEF p, m
      <4> QED BY <4>1
    <3>3. arrived[k].at <= arrived[j].at + p
      <4> HIDE DEF p, m
      <4> QED BY <2>4, <2>6, <3>1, <3>2
    <3>4. (arrived[k].rx - arrived[k].at) - (arrived[j].rx - arrived[j].at) <= d - p
      BY <2>4, <2>6
    <3>5. /\ arrived[k].rx \in Nat /\ arrived[k].at \in Nat /\ arrived[j].rx \in Nat
          /\ arrived[j].at \in Nat /\ arrived[i].rx \in Nat /\ p \in Nat /\ d \in Nat
          /\ arrived[j].rx <= arrived[i].rx
      BY <2>1, <2>3, <2>4, <2>6
    <3>6. \A rk, ak, rj, aj, ri, e \in Nat :
            (ak <= aj + p /\ (rk - ak) - (rj - aj) <= e - p /\ rj <= ri) => rk <= ri + e
      <4> HIDE DEF p
      <4> QED BY <3>5
    <3>7. QED
      <4> DEFINE rk == arrived[k].rx
                 ak == arrived[k].at
                 rj == arrived[j].rx
                 aj == arrived[j].at
                 ri == arrived[i].rx
      <4>1. /\ rk \in Nat /\ ak \in Nat /\ rj \in Nat /\ aj \in Nat /\ ri \in Nat /\ d \in Nat
            /\ ak <= aj + p /\ (rk - ak) - (rj - aj) <= d - p /\ rj <= ri
        BY <3>3, <3>4, <3>5
      <4> HIDE DEF rk, ak, rj, aj, ri, p
      <4>2. rk <= ri + d
        BY <3>6, <4>1
      <4> QED BY <4>2 DEF rk, ri
  <2>8. CASE arrived[i + 1].seq <= m + 1
    <3>1. arrived[i + 1].rx <= arrived[i].rx + d
      BY <2>3, <2>7, <2>8
    <3>2. QED
      BY <2>1, <2>3, <2>4, <3>1
  <2>9. CASE ~ (arrived[i + 1].seq <= m + 1)
    <3>1. m + 1 < arrived[i + 1].seq /\ arrived[i + 1].seq \in Received
      BY <2>3, <2>4, <2>6, <2>9 DEF Received
    <3>2. m + 1 \in 0 .. MaxSent
      BY <2>3, <2>4, <2>6, <3>1, BoundsAssumption DEF TypesOK
    <3>3. m + 1 > arrived[1].seq
      BY <2>4, <2>5, <2>6, SMTT(20)
    <3>4. m + 1 \in Received
      BY <3>1, <3>2, <3>3 DEF Holes
    <3>5. PICK k \in DOMAIN arrived : arrived[k].seq = m + 1
      BY <3>4 DEF Received
    <3>6. ~ (k \in 1 .. i)
      BY <2>5, <2>6, <3>5
    <3>7. arrived[i + 1].rx <= arrived[k].rx
      BY <2>3, <2>4, <3>6
    <3>8. arrived[k].rx <= arrived[i].rx + d
      BY <2>6, <2>7, <3>5
    <3>9. QED
      BY <2>1, <2>3, <2>4, <3>7, <3>8
  <2>10. QED
    BY <2>8, <2>9
<1>2. QED
  BY <1>1, MonitorCorrect, PTL

\* A verdict is about what happened, up to the clocks' residual offset.
THEOREM VerdictsAreEarned == Spec => []VerdictIsEarned
<1>1. MonitorInvariant => VerdictIsEarned
  <2> SUFFICES ASSUME MonitorInvariant, Verdict(stats) # "none" PROVE VerdictIsEarned
    BY DEF VerdictIsEarned, Verdict
  <2> USE DEF MonitorInvariant
  <2> DEFINE slack == IF clock.sync = "same_host" THEN 0 ELSE Residual
             ls == stats.latencies
             med == Median(stats.latencies)
             Delay(i) == arrived[i].rx - arrived[i].at
  <2>1. Judgeable(stats)
    BY DEF Verdict
  <2>2. ls # << >>
    BY <2>1 DEF Judgeable
  <2>3. clock.sync # "unsynchronised"
    BY <2>2 DEF StatsOK
  <2>4. ls = [ i \in DOMAIN arrived |-> arrived[i].rx - (arrived[i].at + clock.offset) ]
    BY <2>3 DEF StatsOK
  <2>5. /\ Len(arrived) \in Nat /\ DOMAIN arrived = 1 .. Len(arrived)
        /\ \A i \in DOMAIN arrived : arrived[i].at \in Nat /\ arrived[i].rx \in Nat
    BY ArrivalTypes DEF TypesOK
  <2>6. ls \in Seq(Int) /\ DOMAIN ls = DOMAIN arrived /\ Len(ls) = Len(arrived)
    <3>1. ls \in Seq(Int)
      BY DEF TypesOK, Stats
    <3>2. DOMAIN ls = DOMAIN arrived
      BY <2>4
    <3>3. QED
      <4> HIDE DEF ls
      <4> QED BY <2>5, <3>1, <3>2
  <2>7. /\ clock.offset \in Int /\ slack \in Nat
        /\ -slack <= clock.offset /\ clock.offset <= slack
    BY <2>3, ClocksAssumption, BoundsAssumption DEF TypesOK
  <2>8. \A i \in DOMAIN arrived : Delay(i) \in Delays /\ Delay(i) \in Int
    BY <2>5 DEF Delays
  <2>9. \A i \in DOMAIN arrived : ls[i] = Delay(i) - clock.offset
    BY <2>4, <2>5, <2>7
  <2>10. \A x \in Delays : \E i \in DOMAIN arrived : x = Delay(i)
    BY DEF Delays
  <2>11. PICK h \in DOMAIN arrived : med = ls[h]
    BY <2>2, <2>6, MedianIsAValue DEF ToSet
  <2>12. \A b \in stats.latency_budget \cup stats.jitter_budget : b \in Nat
    BY DEF TypesOK, Stats
  <2>13. ToSet(ls) = { ls[i] : i \in DOMAIN arrived }
    BY <2>6 DEF ToSet
  <2> HIDE DEF slack, ls, med, Delay
  <2>14. stats.jitter_budget # {} => Len(arrived) >= 2
    BY <2>1, <2>6 DEF Judgeable, ls
  <2>15. ASSUME Verdict(stats) = "passed", NEW b \in stats.latency_budget, NEW x \in Delays
         PROVE  x <= b + slack
    <3>1. \A l \in ToSet(ls) : l <= b
      BY <2>15 DEF Verdict, LatencyWithin, ls
    <3>2. PICK i \in DOMAIN arrived : x = Delay(i)
      BY <2>10
    <3>3. ls[i] <= b
      BY <2>13, <3>1
    <3>4. QED
      BY <2>7, <2>8, <2>9, <2>12, <3>2, <3>3
  <2>16. ASSUME Verdict(stats) = "passed", NEW b \in stats.jitter_budget,
                NEW x \in Delays, NEW y \in Delays
         PROVE  x - y <= 2 * b
    <3>1. \A l \in ToSet(ls) : Distance(l, med) <= b
      BY <2>16 DEF Verdict, JitterWithin, ls, med
    <3>2. PICK i \in DOMAIN arrived : x = Delay(i)
      BY <2>10
    <3>3. PICK j \in DOMAIN arrived : y = Delay(j)
      BY <2>10
    <3>4. Distance(ls[i], med) <= b /\ Distance(ls[j], med) <= b
      BY <2>13, <3>1
    <3>5. ls[i] - med <= b /\ med - ls[j] <= b
      BY <2>7, <2>8, <2>9, <2>11, <2>12, <3>4 DEF Distance, Greatest, Least
    <3>6. QED
      BY <2>7, <2>8, <2>9, <2>11, <2>12, <3>2, <3>3, <3>5
  <2>17. ASSUME Verdict(stats) = "failed"
         PROVE  \/ \E b \in stats.latency_budget, x \in Delays : x > b - slack
                \/ \E b \in stats.jitter_budget, x, y \in Delays : x - y > b
    <3>1. ~ LatencyWithin(stats) \/ ~ JitterWithin(stats)
      BY <2>17 DEF Verdict
    <3>2. CASE ~ LatencyWithin(stats)
      <4>1. PICK b \in stats.latency_budget, l \in ToSet(ls) : ~ (l <= b)
        BY <3>2 DEF LatencyWithin, ls
      <4>2. PICK i \in DOMAIN arrived : l = ls[i]
        BY <2>13
      <4>3. Delay(i) > b - slack
        BY <2>7, <2>8, <2>9, <2>12, <4>1, <4>2
      <4>4. QED
        BY <2>8, <4>3
    <3>3. CASE ~ JitterWithin(stats)
      <4>1. PICK b \in stats.jitter_budget, l \in ToSet(ls) : ~ (Distance(l, med) <= b)
        BY <3>3 DEF JitterWithin, ls, med
      <4>2. PICK i \in DOMAIN arrived : l = ls[i]
        BY <2>13
      <4>3. Delay(i) - Delay(h) > b \/ Delay(h) - Delay(i) > b
        BY <2>7, <2>8, <2>9, <2>11, <2>12, <4>1, <4>2 DEF Distance, Greatest, Least
      <4>4. QED
        BY <2>8, <4>3
    <3>4. QED
      BY <3>1, <3>2, <3>3
  <2>18. QED
    <3> DEFINE spread == { x - y : x, y \in Delays }
    <3>1. Verdict(stats) = "passed" =>
            /\ \A b \in stats.latency_budget, x \in Delays : x <= b + slack
            /\ \A b \in stats.jitter_budget, v \in spread : v <= 2 * b
      BY <2>15, <2>16
    <3>2. Verdict(stats) = "failed" =>
            \/ \E b \in stats.latency_budget, x \in Delays : x > b - slack
            \/ \E b \in stats.jitter_budget, v \in spread : v > b
      BY <2>17
    <3> HIDE DEF spread
    <3>3. QED
      BY <2>3, <2>14, <3>1, <3>2 DEF VerdictIsEarned, slack, spread
<1>2. QED
  BY <1>1, MonitorCorrect, PTL
=============================================================================
