-------------------------- MODULE FrerRecoveryProofs --------------------------
(***************************************************************************)
(* Theorems about FrerRecovery, for any redundant streams, differences in  *)
(* delay, numbers of frames and restarts that satisfy its assumptions.     *)
(***************************************************************************)
EXTENDS FrerRecovery, DataTheorems

-----------------------------------------------------------------------------
(* The inductive invariant.                                                *)

timeout == Window.reset_timeout
history == Window.history_length

\* A frame has been through a path, or is still to come on it.
Through(f) == \E p \in Paths : f < next[p]
ToCome(f)  == \E p \in Paths : next[p] <= f

TypesOK ==
  /\ request \in Redundant /\ skew \in Skews /\ restart \in Restarts
  /\ next \in [Paths -> Nat] /\ \A p \in Paths : next[p] \in 1 .. MaxFrames + 1
  /\ now \in Nat
  /\ rec \in [any : BOOLEAN, top : Nat, seen : SUBSET Nat, at : Nat]
  /\ rec.top <= MaxFrames /\ rec.at <= now
  /\ \A s \in rec.seen : s <= rec.top /\ rec.top - s < history
  /\ passed \in [Frames -> Nat]
  /\ dropped \subseteq Frames /\ outage \in BOOLEAN

\* Arrivals come in the order of their times, and now is the latest one's.
TimeOK ==
  /\ \A p \in Paths : next[p] \in Frames => now <= ArrivesAt(p)
  /\ now > 0 => \E f \in Frames : Through(f) /\ now <= SentAt(f) + skew

\* While the other copy of a frame that was passed on is still to come, the
\* recovery function has neither forgotten the frame nor been silent for longer
\* than the paths differ: it was passed on after it was sent.
CopiesOK ==
  \A f \in Frames : passed[f] > 0 =>
    /\ passed[f] = 1
    /\ ToCome(f) =>
         /\ ~rec.any /\ SentAt(f) <= rec.at
         /\ SequenceNumber(f) <= rec.top
         /\ SequenceNumber(f) \in rec.seen \/ rec.top - SequenceNumber(f) >= history

\* A frame that was dropped has been through one path only, and never passed
\* on; one that was passed on has been through a path.
DroppedOK ==
  /\ \A f \in dropped : Through(f) /\ ToCome(f) /\ passed[f] = 0
  /\ \A f \in Frames : passed[f] > 0 => Through(f)

\* Without a restart, the top of the window is the latest frame passed on, and
\* every frame that came through was passed on.
WindowOK ==
  /\ rec.any => \A f \in Frames : passed[f] = 0
  /\ ~rec.any =>
       /\ rec.top \in Frames /\ passed[rec.top] = 1 /\ SentAt(rec.top) <= rec.at
       /\ \A f \in Frames : passed[f] > 0 => f <= rec.top
       /\ \A s \in rec.seen : s \in Frames /\ passed[s] > 0
  /\ \A f \in Frames \ dropped : Through(f) => passed[f] = 1

\* A frame that came through on one path was passed on, or refused by a recovery
\* function whose timer had not run out.
HealingOK ==
  \A f \in Frames \ dropped : Through(f) => SentAt(f) - rec.at < timeout

RecoveryInvariant ==
  /\ TypesOK /\ TimeOK /\ DroppedOK
  /\ skew < timeout => CopiesOK
  /\ ~outage => HealingOK
  /\ ~outage /\ restart = MaxFrames /\ Overlap < history => WindowOK

-----------------------------------------------------------------------------
(* The configuration.                                                      *)

\* What the configuration of a redundant stream is made from.
LEMMA StreamValues ==
  ASSUME NEW r \in Redundant
  PROVE  /\ r.period \in Nat /\ r.period > 0
         /\ FramesFor(r.payload_bytes) \in Nat /\ FramesFor(r.payload_bytes) > 0
         /\ Burst(r) \in Nat /\ Burst(r) >= 2 /\ Burst(r) * r.period >= 2000
         /\ r.period < 1000 => Burst(r) * r.period < 2000 + r.period
         /\ r.period >= 1000 => Burst(r) = 2
<1> DEFINE p == r.period
           c == (2000 + p - 1) \div p
<1>1. p \in Nat /\ p > 0 /\ r.payload_bytes \in Nat
  BY RedundantAssumption DEF Resolvable
<1>2. FramesFor(r.payload_bytes) \in Nat /\ FramesFor(r.payload_bytes) > 0
  BY <1>1 DEF FramesFor, Greatest, CeilDiv, USABLE, MAX_PAYLOAD, L3_OVERHEAD
<1> HIDE DEF p
<1>3. 2000 + p - 1 \in Nat
  BY <1>1
<1>4. c \in Nat /\ c * p <= 2000 + p - 1 /\ 2000 + p - 1 < (c + 1) * p
  BY <1>1, <1>3, Quotient
<1> HIDE DEF c
<1>5. (c + 1) * p = c * p + p /\ c * p \in Nat
  BY <1>1, <1>4
<1>6. c * p >= 2000 /\ c * p < 2000 + p
  BY <1>1, <1>4, <1>5
<1>7. Burst(r) = IF 2 >= c THEN 2 ELSE c
  BY DEF Burst, Greatest, CeilDiv, c, p
<1>8. Burst(r) \in Nat /\ Burst(r) >= 2
  BY <1>4, <1>7
<1>9. Burst(r) * p >= 2000
  <2>1. CASE 2 >= c
    <3>1. 2 * p >= c * p
      BY <1>1, <1>4, <2>1, Factor
    <3>2. QED
      BY <1>1, <1>5, <1>6, <1>7, <2>1, <3>1
  <2>2. CASE ~ (2 >= c)
    BY <1>6, <1>7, <2>2
  <2>3. QED
    BY <2>1, <2>2
<1>10. p < 1000 => Burst(r) * p < 2000 + p
  BY <1>1, <1>6, <1>7
<1>11. p >= 1000 => Burst(r) = 2
  <2>1. SUFFICES ASSUME p >= 1000, c >= 3 PROVE FALSE
    BY <1>4, <1>7
  <2>2. c * p >= 3 * p
    BY <1>1, <1>4, <2>1, Factor
  <2>3. QED
    BY <1>1, <1>5, <1>6, <2>1, <2>2
<1>12. QED
  BY <1>1, <1>2, <1>8, <1>9, <1>10, <1>11 DEF p

\* frer_config's window, in whole milliseconds.
LEMMA WindowValues ==
  ASSUME request \in Redundant
  PROVE  /\ history = 2 * Burst(request) /\ history \in Nat /\ history >= 4
         /\ timeout \in Nat /\ timeout >= 10000
         /\ timeout > 4 * request.period - 1000
         /\ timeout <= Greatest(10000, 4 * request.period)
<1> DEFINE g == Greatest(10000, 4 * request.period)
<1>1. /\ request.period \in Nat /\ request.period > 0
      /\ Burst(request) \in Nat /\ Burst(request) >= 2
  BY StreamValues
<1>2. history = Greatest(4, 2 * Burst(request)) /\ timeout = 1000 * (g \div 1000)
  BY DEF history, timeout, Window, RecoveryWindow
<1>3. g \in Nat /\ g >= 10000 /\ g >= 4 * request.period
  BY <1>1 DEF Greatest
<1> HIDE DEF g
<1>4. timeout \in Nat /\ timeout <= g /\ timeout > g - 1000 /\ timeout >= 10000
  BY <1>2, <1>3
<1>5. QED
  BY <1>1, <1>2, <1>3, <1>4 DEF Greatest, g

\* Frames are sent in the order of their numbers.
LEMMA SentInOrder ==
  ASSUME request \in Redundant
  PROVE  /\ \A f \in Frames : SentAt(f) \in Nat
         /\ \A f, g \in Frames : f <= g => SentAt(f) <= SentAt(g)
<1> DEFINE n == FramesFor(request.payload_bytes)
           p == request.period
           Sample(f) == (f - 1) \div n
<1>1. p \in Nat /\ p > 0 /\ n \in Nat /\ n > 0
  BY StreamValues
<1>2. \A f \in Frames : f \in Nat /\ f - 1 \in Nat
  BY PathsAssumption DEF Frames
<1>3. \A f : SentAt(f) = Sample(f) * p
  BY DEF SentAt
<1> HIDE DEF n, p
<1>4. ASSUME NEW f \in Frames
      PROVE  Sample(f) \in Nat /\ Sample(f) * n <= f - 1 /\ f - 1 < (Sample(f) + 1) * n
  BY <1>1, <1>2, Quotient
<1> HIDE DEF Sample
<1>5. ASSUME NEW f \in Frames, NEW g \in Frames, f <= g PROVE Sample(f) <= Sample(g)
  <2>1. Sample(f) * n < (Sample(g) + 1) * n
    <3>1. Sample(f) * n \in Int /\ (Sample(g) + 1) * n \in Int
      BY <1>1, <1>4
    <3>2. QED
      BY <1>2, <1>4, <1>5, <3>1
  <2>2. Sample(f) < Sample(g) + 1
    <3>1. Sample(f) \in Int /\ Sample(g) + 1 \in Int
      BY <1>4
    <3>2. QED
      BY <1>1, <2>1, <3>1, Factor
  <2>3. QED
    BY <1>4, <2>2
<1>6. ASSUME NEW f \in Frames, NEW g \in Frames, f <= g PROVE SentAt(f) <= SentAt(g)
  <2>1. Sample(f) \in Int /\ Sample(g) \in Int /\ Sample(f) <= Sample(g)
    BY <1>4, <1>5, <1>6
  <2>2. Sample(f) * p <= Sample(g) * p
    BY <1>1, <2>1, Factor
  <2>3. QED
    BY <1>3, <2>2
<1>7. \A f \in Frames : SentAt(f) \in Nat
  BY <1>1, <1>3, <1>4
<1>8. QED
  BY <1>6, <1>7

\* A frame sent no more than skew after another has a number less than Overlap
\* above it.
LEMMA OverlapBounds ==
  ASSUME request \in Redundant, skew \in Nat, NEW f \in Frames, NEW g \in Frames,
         SentAt(g) <= SentAt(f) + skew
  PROVE  Overlap \in Nat /\ g - f < Overlap
<1> DEFINE n == FramesFor(request.payload_bytes)
           p == request.period
           a == (f - 1) \div n
           b == (g - 1) \div n
           k == skew \div p
<1>1. p \in Nat /\ p > 0 /\ n \in Nat /\ n > 0
  BY StreamValues
<1>2. f \in Nat /\ f - 1 \in Nat /\ g \in Nat /\ g - 1 \in Nat
  BY PathsAssumption DEF Frames
<1>3. b * p <= a * p + skew
  BY DEF SentAt
<1>4. Overlap = n * (k + 1)
  BY DEF Overlap
<1> HIDE DEF n, p
<1>5. /\ a \in Nat /\ a * n <= f - 1 /\ f - 1 < (a + 1) * n
      /\ b \in Nat /\ b * n <= g - 1 /\ g - 1 < (b + 1) * n
      /\ k \in Nat /\ k * p <= skew /\ skew < (k + 1) * p
  BY <1>1, <1>2, Quotient
<1> HIDE DEF a, b, k
<1>6. b < a + k + 1
  <2>1. a * p + (k + 1) * p = (a + k + 1) * p
    BY <1>1, <1>5
  <2>2. b * p < (a + k + 1) * p
    <3>1. b * p \in Int /\ a * p \in Int /\ (k + 1) * p \in Int
      BY <1>1, <1>5
    <3>2. QED
      BY <1>3, <1>5, <2>1, <3>1
  <2>3. b \in Int /\ a + k + 1 \in Int
    BY <1>5
  <2>4. QED
    BY <1>1, <2>2, <2>3, Factor
<1>7. (b + 1) * n <= (a + k + 1) * n
  <2>1. b + 1 \in Int /\ a + k + 1 \in Int /\ b + 1 <= a + k + 1
    BY <1>5, <1>6
  <2>2. QED
    BY <1>1, <2>1, Factor
<1>8. (a + k + 1) * n = a * n + n * (k + 1)
  BY <1>1, <1>5
<1>9. n * (k + 1) \in Nat /\ a * n \in Nat /\ (b + 1) * n \in Nat
  BY <1>1, <1>5
<1>10. QED
  BY <1>2, <1>4, <1>5, <1>7, <1>8, <1>9

\* A history longer than what is on the way is forgotten only after more than
\* the difference in delay.
LEMMA LongHistorySlowTimer ==
  ASSUME request \in Redundant, skew \in Nat, Overlap < history
  PROVE  skew < timeout
<1> DEFINE n == FramesFor(request.payload_bytes)
           p == request.period
           h == Burst(request)
           k == skew \div p
<1>1. /\ p \in Nat /\ p > 0 /\ n \in Nat /\ n > 0
      /\ h \in Nat /\ h >= 2
      /\ p < 1000 => h * p < 2000 + p
      /\ p >= 1000 => h = 2
  BY StreamValues
<1>2. history = 2 * h /\ timeout \in Nat /\ timeout >= 10000 /\ timeout > 4 * p - 1000
  BY WindowValues
<1>3. Overlap = n * (k + 1)
  BY DEF Overlap
<1> HIDE DEF n, p, h
<1>4. k \in Nat /\ skew < (k + 1) * p
  BY <1>1, Quotient
<1> HIDE DEF k
<1>5. k + 1 <= n * (k + 1)
  <2>1. 1 * (k + 1) <= n * (k + 1)
    BY <1>1, <1>4, Factor
  <2>2. QED
    BY <1>4, <2>1
<1>6. k + 1 <= 2 * h - 1
  <2>1. n * (k + 1) \in Nat
    BY <1>1, <1>4
  <2>2. QED
    BY <1>1, <1>2, <1>3, <1>4, <1>5, <2>1
<1>7. skew < (2 * h - 1) * p
  <2>1. (k + 1) * p <= (2 * h - 1) * p
    BY <1>1, <1>4, <1>6, Factor
  <2>2. (k + 1) * p \in Nat /\ (2 * h - 1) * p \in Int
    BY <1>1, <1>4
  <2>3. QED
    BY <1>4, <2>1, <2>2
<1>8. (2 * h - 1) * p = 2 * (h * p) - p /\ h * p \in Nat
  BY <1>1
<1>9. CASE p < 1000
  <2>1. 2 * (h * p) - p < 2 * (2000 + p) - p
    BY <1>1, <1>8, <1>9
  <2>2. QED
    BY <1>1, <1>2, <1>7, <1>8, <1>9, <2>1
<1>10. CASE p >= 1000
  <2>1. h * p = 2 * p
    BY <1>1, <1>10
  <2>2. skew < 3 * p
    BY <1>1, <1>7, <1>8, <2>1
  <2>3. QED
    BY <1>1, <1>2, <1>10, <2>2
<1>11. QED
  BY <1>1, <1>9, <1>10

\* The window is long enough for samples of one frame and 2 ms of difference.
LEMMA WindowIsMadeFor2ms ==
  ASSUME request \in Redundant, skew \in Nat,
         FramesFor(request.payload_bytes) = 1, skew <= 2000
  PROVE  Overlap < history
<1> DEFINE p == request.period
           h == Burst(request)
           k == skew \div p
<1>1. p \in Nat /\ p > 0 /\ h \in Nat /\ h >= 2 /\ h * p >= 2000
  BY StreamValues
<1>2. history = 2 * h
  BY WindowValues
<1>3. Overlap = 1 * (k + 1)
  BY DEF Overlap
<1> HIDE DEF p, h
<1>4. k \in Nat /\ k * p <= skew
  BY <1>1, Quotient
<1> HIDE DEF k
<1>5. k <= h
  <2>1. SUFFICES ASSUME k >= h + 1 PROVE FALSE
    BY <1>1, <1>4
  <2>2. (h + 1) * p <= k * p
    BY <1>1, <1>4, <2>1, Factor
  <2>3. (h + 1) * p = h * p + p /\ h * p \in Nat /\ k * p \in Nat
    BY <1>1, <1>4
  <2>4. QED
    BY <1>1, <1>4, <2>2, <2>3
<1>6. QED
  BY <1>1, <1>2, <1>3, <1>4, <1>5

-----------------------------------------------------------------------------
(* Arrivals.                                                               *)

\* What happens at every arrival, whether the frame is lost or delivered.
Arrival(path) ==
  /\ Earliest(path)
  /\ next' = [next EXCEPT ![path] = @ + 1]
  /\ now' = ArrivesAt(path)
  /\ UNCHANGED <<request, skew, restart>>

\* While stream, paths and talker are the same, so is what follows from them.
LEMMA Configured ==
  ASSUME UNCHANGED <<request, skew, restart>>
  PROVE  /\ history' = history /\ timeout' = timeout /\ Overlap' = Overlap
         /\ \A f : SentAt(f)' = SentAt(f) /\ SequenceNumber(f)' = SequenceNumber(f)
BY DEF history, timeout, Window, RecoveryWindow, Burst, Overlap, SentAt, SequenceNumber

\* The values the arithmetic below is about, and their bounds.
LEMMA Streams ==
  ASSUME TypesOK
  PROVE  /\ request \in Redundant /\ skew \in Nat
         /\ \A f \in Frames : f \in Nat /\ f >= 1 /\ f <= MaxFrames /\ SentAt(f) \in Nat
                              /\ SequenceNumber(f) \in 1 .. MaxFrames
         /\ \A f, g \in Frames : f <= g => SentAt(f) <= SentAt(g)
         /\ \A p \in Paths : next[p] \in Nat /\ next[p] >= 1 /\ next[p] <= MaxFrames + 1
         /\ history \in Nat /\ history >= 4 /\ timeout \in Nat /\ timeout >= 10000
<1>1. request \in Redundant /\ skew \in Nat /\ restart \in 0 .. MaxFrames /\ MaxFrames \in Nat
  BY PathsAssumption DEF TypesOK
<1>2. \A f \in Frames : f \in Nat /\ f >= 1 /\ f <= MaxFrames /\ SequenceNumber(f) \in 1 .. MaxFrames
  BY <1>1 DEF Frames, SequenceNumber
<1>3. \A p \in Paths : next[p] \in Nat /\ next[p] >= 1 /\ next[p] <= MaxFrames + 1
  BY <1>1 DEF TypesOK
<1>4. /\ \A f \in Frames : SentAt(f) \in Nat
      /\ \A f, g \in Frames : f <= g => SentAt(f) <= SentAt(g)
  BY <1>1, SentInOrder
<1>5. history \in Nat /\ history >= 4 /\ timeout \in Nat /\ timeout >= 10000
  BY <1>1, WindowValues
<1>6. QED
  BY <1>1, <1>2, <1>3, <1>4, <1>5

\* The arriving frame came as late as the paths' difference allows, everything
\* that is still to come comes no earlier.
LEMMA ArrivalFacts ==
  ASSUME TypesOK, TimeOK, NEW path \in Paths, Arrival(path)
  PROVE  /\ next[path] \in Frames
         /\ now' \in Nat /\ now <= now'
         /\ SentAt(next[path]) <= now' /\ now' <= SentAt(next[path]) + skew
         /\ \A g \in Frames : ToCome(g) => now' <= SentAt(g) + skew
         /\ \A g \in Frames : (Through(g))' <=> Through(g) \/ g = next[path]
         /\ \A g \in Frames : (ToCome(g))' => ToCome(g)
         /\ \A g \in Frames : ToCome(g) /\ g # next[path] => (ToCome(g))'
         /\ \A g \in Frames : (\A p \in Paths : next[p] <= g) => (ToCome(g))'
         /\ ToCome(next[path])
         /\ next' \in [Paths -> Nat] /\ \A p \in Paths : next'[p] \in 1 .. MaxFrames + 1
         /\ TimeOK'
<1> DEFINE Late(p) == IF p = "slow" THEN skew ELSE 0
<1>1. PICK f \in Frames : f = next[path] /\ now' = SentAt(f) + Late(path)
  BY DEF Arrival, Earliest, ArrivesAt
<1>2. /\ skew \in Nat /\ \A p \in Paths : Late(p) \in Nat /\ Late(p) <= skew
      /\ \A g \in Frames : g \in Nat /\ g >= 1 /\ g <= MaxFrames /\ SentAt(g) \in Nat
      /\ \A g, h \in Frames : g <= h => SentAt(g) <= SentAt(h)
      /\ \A p \in Paths : next[p] \in Nat /\ next[p] >= 1 /\ next[p] <= MaxFrames + 1
  BY Streams
<1>3. \A p \in Paths : next[p] \in Frames => ArrivesAt(p) = SentAt(next[p]) + Late(p)
  BY DEF ArrivesAt
<1>4. \A p \in Paths : next[p] \in Frames => now' <= SentAt(next[p]) + Late(p)
  BY <1>1, <1>3 DEF Arrival, Earliest
<1>5. now <= now'
  BY <1>1, <1>3 DEF TimeOK
<1>6. \A g, h : h \in Nat /\ g \in Frames /\ h >= 1 /\ h <= g => h \in Frames
  BY PathsAssumption DEF Frames
<1>7. /\ next' = [next EXCEPT ![path] = f + 1]
      /\ next' \in [Paths -> Nat]
      /\ next'[path] = f + 1 /\ \A p \in Paths : p # path => next'[p] = next[p]
  <2>1. next' = [next EXCEPT ![path] = next[path] + 1] /\ next \in [Paths -> Nat]
    BY DEF Arrival, TypesOK
  <2>2. next' = [next EXCEPT ![path] = f + 1] /\ f + 1 \in Nat
    BY <1>1, <1>2, <2>1
  <2>3. QED
    BY <2>1, <2>2
<1> HIDE DEF Late
<1>8. now' \in Nat /\ SentAt(f) <= now' /\ now' <= SentAt(f) + skew
  BY <1>1, <1>2
<1>9. ASSUME NEW g \in Frames, ToCome(g) PROVE now' <= SentAt(g) + skew
  <2>1. PICK p \in Paths : next[p] <= g
    BY <1>9 DEF ToCome
  <2>2. next[p] \in Frames /\ SentAt(next[p]) <= SentAt(g)
    BY <1>2, <1>6, <2>1
  <2>3. QED
    BY <1>2, <1>4, <1>8, <2>2
<1>10. \A p \in Paths : next'[p] \in 1 .. MaxFrames + 1
  BY <1>1, <1>2, <1>7, PathsAssumption
<1>11. ASSUME NEW g \in Frames PROVE (Through(g))' <=> Through(g) \/ g = f
  <2>1. g < f + 1 <=> g < f \/ g = f
    BY <1>1, <1>2
  <2>2. f = next[path]
    BY <1>1
  <2>3. (Through(g))' <=> \E p \in Paths : g < next'[p]
    BY DEF Through
  <2>4. QED
    BY <1>7, <2>1, <2>2, <2>3 DEF Through
<1>12. ASSUME NEW g \in Frames, (ToCome(g))' PROVE ToCome(g)
  <2>1. PICK p \in Paths : next'[p] <= g
    BY <1>12 DEF ToCome
  <2>2. next[p] <= g
    BY <1>1, <1>2, <1>7, <2>1
  <2>3. QED
    BY <2>2 DEF ToCome
<1>13. ToCome(f)
  BY <1>1, <1>2 DEF ToCome
<1>14. TimeOK'
  <2>1. \A g : SentAt(g)' = SentAt(g)
    BY Configured DEF Arrival
  <2>2. ASSUME NEW p \in Paths, next'[p] \in Frames PROVE now' <= ArrivesAt(p)'
    <3>1. ArrivesAt(p)' = SentAt(next'[p]) + Late(p)
      BY <2>1 DEF ArrivesAt, Arrival, Late, SentAt
    <3>2. CASE p = path
      <4>1. f <= next'[p] /\ next'[p] = f + 1
        BY <1>1, <1>2, <1>7, <3>2
      <4>2. SentAt(f) <= SentAt(next'[p])
        BY <1>1, <1>2, <2>2, <4>1
      <4>3. QED
        BY <1>1, <1>2, <2>2, <3>1, <3>2, <4>2
    <3>3. CASE p # path
      BY <1>4, <1>7, <2>2, <3>1, <3>3
    <3>4. QED
      BY <3>2, <3>3
  <2>3. (Through(f))' /\ now' <= SentAt(f) + skew
    BY <1>1, <1>8, <1>11
  <2>4. skew' = skew
    BY DEF Arrival
  <2>5. now' > 0 => \E g \in Frames : (Through(g))' /\ now' <= SentAt(g)' + skew'
    BY <1>1, <2>1, <2>3, <2>4
  <2>6. QED
    BY <2>2, <2>5 DEF TimeOK
<1>15. ASSUME NEW g \in Frames, ToCome(g), g # f PROVE (ToCome(g))'
  <2>1. PICK p \in Paths : next[p] <= g
    BY <1>15 DEF ToCome
  <2>2. next'[p] <= g
    BY <1>1, <1>2, <1>7, <1>15, <2>1
  <2>3. QED
    BY <2>2 DEF ToCome
<1>16. ASSUME NEW g \in Frames, \A p \in Paths : next[p] <= g PROVE (ToCome(g))'
  <2>1. PICK p \in Paths : p # path
    BY DEF Paths
  <2>2. next'[p] <= g
    BY <1>7, <1>16, <2>1
  <2>3. QED
    BY <2>2 DEF ToCome
<1>17. QED
  BY <1>1, <1>5, <1>7, <1>8, <1>9, <1>10, <1>11, <1>12, <1>13, <1>14, <1>15, <1>16

-----------------------------------------------------------------------------
(* The invariant holds at the start, and a loss keeps it.                  *)

\* Before the first frame the recovery function takes any frame and has seen none.
LEMMA RecoveryStarts == ASSUME Init PROVE RecoveryInvariant
<1>1. /\ request \in Redundant /\ skew \in Skews /\ restart \in Restarts
      /\ next = [p \in Paths |-> 1] /\ now = 0
      /\ rec = [any |-> TRUE, top |-> 0, seen |-> {}, at |-> 0]
      /\ passed = [f \in Frames |-> 0] /\ dropped = {} /\ outage = FALSE
  BY DEF Init
<1>2. /\ MaxFrames \in Nat /\ \A f \in Frames : f \in Nat /\ f >= 1
      /\ skew \in Nat
  BY <1>1, PathsAssumption DEF Frames
<1>3. TypesOK
  <2>1. next \in [Paths -> Nat] /\ \A p \in Paths : next[p] \in 1 .. MaxFrames + 1
    BY <1>1, <1>2
  <2>2. /\ rec \in [any : BOOLEAN, top : Nat, seen : SUBSET Nat, at : Nat]
        /\ rec.top = 0 /\ rec.at = 0 /\ rec.seen = {}
    BY <1>1
  <2>3. passed \in [Frames -> Nat]
    BY <1>1
  <2>4. outage \in BOOLEAN
    BY <1>1
  <2>5. QED
    BY <1>1, <1>2, <2>1, <2>2, <2>3, <2>4 DEF TypesOK
<1>4. \A f \in Frames : ~ Through(f) /\ passed[f] = 0
  BY <1>1, <1>2 DEF Through
<1>5. TimeOK
  <2>1. ASSUME NEW p \in Paths, next[p] \in Frames PROVE now <= ArrivesAt(p)
    <3>1. SentAt(next[p]) \in Nat
      BY <1>3, <2>1, Streams
    <3>2. QED
      BY <1>1, <1>2, <3>1 DEF ArrivesAt
  <2>2. QED
    BY <1>1, <2>1 DEF TimeOK
<1>6. DroppedOK /\ CopiesOK /\ HealingOK
  BY <1>1, <1>4 DEF DroppedOK, CopiesOK, HealingOK
<1>7. WindowOK
  BY <1>1, <1>4 DEF WindowOK
<1>8. QED
  BY <1>3, <1>5, <1>6, <1>7 DEF RecoveryInvariant

\* A path that loses a frame does not move the window; the frame counts as
\* dropped until the other path brings it, or loses it as well.
LEMMA LossKeepsRecovery ==
  ASSUME RecoveryInvariant, NEW path \in Paths, Lose(path)
  PROVE  RecoveryInvariant'
<1> USE DEF RecoveryInvariant
<1>1. Arrival(path) /\ UNCHANGED <<request, skew, restart, rec, passed>>
  BY DEF Lose, Arrival
<1>2. PICK f \in Frames : f = next[path]
  BY <1>1, ArrivalFacts
<1>3. \/ /\ \A p \in Paths : next[p] <= f
         /\ dropped' = dropped \cup {f} /\ outage' = outage
      \/ /\ Through(f)
         /\ dropped' = dropped \ {f} /\ outage' = (outage \/ f \in dropped)
  BY <1>2 DEF Lose, Through
<1>4. /\ now' \in Nat /\ now <= now'
      /\ SentAt(f) <= now' /\ now' <= SentAt(f) + skew
      /\ \A g \in Frames : (Through(g))' <=> Through(g) \/ g = f
      /\ \A g \in Frames : (ToCome(g))' => ToCome(g)
      /\ \A g \in Frames : ToCome(g) /\ g # f => (ToCome(g))'
      /\ \A g \in Frames : (\A p \in Paths : next[p] <= g) => (ToCome(g))'
      /\ next' \in [Paths -> Nat] /\ \A p \in Paths : next'[p] \in 1 .. MaxFrames + 1
      /\ TimeOK'
  BY <1>1, <1>2, ArrivalFacts
<1>5. /\ history' = history /\ timeout' = timeout /\ Overlap' = Overlap
      /\ \A g : SentAt(g)' = SentAt(g) /\ SequenceNumber(g)' = SequenceNumber(g)
  BY <1>1, Configured
<1>6. dropped \subseteq Frames /\ dropped' \subseteq Frames
  BY <1>3 DEF TypesOK
<1>7. outage' \in BOOLEAN /\ (~outage' => ~outage)
  <2>1. outage \in BOOLEAN
    BY DEF TypesOK
  <2>2. outage' = outage \/ outage' = (outage \/ f \in dropped)
    BY <1>3, Zenon
  <2>3. CASE outage' = outage
    BY <2>1, <2>3, Zenon
  <2>4. CASE outage' = (outage \/ f \in dropped)
    BY <2>4, Zenon
  <2>5. QED
    BY <2>2, <2>3, <2>4, Zenon
<1>8. TypesOK'
  <2>1. rec.at <= now'
    BY <1>4 DEF TypesOK
  <2>2. outage' \in BOOLEAN
    BY <1>7
  <2> HIDE DEF history
  <2>3. \A s \in rec'.seen : s <= rec'.top /\ rec'.top - s < history'
    BY <1>1, <1>5 DEF TypesOK
  <2>4. QED
    BY <1>1, <1>4, <1>6, <2>1, <2>2, <2>3 DEF TypesOK
<1>9. DroppedOK'
  <2>1. \A g \in Frames : passed'[g] > 0 => (Through(g))'
    BY <1>1, <1>4 DEF DroppedOK
  <2>2. ASSUME NEW g \in dropped' PROVE (Through(g))' /\ (ToCome(g))' /\ passed'[g] = 0
    <3>1. CASE g # f
      BY <1>1, <1>3, <1>4, <1>6, <2>2, <3>1 DEF DroppedOK
    <3>2. CASE g = f
      <4>1. \A p \in Paths : next[p] <= f
        BY <1>3, <2>2, <3>2
      <4>2. ~ Through(f)
        BY <4>1, Streams DEF Through
      <4>3. passed[f] = 0
        BY <4>2 DEF DroppedOK, TypesOK
      <4>4. QED
        BY <1>1, <1>4, <3>2, <4>1, <4>3
    <3>3. QED
      BY <3>1, <3>2
  <2>3. QED
    BY <2>1, <2>2 DEF DroppedOK
<1>10. ASSUME skew' < timeout' PROVE CopiesOK'
  <2>1. CopiesOK
    BY <1>1, <1>5, <1>10
  <2>2. QED
    BY <1>1, <1>4, <1>5, <2>1 DEF CopiesOK
\* A frame that is not dropped and came through did so before.
<1>11. ASSUME ~outage', NEW g \in Frames \ dropped', (Through(g))'
       PROVE  g \notin dropped /\ Through(g)
  BY <1>3, <1>4, <1>11
<1>12. ASSUME ~outage' PROVE HealingOK'
  <2>1. HealingOK
    BY <1>7, <1>12
  <2> HIDE DEF timeout
  <2>2. QED
    BY <1>1, <1>5, <1>11, <1>12, <2>1 DEF HealingOK
<1>13. ASSUME ~outage', restart' = MaxFrames, Overlap' < history' PROVE WindowOK'
  <2>1. WindowOK
    BY <1>1, <1>5, <1>7, <1>13
  <2>2. \A g \in Frames \ dropped' : (Through(g))' => passed'[g] = 1
    BY <1>1, <1>11, <1>13, <2>1 DEF WindowOK
  <2>3. QED
    BY <1>1, <1>5, <2>1, <2>2 DEF WindowOK
<1>14. QED
  BY <1>4, <1>8, <1>9, <1>10, <1>12, <1>13

-----------------------------------------------------------------------------
(* A delivery keeps it.                                                    *)

\* The timer has run out, or there was no frame before.
Reset(time) == rec.any \/ time - rec.at >= timeout

\* What the recovery function keeps of a frame it passes on.
KeptAfter(r, seq, t) ==
  /\ r \in [any : BOOLEAN, top : Nat, seen : SUBSET Nat, at : Nat]
  /\ ~r.any /\ r.at = t /\ r.top <= MaxFrames /\ seq <= r.top
  /\ \A s \in r.seen : s <= r.top /\ r.top - s < history
  /\ seq \in r.seen \/ r.top - seq >= history
  /\ Reset(t) => r.top = seq /\ r.seen = {seq}
  /\ ~Reset(t) =>
       /\ r.top = Greatest(rec.top, seq)
       /\ r.seen \subseteq rec.seen \cup {seq}
       /\ \A s \in rec.seen : s \in r.seen \/ r.top - s >= history

\* The window after a frame was taken: never beyond its history, and armed now.
LEMMA RecoveredFacts ==
  ASSUME TypesOK, NEW seq \in 1 .. MaxFrames, NEW t \in Nat
  PROVE  KeptAfter(Recovered(seq, t), seq, t)
<1>0. PICK r : r = Recovered(seq, t)
  OBVIOUS
<1> SUFFICES KeptAfter(r, seq, t)
  BY <1>0
<1>1. /\ seq \in Nat /\ seq <= MaxFrames /\ MaxFrames \in Nat
      /\ history \in Nat /\ history >= 4
      /\ rec.top \in Nat /\ rec.top <= MaxFrames /\ rec.seen \in SUBSET Nat
      /\ \A s \in rec.seen : s <= rec.top
  BY Streams, PathsAssumption DEF TypesOK
<1>2. CASE Reset(t)
  <2>1. r = [any |-> FALSE, top |-> seq, seen |-> {seq}, at |-> t]
    BY <1>0, <1>2 DEF Recovered, Reset, timeout
  <2> HIDE DEF history
  <2>2. QED
    BY <1>1, <1>2, <2>1 DEF KeptAfter
<1>3. CASE ~Reset(t)
  <2> DEFINE top == Greatest(rec.top, seq)
             seen == { s \in rec.seen \cup {seq} : top - s < history }
  <2>1. r = [any |-> FALSE, top |-> top, seen |-> seen, at |-> t]
    BY <1>0, <1>3 DEF Recovered, Reset, timeout, history
  <2>2. /\ top \in Nat /\ top <= MaxFrames /\ seq <= top /\ rec.top <= top
        /\ seen \in SUBSET Nat /\ seen \subseteq rec.seen \cup {seq}
    BY <1>1 DEF Greatest
  <2> HIDE DEF top, history
  <2>3. \A s \in seen : s <= top /\ top - s < history
    BY <1>1, <2>2
  <2>4. \A s \in rec.seen \cup {seq} : s \in seen \/ top - s >= history
    BY <1>1, <2>2
  <2> HIDE DEF seen
  <2>5. QED
    BY <1>3, <2>1, <2>2, <2>3, <2>4 DEF top, KeptAfter
<1>4. QED
  BY <1>2, <1>3

\* A second copy is not passed on: the timer has not run out since the first,
\* and the frame is remembered or out of the window.
LEMMA SecondCopyRefused ==
  ASSUME RecoveryInvariant, skew < timeout, NEW path \in Paths, Arrival(path),
         NEW f \in Frames, passed[f] > 0, ToCome(f)
  PROVE  /\ ~Reset(now')
         /\ f = next[path] => ~Accepts(SequenceNumber(f), now')
<1> USE DEF RecoveryInvariant
<1>1. /\ ~rec.any /\ SentAt(f) <= rec.at
      /\ SequenceNumber(f) <= rec.top
      /\ SequenceNumber(f) \in rec.seen \/ rec.top - SequenceNumber(f) >= history
  BY DEF CopiesOK
<1>2. /\ SentAt(f) \in Nat /\ rec.at \in Nat /\ skew \in Nat /\ timeout \in Nat
      /\ SequenceNumber(f) \in Nat /\ rec.top \in Nat /\ history \in Nat
  BY Streams DEF TypesOK
<1>3. now' \in Nat /\ now' <= SentAt(f) + skew
  BY ArrivalFacts
<1>4. ~(now' - rec.at >= timeout)
  BY <1>1, <1>2, <1>3
<1>5. ~Reset(now')
  BY <1>1, <1>4 DEF Reset
<1>6. ~Accepts(SequenceNumber(f), now')
  <2>1. ~(SequenceNumber(f) > rec.top)
    BY <1>1, <1>2
  <2>2. ~(rec.top - SequenceNumber(f) < history /\ SequenceNumber(f) \notin rec.seen)
    BY <1>1, <1>2
  <2>3. QED
    BY <1>1, <1>4, <2>1, <2>2 DEF Accepts, timeout, history
<1>7. QED
  BY <1>5, <1>6

\* What a delivery does.
LEMMA DeliveryFacts ==
  ASSUME RecoveryInvariant, NEW path \in Paths, Deliver(path)
  PROVE  \E f \in Frames :
    /\ f = next[path] /\ Arrival(path)
    /\ dropped' = dropped \ {f} /\ outage' = outage
    /\ now' \in Nat /\ now <= now'
    /\ SentAt(f) <= now' /\ now' <= SentAt(f) + skew
    /\ \/ /\ Accepts(SequenceNumber(f), now')
          /\ rec' = Recovered(SequenceNumber(f), now')
          /\ passed'[f] = passed[f] + 1
       \/ /\ ~Accepts(SequenceNumber(f), now')
          /\ rec' = rec /\ passed'[f] = passed[f]
    /\ passed' \in [Frames -> Nat]
    /\ \A g \in Frames : g # f => passed'[g] = passed[g]
    /\ rec'.at >= rec.at
<1> USE DEF RecoveryInvariant
<1>1. Arrival(path)
  BY DEF Deliver, Arrival
<1>2. PICK f \in Frames : f = next[path]
  BY <1>1, ArrivalFacts
<1>3. /\ now' \in Nat /\ now <= now' /\ SentAt(f) <= now' /\ now' <= SentAt(f) + skew
  BY <1>1, <1>2, ArrivalFacts
<1>4. dropped' = dropped \ {f} /\ outage' = outage
  BY <1>2 DEF Deliver
<1>5. passed \in [Frames -> Nat] /\ rec.at \in Nat /\ rec.at <= now /\ now \in Nat
  BY DEF TypesOK
<1>6. CASE Accepts(SequenceNumber(f), now')
  <2>1. /\ rec' = Recovered(SequenceNumber(f), now')
        /\ passed' = [passed EXCEPT ![f] = passed[f] + 1]
    BY <1>2, <1>6 DEF Deliver
  <2>2. SequenceNumber(f) \in 1 .. MaxFrames
    BY Streams
  <2>3. PICK t \in Nat : t = now'
    BY <1>3
  <2>4. rec'.at = now'
    <3>1. KeptAfter(Recovered(SequenceNumber(f), t), SequenceNumber(f), t)
      BY <2>2, RecoveredFacts
    <3> HIDE DEF Recovered
    <3> QED BY <2>1, <2>3, <3>1 DEF KeptAfter
  <2>5. rec'.at >= rec.at
    BY <1>3, <1>5, <2>4
  <2>6. /\ passed' \in [Frames -> Nat] /\ passed'[f] = passed[f] + 1
        /\ \A g \in Frames : g # f => passed'[g] = passed[g]
    BY <1>5, <2>1
  <2> HIDE DEF Accepts, Recovered
  <2>7. QED
    BY <1>1, <1>2, <1>3, <1>4, <1>6, <2>1, <2>5, <2>6
<1>7. CASE ~Accepts(SequenceNumber(f), now')
  <2>1. rec' = rec /\ passed' = passed
    BY <1>2, <1>7 DEF Deliver
  <2>2. rec'.at >= rec.at
    BY <1>5, <2>1
  <2> HIDE DEF Accepts, Recovered
  <2>3. QED
    BY <1>1, <1>2, <1>3, <1>4, <1>5, <1>7, <2>1, <2>2
<1>8. QED
  BY <1>6, <1>7

\* A delivery keeps the types, the clock and the account of dropped frames.
LEMMA DeliveryKeepsTypes ==
  ASSUME RecoveryInvariant, NEW path \in Paths, Deliver(path)
  PROVE  TypesOK' /\ TimeOK' /\ DroppedOK' /\ (~outage' => HealingOK')
<1> USE DEF RecoveryInvariant
<1>1. PICK f \in Frames :
        /\ f = next[path] /\ Arrival(path)
        /\ dropped' = dropped \ {f} /\ outage' = outage
        /\ now' \in Nat /\ now <= now'
        /\ SentAt(f) <= now' /\ now' <= SentAt(f) + skew
        /\ \/ /\ Accepts(SequenceNumber(f), now')
              /\ rec' = Recovered(SequenceNumber(f), now')
              /\ passed'[f] = passed[f] + 1
           \/ /\ ~Accepts(SequenceNumber(f), now')
              /\ rec' = rec /\ passed'[f] = passed[f]
        /\ passed' \in [Frames -> Nat]
        /\ \A g \in Frames : g # f => passed'[g] = passed[g]
        /\ rec'.at >= rec.at
  BY DeliveryFacts
<1>2. /\ \A g \in Frames : (Through(g))' <=> Through(g) \/ g = f
      /\ \A g \in Frames : (ToCome(g))' => ToCome(g)
      /\ \A g \in Frames : ToCome(g) /\ g # f => (ToCome(g))'
      /\ \A g \in Frames : ToCome(g) => now' <= SentAt(g) + skew
      /\ ToCome(f)
      /\ next' \in [Paths -> Nat] /\ \A p \in Paths : next'[p] \in 1 .. MaxFrames + 1
      /\ TimeOK'
  BY <1>1, ArrivalFacts
<1>3. /\ request' = request /\ skew' = skew /\ restart' = restart
      /\ history' = history /\ timeout' = timeout /\ Overlap' = Overlap
      /\ \A g : SentAt(g)' = SentAt(g) /\ SequenceNumber(g)' = SequenceNumber(g)
  BY <1>1, Configured DEF Arrival
<1>4. /\ skew \in Nat /\ history \in Nat /\ history >= 4 /\ timeout \in Nat /\ timeout >= 10000
      /\ \A g \in Frames : g \in Nat /\ SentAt(g) \in Nat /\ SequenceNumber(g) \in 1 .. MaxFrames
      /\ \A g, h \in Frames : g <= h => SentAt(g) <= SentAt(h)
      /\ rec.at \in Nat /\ rec.top \in Nat /\ rec.at <= now /\ now \in Nat
      /\ passed \in [Frames -> Nat]
  BY Streams DEF TypesOK
<1> DEFINE seq == SequenceNumber(f)
<1>5. ASSUME Accepts(seq, now')
      PROVE  /\ rec' \in [any : BOOLEAN, top : Nat, seen : SUBSET Nat, at : Nat]
             /\ ~rec'.any /\ rec'.at = now' /\ rec'.top <= MaxFrames /\ seq <= rec'.top
             /\ \A s \in rec'.seen : s <= rec'.top /\ rec'.top - s < history
             /\ seq \in rec'.seen \/ rec'.top - seq >= history
             /\ Reset(now') => rec'.top = seq /\ rec'.seen = {seq}
             /\ ~Reset(now') =>
                  /\ rec'.top = Greatest(rec.top, seq)
                  /\ rec'.seen \subseteq rec.seen \cup {seq}
                  /\ \A s \in rec.seen : s \in rec'.seen \/ rec'.top - s >= history
             /\ passed'[f] = passed[f] + 1
  <2>1. rec' = Recovered(seq, now') /\ seq \in 1 .. MaxFrames /\ passed'[f] = passed[f] + 1
    BY <1>1, <1>4, <1>5
  <2>2. PICK t \in Nat : t = now'
    BY <1>1
  <2>3. PICK r : r = rec'
    OBVIOUS
  <2>4. TypesOK
    OBVIOUS
  <2>5. r = Recovered(seq, t)
    BY <2>1, <2>2, <2>3
  <2> HIDE DEF Accepts, Recovered, Reset, seq
  <2>6. KeptAfter(Recovered(seq, t), seq, t)
    BY <2>1, <2>4, RecoveredFacts
  <2>7. QED
    BY <2>1, <2>2, <2>3, <2>5, <2>6 DEF KeptAfter
<1>6. ASSUME ~Accepts(seq, now') PROVE rec' = rec /\ passed'[f] = passed[f]
  <2> HIDE DEF Accepts, Recovered
  <2> QED BY <1>1, <1>6
<1> HIDE DEF Accepts, Recovered, Reset, history, timeout
<1>7. TypesOK'
  <2>1. /\ rec' \in [any : BOOLEAN, top : Nat, seen : SUBSET Nat, at : Nat]
        /\ rec'.top <= MaxFrames /\ rec'.at <= now'
        /\ \A s \in rec'.seen : s <= rec'.top /\ rec'.top - s < history
    <3>1. CASE Accepts(seq, now')
      BY <1>1, <1>5, <3>1
    <3>2. CASE ~Accepts(seq, now')
      BY <1>1, <1>4, <1>6, <3>2 DEF TypesOK
    <3>3. QED
      BY <3>1, <3>2
  <2>2. dropped' \subseteq Frames /\ outage' \in BOOLEAN
    BY <1>1 DEF TypesOK
  <2>3. request \in Redundant /\ skew \in Skews /\ restart \in Restarts
    BY DEF TypesOK
  <2>4. QED
    BY <1>1, <1>2, <1>3, <2>1, <2>2, <2>3 DEF TypesOK
<1>8. DroppedOK'
  <2>1. ASSUME NEW g \in dropped' PROVE (Through(g))' /\ (ToCome(g))' /\ passed'[g] = 0
    <3>1. g \in dropped /\ g # f /\ g \in Frames
      BY <1>1, <2>1 DEF TypesOK
    <3>2. QED
      BY <1>1, <1>2, <3>1 DEF DroppedOK
  <2>2. ASSUME NEW g \in Frames, passed'[g] > 0 PROVE (Through(g))'
    <3>1. CASE g = f
      BY <1>2, <3>1
    <3>2. CASE g # f
      BY <1>1, <1>2, <2>2, <3>2 DEF DroppedOK
    <3>3. QED
      BY <3>1, <3>2
  <2>3. QED
    BY <2>1, <2>2 DEF DroppedOK
<1>9. ASSUME ~outage' PROVE HealingOK'
  <2>1. HealingOK
    BY <1>1, <1>9
  <2>2. ASSUME NEW g \in Frames \ dropped', (Through(g))'
        PROVE  SentAt(g) - rec'.at < timeout
    <3>1. rec'.at \in Nat
      BY <1>1, <1>4, <1>5, <1>6
    <3>2. CASE g = f
      <4>1. CASE Accepts(seq, now')
        BY <1>1, <1>4, <1>5, <3>2, <4>1
      <4>2. CASE ~Accepts(seq, now')
        <5>1. now' - rec.at < timeout
          <6>1. ~(now' - rec.at >= timeout)
            BY <4>2 DEF Accepts, timeout
          <6>2. QED
            BY <1>1, <1>4, <6>1
        <5>2. QED
          BY <1>1, <1>4, <1>6, <3>2, <4>2, <5>1
      <4>3. QED
        BY <4>1, <4>2
    <3>3. CASE g # f
      <4>1. g \in Frames \ dropped /\ Through(g)
        BY <1>1, <1>2, <2>2, <3>3
      <4>2. SentAt(g) - rec.at < timeout
        BY <2>1, <4>1 DEF HealingOK
      <4>3. QED
        BY <1>1, <1>4, <3>1, <4>2
    <3>4. QED
      BY <3>2, <3>3
  <2>3. QED
    BY <1>3, <2>2 DEF HealingOK
<1>10. QED
  BY <1>2, <1>7, <1>8, <1>9

\* A delivery passes no frame on a second time (AtMostOnce).
LEMMA DeliveryKeepsCopies ==
  ASSUME RecoveryInvariant, NEW path \in Paths, Deliver(path), skew < timeout
  PROVE  CopiesOK'
<1> USE DEF RecoveryInvariant
<1>1. PICK f \in Frames :
        /\ f = next[path] /\ Arrival(path)
        /\ dropped' = dropped \ {f} /\ outage' = outage
        /\ now' \in Nat /\ now <= now'
        /\ SentAt(f) <= now' /\ now' <= SentAt(f) + skew
        /\ \/ /\ Accepts(SequenceNumber(f), now')
              /\ rec' = Recovered(SequenceNumber(f), now')
              /\ passed'[f] = passed[f] + 1
           \/ /\ ~Accepts(SequenceNumber(f), now')
              /\ rec' = rec /\ passed'[f] = passed[f]
        /\ passed' \in [Frames -> Nat]
        /\ \A g \in Frames : g # f => passed'[g] = passed[g]
        /\ rec'.at >= rec.at
  BY DeliveryFacts
<1>2. /\ \A g \in Frames : (Through(g))' <=> Through(g) \/ g = f
      /\ \A g \in Frames : (ToCome(g))' => ToCome(g)
      /\ \A g \in Frames : ToCome(g) /\ g # f => (ToCome(g))'
      /\ \A g \in Frames : ToCome(g) => now' <= SentAt(g) + skew
      /\ ToCome(f)
      /\ next' \in [Paths -> Nat] /\ \A p \in Paths : next'[p] \in 1 .. MaxFrames + 1
      /\ TimeOK'
  BY <1>1, ArrivalFacts
<1>3. /\ request' = request /\ skew' = skew /\ restart' = restart
      /\ history' = history /\ timeout' = timeout /\ Overlap' = Overlap
      /\ \A g : SentAt(g)' = SentAt(g) /\ SequenceNumber(g)' = SequenceNumber(g)
  BY <1>1, Configured DEF Arrival
<1>4. /\ skew \in Nat /\ history \in Nat /\ history >= 4 /\ timeout \in Nat /\ timeout >= 10000
      /\ \A g \in Frames : g \in Nat /\ SentAt(g) \in Nat /\ SequenceNumber(g) \in 1 .. MaxFrames
      /\ \A g, h \in Frames : g <= h => SentAt(g) <= SentAt(h)
      /\ rec.at \in Nat /\ rec.top \in Nat /\ rec.at <= now /\ now \in Nat
      /\ passed \in [Frames -> Nat]
  BY Streams DEF TypesOK
<1> DEFINE seq == SequenceNumber(f)
<1>5. ASSUME Accepts(seq, now')
      PROVE  /\ rec' \in [any : BOOLEAN, top : Nat, seen : SUBSET Nat, at : Nat]
             /\ ~rec'.any /\ rec'.at = now' /\ rec'.top <= MaxFrames /\ seq <= rec'.top
             /\ \A s \in rec'.seen : s <= rec'.top /\ rec'.top - s < history
             /\ seq \in rec'.seen \/ rec'.top - seq >= history
             /\ Reset(now') => rec'.top = seq /\ rec'.seen = {seq}
             /\ ~Reset(now') =>
                  /\ rec'.top = Greatest(rec.top, seq)
                  /\ rec'.seen \subseteq rec.seen \cup {seq}
                  /\ \A s \in rec.seen : s \in rec'.seen \/ rec'.top - s >= history
             /\ passed'[f] = passed[f] + 1
  <2>1. rec' = Recovered(seq, now') /\ seq \in 1 .. MaxFrames /\ passed'[f] = passed[f] + 1
    BY <1>1, <1>4, <1>5
  <2>2. PICK t \in Nat : t = now'
    BY <1>1
  <2>3. PICK r : r = rec'
    OBVIOUS
  <2>4. TypesOK
    OBVIOUS
  <2>5. r = Recovered(seq, t)
    BY <2>1, <2>2, <2>3
  <2> HIDE DEF Accepts, Recovered, Reset, seq
  <2>6. KeptAfter(Recovered(seq, t), seq, t)
    BY <2>1, <2>4, RecoveredFacts
  <2>7. QED
    BY <2>1, <2>2, <2>3, <2>5, <2>6 DEF KeptAfter
<1>6. ASSUME ~Accepts(seq, now') PROVE rec' = rec /\ passed'[f] = passed[f]
  <2> HIDE DEF Accepts, Recovered
  <2> QED BY <1>1, <1>6
<1> HIDE DEF Accepts, Recovered, Reset, history, timeout
<1>7. \A g \in Frames : passed[g] > 0 /\ ToCome(g) =>
        ~Reset(now') /\ (g = f => ~Accepts(SequenceNumber(g), now'))
  BY <1>1, SecondCopyRefused
<1>8. CopiesOK
  OBVIOUS
<1>9. SUFFICES ASSUME NEW g \in Frames, passed'[g] > 0
               PROVE  /\ passed'[g] = 1
                      /\ (ToCome(g))' =>
                           /\ ~rec'.any /\ SentAt(g) <= rec'.at
                           /\ SequenceNumber(g) <= rec'.top
                           /\ \/ SequenceNumber(g) \in rec'.seen
                              \/ rec'.top - SequenceNumber(g) >= history
  BY <1>3 DEF CopiesOK
<1>10. CASE g = f /\ Accepts(seq, now')
  <2>1. passed[f] = 0
    BY <1>2, <1>4, <1>7, <1>10
  <2>2. QED
    BY <1>1, <1>5, <1>10, <2>1
<1>11. CASE ~(g = f /\ Accepts(seq, now'))
  <2>1. passed'[g] = passed[g] /\ passed[g] > 0
    BY <1>1, <1>6, <1>9, <1>11
  <2>2. /\ passed[g] = 1
        /\ ToCome(g) => /\ ~rec.any /\ SentAt(g) <= rec.at
                        /\ SequenceNumber(g) <= rec.top
                        /\ \/ SequenceNumber(g) \in rec.seen
                           \/ rec.top - SequenceNumber(g) >= history
    BY <1>8, <2>1 DEF CopiesOK
  <2>3. ASSUME ToCome(g), Accepts(seq, now')
        PROVE  /\ ~rec'.any /\ SentAt(g) <= rec'.at
               /\ SequenceNumber(g) <= rec'.top
               /\ SequenceNumber(g) \in rec'.seen \/ rec'.top - SequenceNumber(g) >= history
    <3>1. ~Reset(now')
      BY <1>7, <2>1, <2>3
    <3>2. /\ rec'.top = Greatest(rec.top, seq) /\ seq \in 1 .. MaxFrames
          /\ \A s \in rec.seen : s \in rec'.seen \/ rec'.top - s >= history
          /\ ~rec'.any /\ rec'.at = now'
      BY <1>4, <1>5, <2>3, <3>1
    <3>3. rec'.top >= rec.top /\ rec'.top \in Nat
      <4>1. seq \in Nat
        BY <3>2, PathsAssumption
      <4> HIDE DEF seq
      <4>2. QED
        BY <1>4, <3>2, <4>1 DEF Greatest
    <3>4. SequenceNumber(g) \in Nat
      BY <1>4, PathsAssumption
    <3>5. SentAt(g) <= rec'.at
      BY <1>1, <1>4, <2>2, <2>3, <3>2
    <3>6. QED
      BY <1>4, <2>2, <2>3, <3>2, <3>3, <3>4, <3>5
  <2>4. QED
    BY <1>2, <1>6, <2>1, <2>2, <2>3
<1>12. QED
  BY <1>10, <1>11

\* A delivery passes every frame on that is inside the window (RedundancyWorks).
LEMMA DeliveryKeepsWindow ==
  ASSUME RecoveryInvariant, NEW path \in Paths, Deliver(path),
         ~outage, restart = MaxFrames, Overlap < history
  PROVE  WindowOK'
<1> USE DEF RecoveryInvariant
<1>1. PICK f \in Frames :
        /\ f = next[path] /\ Arrival(path)
        /\ dropped' = dropped \ {f} /\ outage' = outage
        /\ now' \in Nat /\ now <= now'
        /\ SentAt(f) <= now' /\ now' <= SentAt(f) + skew
        /\ \/ /\ Accepts(SequenceNumber(f), now')
              /\ rec' = Recovered(SequenceNumber(f), now')
              /\ passed'[f] = passed[f] + 1
           \/ /\ ~Accepts(SequenceNumber(f), now')
              /\ rec' = rec /\ passed'[f] = passed[f]
        /\ passed' \in [Frames -> Nat]
        /\ \A g \in Frames : g # f => passed'[g] = passed[g]
        /\ rec'.at >= rec.at
  BY DeliveryFacts
<1>2. /\ \A g \in Frames : (Through(g))' <=> Through(g) \/ g = f
      /\ \A g \in Frames : (ToCome(g))' => ToCome(g)
      /\ \A g \in Frames : ToCome(g) /\ g # f => (ToCome(g))'
      /\ \A g \in Frames : ToCome(g) => now' <= SentAt(g) + skew
      /\ ToCome(f)
      /\ next' \in [Paths -> Nat] /\ \A p \in Paths : next'[p] \in 1 .. MaxFrames + 1
      /\ TimeOK'
  BY <1>1, ArrivalFacts
<1>3. /\ request' = request /\ skew' = skew /\ restart' = restart
      /\ history' = history /\ timeout' = timeout /\ Overlap' = Overlap
      /\ \A g : SentAt(g)' = SentAt(g) /\ SequenceNumber(g)' = SequenceNumber(g)
  BY <1>1, Configured DEF Arrival
<1>4. /\ skew \in Nat /\ history \in Nat /\ history >= 4 /\ timeout \in Nat /\ timeout >= 10000
      /\ \A g \in Frames : g \in Nat /\ SentAt(g) \in Nat /\ SequenceNumber(g) \in 1 .. MaxFrames
      /\ \A g, h \in Frames : g <= h => SentAt(g) <= SentAt(h)
      /\ rec.at \in Nat /\ rec.top \in Nat /\ rec.at <= now /\ now \in Nat
      /\ passed \in [Frames -> Nat]
  BY Streams DEF TypesOK
<1> DEFINE seq == SequenceNumber(f)
<1>5. ASSUME Accepts(seq, now')
      PROVE  /\ rec' \in [any : BOOLEAN, top : Nat, seen : SUBSET Nat, at : Nat]
             /\ ~rec'.any /\ rec'.at = now' /\ rec'.top <= MaxFrames /\ seq <= rec'.top
             /\ \A s \in rec'.seen : s <= rec'.top /\ rec'.top - s < history
             /\ seq \in rec'.seen \/ rec'.top - seq >= history
             /\ Reset(now') => rec'.top = seq /\ rec'.seen = {seq}
             /\ ~Reset(now') =>
                  /\ rec'.top = Greatest(rec.top, seq)
                  /\ rec'.seen \subseteq rec.seen \cup {seq}
                  /\ \A s \in rec.seen : s \in rec'.seen \/ rec'.top - s >= history
             /\ passed'[f] = passed[f] + 1
  <2>1. rec' = Recovered(seq, now') /\ seq \in 1 .. MaxFrames /\ passed'[f] = passed[f] + 1
    BY <1>1, <1>4, <1>5
  <2>2. PICK t \in Nat : t = now'
    BY <1>1
  <2>3. PICK r : r = rec'
    OBVIOUS
  <2>4. TypesOK
    OBVIOUS
  <2>5. r = Recovered(seq, t)
    BY <2>1, <2>2, <2>3
  <2> HIDE DEF Accepts, Recovered, Reset, seq
  <2>6. KeptAfter(Recovered(seq, t), seq, t)
    BY <2>1, <2>4, RecoveredFacts
  <2>7. QED
    BY <2>1, <2>2, <2>3, <2>5, <2>6 DEF KeptAfter
<1>6. ASSUME ~Accepts(seq, now') PROVE rec' = rec /\ passed'[f] = passed[f]
  <2> HIDE DEF Accepts, Recovered
  <2> QED BY <1>1, <1>6
<1> HIDE DEF Accepts, Recovered, Reset, history, timeout
<1>7. skew < timeout
  BY <1>4, LongHistorySlowTimer DEF TypesOK
<1>8. CopiesOK' /\ WindowOK
  BY <1>7, DeliveryKeepsCopies
<1>9. \A g \in Frames : SequenceNumber(g) = g /\ g >= 1 /\ g <= MaxFrames
  BY PathsAssumption DEF SequenceNumber, Frames
<1>10. ASSUME NEW g \in Frames, passed'[g] > 0 PROVE passed'[g] = 1
  BY <1>8, <1>10 DEF CopiesOK
<1>11. ASSUME ~rec.any
       PROVE  /\ rec.top \in Frames /\ passed[rec.top] = 1 /\ SentAt(rec.top) <= rec.at
              /\ \A g \in Frames : passed[g] > 0 => g <= rec.top
              /\ \A s \in rec.seen : s \in Frames /\ passed[s] > 0
  BY <1>8, <1>11 DEF WindowOK
\* The first copy of a frame is never refused ...
<1>12. ASSUME passed[f] = 0 PROVE Accepts(f, now')
  <2>1. SUFFICES ASSUME ~Accepts(f, now') PROVE FALSE
    OBVIOUS
  <2>2. /\ ~rec.any
        /\ ~(f > rec.top /\ f - rec.top < history)
        /\ ~(f <= rec.top /\ rec.top - f < history /\ f \notin rec.seen)
    BY <2>1 DEF Accepts, history
  <2>3. PICK top \in Frames : top = rec.top
    BY <1>11, <2>2
  <2>4. passed[top] = 1 /\ SentAt(top) <= rec.at
    BY <1>11, <2>2, <2>3
  <2>5. request \in Redundant
    BY DEF TypesOK
  <2>6. CASE f > top
    <3>1. CASE f = top + 1
      BY <1>4, <2>2, <2>3, <2>6, <3>1
    <3>2. CASE f > top + 1
      <4>1. PICK g \in Frames : g = top + 1
        <5>1. top + 1 \in Frames
          BY <1>4, <1>9, <3>2, PathsAssumption DEF Frames
        <5>2. QED
          BY <5>1
      <4>2. passed[g] = 0
        <5>1. ~(g <= top)
          BY <1>4, <4>1
        <5>2. ~(passed[g] > 0)
          BY <1>11, <2>2, <2>3, <5>1
        <5>3. QED
          BY <1>4, <5>2
      <4>3. Through(g)
        BY <1>1, <3>2, <4>1 DEF Through
      <4>4. g \in dropped
        BY <1>8, <4>2, <4>3 DEF WindowOK
      <4>5. SentAt(f) <= SentAt(g) + skew
        BY <1>1, <1>2, <1>4, <4>4 DEF DroppedOK
      <4>6. Overlap \in Nat /\ f - g < Overlap
        BY <1>4, <2>5, <4>5, OverlapBounds
      <4>7. f - top < history
        BY <1>4, <4>1, <4>6
      <4>8. QED
        BY <2>2, <2>3, <2>6, <4>7
    <3>3. QED
      BY <1>4, <2>6, <3>1, <3>2
  <2>7. CASE ~(f > top)
    <3>1. SentAt(top) <= SentAt(f) + skew
      BY <1>1, <1>4, <2>4
    <3>2. Overlap \in Nat /\ top - f < Overlap
      BY <1>4, <2>5, <3>1, OverlapBounds
    <3>3. top - f < history
      BY <1>4, <3>2
    <3>4. f \in rec.seen
      BY <1>4, <2>2, <2>3, <2>7, <3>3
    <3>5. QED
      BY <1>11, <1>12, <2>2, <3>4
  <2>8. QED
    BY <2>6, <2>7
\* ... and the timer runs out on frames that were sent before only.
<1>13. ASSUME Reset(now'), NEW g \in Frames, passed[g] > 0 PROVE g <= f
  <2>1. CASE rec.any
    BY <1>8, <1>13, <2>1 DEF WindowOK
  <2>2. CASE ~rec.any
    <3>1. PICK top \in Frames : top = rec.top
      BY <1>11, <2>2
    <3>2. g <= top /\ SentAt(top) <= rec.at
      BY <1>11, <1>13, <2>2, <3>1
    <3>3. now' - rec.at >= timeout
      BY <1>13, <2>2 DEF Reset
    <3>4. ~(f <= top)
      BY <1>1, <1>4, <1>7, <3>2, <3>3
    <3>5. QED
      BY <1>4, <3>2, <3>4
  <2>3. QED
    BY <2>1, <2>2
<1>14. ASSUME NEW g \in Frames, passed[g] > 0 PROVE passed'[g] > 0
  BY <1>1, <1>4, <1>6, <1>14
<1>15. seq = f
  BY <1>9
<1>16. ASSUME ~rec'.any
       PROVE  /\ rec'.top \in Frames /\ passed'[rec'.top] = 1 /\ SentAt(rec'.top) <= rec'.at
              /\ \A g \in Frames : passed'[g] > 0 => g <= rec'.top
              /\ \A s \in rec'.seen : s \in Frames /\ passed'[s] > 0
  <2>1. CASE Accepts(seq, now')
    <3>1. passed'[f] > 0 /\ rec'.at = now'
      BY <1>4, <1>5, <2>1
    <3>2. CASE Reset(now')
      <4>1. rec'.top = f /\ rec'.seen = {f}
        BY <1>5, <1>15, <2>1, <3>2
      <4>2. \A g \in Frames : passed'[g] > 0 => g <= f
        BY <1>1, <1>4, <1>13, <3>2
      <4>3. QED
        BY <1>1, <1>10, <3>1, <4>1, <4>2
    <3>3. CASE ~Reset(now')
      <4>1. ~rec.any
        BY <3>3 DEF Reset
      <4>2. PICK top \in Frames : top = rec.top
        BY <1>11, <4>1
      <4>3. /\ rec'.top = Greatest(top, f) /\ rec'.seen \subseteq rec.seen \cup {f}
        BY <1>5, <1>15, <2>1, <3>3, <4>2
      <4>4. /\ passed[top] = 1 /\ SentAt(top) <= rec.at
            /\ \A g \in Frames : passed[g] > 0 => g <= top
            /\ \A s \in rec.seen : s \in Frames /\ passed[s] > 0
        BY <1>11, <4>1, <4>2
      <4>5. SentAt(top) <= now'
        BY <1>1, <1>4, <4>4
      <4>6. (rec'.top = f \/ rec'.top = top) /\ f <= rec'.top /\ top <= rec'.top
        BY <1>4, <4>3 DEF Greatest
      <4>7. \A s \in rec'.seen : s \in Frames /\ passed'[s] > 0
        BY <1>14, <3>1, <4>3, <4>4
      <4>8. \A g \in Frames : passed'[g] > 0 => g <= rec'.top
        BY <1>1, <1>4, <4>4, <4>6
      <4>9. rec'.top \in Frames /\ SentAt(rec'.top) <= rec'.at /\ passed'[rec'.top] > 0
        BY <1>1, <1>14, <3>1, <4>4, <4>5, <4>6
      <4>10. QED
        BY <1>10, <4>7, <4>8, <4>9
    <3>4. QED
      BY <3>2, <3>3
  <2>2. CASE ~Accepts(seq, now')
    <3>1. rec' = rec /\ passed'[f] = passed[f]
      BY <1>6, <2>2
    <3>2. \A g \in Frames : passed'[g] = passed[g]
      BY <1>1, <3>1
    <3>3. ~rec.any
      BY <1>16, <3>1
    <3>4. QED
      BY <1>11, <3>1, <3>2, <3>3
  <2>3. QED
    BY <2>1, <2>2
<1>17. ASSUME rec'.any, NEW g \in Frames PROVE passed'[g] = 0
  <2>1. ~Accepts(seq, now')
    BY <1>5, <1>17
  <2>2. rec' = rec /\ passed'[g] = passed[g]
    BY <1>1, <1>6, <2>1
  <2>3. QED
    BY <1>8, <1>17, <2>2 DEF WindowOK
<1>18. ASSUME NEW g \in Frames \ dropped', (Through(g))' PROVE passed'[g] = 1
  <2>1. CASE g = f
    <3>1. passed'[f] > 0
      <4>1. CASE Accepts(seq, now')
        BY <1>4, <1>5, <4>1
      <4>2. CASE ~Accepts(seq, now')
        <5>1. passed[f] # 0
          BY <1>12, <1>15, <4>2
        <5>2. QED
          BY <1>4, <1>6, <4>2, <5>1
      <4>3. QED
        BY <4>1, <4>2
    <3>2. QED
      BY <1>10, <2>1, <3>1
  <2>2. CASE g # f
    <3>1. g \in Frames \ dropped /\ Through(g)
      BY <1>1, <1>2, <1>18, <2>2
    <3>2. QED
      BY <1>1, <1>8, <2>2, <3>1 DEF WindowOK
  <2>3. QED
    BY <2>1, <2>2
<1>19. QED
  <2>1. /\ rec'.any => \A g \in Frames : passed'[g] = 0
        /\ \A g \in Frames \ dropped' : (Through(g))' => passed'[g] = 1
    BY <1>17, <1>18
  <2>2. ~rec'.any =>
          /\ rec'.top \in Frames /\ passed'[rec'.top] = 1 /\ SentAt(rec'.top) <= rec'.at
          /\ \A g \in Frames : passed'[g] > 0 => g <= rec'.top
          /\ \A s \in rec'.seen : s \in Frames /\ passed'[s] > 0
    BY <1>16
  <2>3. (SentAt(rec.top))' = SentAt(rec'.top)
    BY <1>3 DEF SentAt
  <2>4. QED
    BY <2>1, <2>2, <2>3 DEF WindowOK

-----------------------------------------------------------------------------
(* The theorems.                                                           *)

\* Whatever the paths and the talker do, the invariant stays.
LEMMA RecoveryStep == ASSUME RecoveryInvariant, [Next]_vars PROVE RecoveryInvariant'
<1>1. ASSUME NEW path \in Paths, Lose(path) PROVE RecoveryInvariant'
  BY <1>1, LossKeepsRecovery
<1>2. ASSUME NEW path \in Paths, Deliver(path) PROVE RecoveryInvariant'
  <2>1. UNCHANGED <<request, skew, restart, outage>>
    BY <1>2 DEF Deliver
  <2>2. timeout' = timeout /\ history' = history /\ Overlap' = Overlap
    BY <2>1, Configured
  <2>3. TypesOK' /\ TimeOK' /\ DroppedOK' /\ (~outage' => HealingOK')
    BY <1>2, DeliveryKeepsTypes
  <2>4. skew' < timeout' => CopiesOK'
    BY <1>2, <2>1, <2>2, DeliveryKeepsCopies
  <2>5. ~outage' /\ restart' = MaxFrames /\ Overlap' < history' => WindowOK'
    BY <1>2, <2>1, <2>2, DeliveryKeepsWindow
  <2>6. QED
    BY <2>3, <2>4, <2>5 DEF RecoveryInvariant
<1>3. CASE UNCHANGED vars
  <2>1. UNCHANGED <<request, skew, restart, next, now, rec, passed, dropped, outage>>
    BY <1>3 DEF vars
  <2>2. /\ timeout' = timeout /\ history' = history /\ Overlap' = Overlap
        /\ \A f : SentAt(f)' = SentAt(f) /\ SequenceNumber(f)' = SequenceNumber(f)
    BY <2>1, Configured
  <2>3. \A f : ((Through(f))' <=> Through(f)) /\ ((ToCome(f))' <=> ToCome(f))
    BY <2>1 DEF Through, ToCome
  <2>4. \A p : ArrivesAt(p)' = ArrivesAt(p)
    BY <2>1 DEF ArrivesAt, SentAt
  <2> HIDE DEF timeout, history, Overlap, SentAt, SequenceNumber, Through, ToCome, ArrivesAt
  <2>5. (TypesOK' <=> TypesOK) /\ (TimeOK' <=> TimeOK)
    BY <2>1, <2>2, <2>3, <2>4 DEF TypesOK, TimeOK
  <2>6. (DroppedOK' <=> DroppedOK) /\ (CopiesOK' <=> CopiesOK)
    BY <2>1, <2>2, <2>3 DEF DroppedOK, CopiesOK
  <2>7. (HealingOK' <=> HealingOK) /\ (WindowOK' <=> WindowOK)
    <3>1. (SentAt(rec.top))' = SentAt(rec.top)
      BY <2>1 DEF SentAt
    <3>2. QED
      BY <2>1, <2>2, <2>3, <3>1 DEF HealingOK, WindowOK
  <2>8. QED
    BY <2>1, <2>2, <2>5, <2>6, <2>7 DEF RecoveryInvariant
<1>4. QED
  BY <1>1, <1>2, <1>3 DEF Next, Quiet

\* The inductive invariant holds in every state of every behaviour.
THEOREM RecoveryCorrect == Spec => []RecoveryInvariant
<1>1. Init => RecoveryInvariant
  BY RecoveryStarts
<1>2. RecoveryInvariant /\ [Next]_vars => RecoveryInvariant'
  BY RecoveryStep
<1>3. QED
  BY <1>1, <1>2, PTL DEF Spec

\* No frame reaches the listener twice, whatever is lost, whenever the talker
\* restarts and however long the history is, as long as the paths differ by less
\* than the shortest reset timeout frer_config gives (mapper.py:351).
THEOREM FramesPassOnce ==
  ASSUME \A s \in Skews : s < 10000
  PROVE  Spec => []AtMostOnce
<1>1. RecoveryInvariant => AtMostOnce
  <2> SUFFICES ASSUME RecoveryInvariant PROVE AtMostOnce
    OBVIOUS
  <2> USE DEF RecoveryInvariant
  <2>1. skew < timeout
    <3>1. skew < 10000 /\ skew \in Nat /\ timeout \in Nat /\ timeout >= 10000
      BY Streams DEF TypesOK
    <3> HIDE DEF timeout
    <3>2. QED
      BY <3>1
  <2>2. ASSUME NEW f \in Frames PROVE passed[f] <= 1
    <3>1. passed[f] \in Nat /\ (passed[f] > 0 => passed[f] = 1)
      BY <2>1 DEF CopiesOK, TypesOK
    <3>2. QED
      BY <3>1
  <2>3. QED
    BY <2>2 DEF AtMostOnce
<1>2. QED
  BY <1>1, RecoveryCorrect, PTL

\* As long as no frame is lost on both paths, the listener has every frame that
\* one of them delivered, for any stream and paths the history is long enough
\* for; and for samples of one frame and 2 ms it is (mapper.py:335-339).
THEOREM NoFrameIsWithheld == Spec => []RedundancyWorks
<1>1. RecoveryInvariant => RedundancyWorks
  <2> SUFFICES ASSUME RecoveryInvariant, ~outage, restart = MaxFrames,
                      \/ FramesFor(request.payload_bytes) = 1 /\ skew <= 2000
                      \/ Overlap < Window.history_length,
                      NEW f \in Frames \ dropped, \E p \in Paths : f < next[p]
               PROVE  passed[f] = 1
    BY DEF RedundancyWorks
  <2> USE DEF RecoveryInvariant
  <2>1. request \in Redundant /\ skew \in Nat
    BY Streams
  <2>2. Overlap < history
    BY <2>1, WindowIsMadeFor2ms DEF history
  <2>3. WindowOK /\ Through(f)
    BY <2>2 DEF Through
  <2>4. QED
    BY <2>3 DEF WindowOK
<1>2. QED
  BY <1>1, RecoveryCorrect, PTL

\* A restart silences a periodic stream for less than its liveliness lease: the
\* tolerance the profile gives the class, 15 tenths of a period, is what makes
\* three deadlines longer than four periods (mapper.py:217-219 and 351).
THEOREM RestartsHeal ==
  ASSUME \A s \in Skews : s < 10000,
         \A r \in Redundant :
           ~r.event_driven /\ Classes[r.qos_class].deadline_tolerance >= 15
  PROVE  Spec => []RestartHealsWithinLease
<1>1. RecoveryInvariant => RestartHealsWithinLease
  <2> SUFFICES ASSUME RecoveryInvariant, ~outage, dropped = {}, NEW lease \in Lease(request)
               PROVE  now - rec.at < lease
    BY DEF RestartHealsWithinLease
  <2> USE DEF RecoveryInvariant
  <2> DEFINE p == request.period
             tol == Classes[request.qos_class].deadline_tolerance
             deadline == (p * tol) \div 10
  <2>1. /\ request \in Redundant /\ skew \in Nat /\ timeout \in Nat
        /\ now \in Nat /\ rec.at \in Nat /\ \A f \in Frames : SentAt(f) \in Nat
    BY Streams DEF TypesOK
  <2>2. skew < 10000
    BY DEF TypesOK
  <2>3. p \in Nat /\ p > 0 /\ tol \in Nat /\ tol >= 15 /\ ~request.event_driven
    BY <2>1, StreamValues, RedundantAssumption
  <2>4. now - rec.at < timeout + skew
    <3>1. CASE now = 0
      BY <2>1, <3>1, WindowValues
    <3>2. CASE now > 0
      <4>1. PICK f \in Frames : Through(f) /\ now <= SentAt(f) + skew
        BY <3>2 DEF TimeOK
      <4>2. SentAt(f) - rec.at < timeout
        BY <4>1 DEF HealingOK
      <4> HIDE DEF timeout
      <4>3. QED
        BY <2>1, <4>1, <4>2
    <3>3. QED
      BY <2>1, <3>1, <3>2
  <2>5. timeout <= Greatest(10000, 4 * p)
    BY <2>1, WindowValues
  <2>6. deadline \in Nat /\ 10 * deadline >= 15 * p - 9
    <3>1. p * tol \in Nat /\ p * tol >= 15 * p
      <4>1. 15 * p <= tol * p
        BY <2>3, Factor
      <4>2. tol * p = p * tol
        BY <2>3
      <4>3. QED
        BY <2>3, <4>1, <4>2
    <3> DEFINE y == p * tol
    <3>2. y \in Nat /\ y >= 15 * p
      BY <3>1
    <3> HIDE DEF y, p
    <3>3. y \div 10 \in Nat /\ 10 * (y \div 10) >= y - 9
      BY <3>2
    <3>4. QED
      BY <2>3, <3>2, <3>3 DEF y
  <2>7. lease = Greatest(100000, 3 * deadline)
    <3>1. Deadline(request) = {deadline}
      BY <2>3 DEF Deadline
    <3>2. OrElse(Deadline(request), p) = deadline
      <4> HIDE DEF deadline, p
      <4>1. QED
        BY <3>1 DEF OrElse
    <3> HIDE DEF deadline
    <3>3. QED
      BY <3>2 DEF Lease
  <2> HIDE DEF p, tol, deadline, timeout
  <2>8. timeout + skew <= lease
    BY <2>1, <2>2, <2>3, <2>5, <2>6, <2>7 DEF Greatest
  <2>9. lease \in Nat
    BY <2>6, <2>7 DEF Greatest
  <2>10. QED
    BY <2>1, <2>4, <2>8, <2>9
<1>2. QED
  BY <1>1, RecoveryCorrect, PTL
=============================================================================
