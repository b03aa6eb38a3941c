---------------------------- MODULE ScheduleProofs ----------------------------
(***************************************************************************)
(* Theorems about the gate schedules of Configuration, for any profile,    *)
(* requests, streams on the port and rates that satisfy its assumptions.   *)
(***************************************************************************)
EXTENDS ConfigurationProofs

(* What a schedule is made of.                                             *)

\* A resolved stream has a period and something to send.
LEMMA StreamNumbers ==
  ASSUME NEW s \in Streams
  PROVE  s.period \in Nat \ {0} /\ s.wire \in Nat
<1>1. PICK shape \in Shapes : s = Resolve(shape)
  BY DEF Streams
<1>2. Resolvable(shape) /\ shape.payload_bytes \in Nat /\ shape.period \in Nat
  BY RequestsAssumption DEF Typed, FieldTypes
<1>3. PICK p \in Nat : p = shape.payload_bytes
  BY <1>2
<1>4. p > 0 /\ shape.period # 0
  BY <1>2, <1>3 DEF Resolvable, Recognised
<1>5. WireBytes(p) = p + 126 * FramesFor(p) /\ FramesFor(p) \in Nat
  BY <1>4, WireBytesOf, FragmentCount
<1>6. s.period = shape.period /\ s.wire = WireBytes(shape.payload_bytes)
  BY <1>1 DEF Resolve
<1>7. s.wire \in Nat
  <2>1. PICK n \in Nat : n = FramesFor(p)
    BY <1>5
  <2>2. p + 126 * n \in Nat
    OBVIOUS
  <2>3. QED
    BY <1>3, <1>5, <1>6, <2>1, <2>2
<1>8. QED
  BY <1>2, <1>4, <1>6, <1>7

\* A byte takes a whole number of ticks.
LEMMA TickFacts ==
  ASSUME NEW p \in PortRates
  PROVE  ByteTicks(p) \in Nat /\ GuardTicks(p) \in Nat /\ GuardTicks(p) = 143 * ByteTicks(p)
<1>1. p \in Nat /\ p > 0
  BY PortAssumption
<1>2. PICK n \in Nat : n = 8000 * Grain
  BY GrainAssumption
<1>3. n \div p \in Nat
  BY <1>1, Quotient
<1>4. PICK b \in Nat : b = ByteTicks(p)
  BY <1>2, <1>3 DEF ByteTicks
<1>5. 143 * b \in Nat
  OBVIOUS
<1>6. QED
  BY <1>4, <1>5 DEF GuardTicks, PREEMPT_RESIDUE_BYTES

\* The cycle is the shortest scheduled period.
LEMMA CycleFacts ==
  ASSUME NEW s \in Seq(Streams), Scheduled(s) # {}
  PROVE  /\ Cycle(s) \in Nat \ {0}
         /\ \A i \in Scheduled(s) : Cycle(s) <= s[i].period
<1> DEFINE periods == { s[i].period : i \in Scheduled(s) }
           f == [i \in Scheduled(s) |-> s[i].period]
<1>1. Scheduled(s) \in SUBSET DOMAIN s
  BY DEF Scheduled
<1>2. \A i \in Scheduled(s) : s[i].period \in Nat \ {0}
  BY <1>1, OnPort, StreamNumbers
<1>3. IsFiniteSet(Scheduled(s))
  BY <1>1, OnPort
<1>4. f \in Surjection(Scheduled(s), periods)
  BY DEF Surjection
<1>5. IsFiniteSet(periods)
  <2> HIDE DEF f, periods
  <2> QED BY <1>3, <1>4, FS_Surjection
<1>6. periods # {} /\ periods \subseteq Nat \ {0} /\ periods \subseteq Int
  BY <1>2
<1>7. Min(periods) \in periods /\ \A x \in periods : Min(periods) <= x
  <2> HIDE DEF periods
  <2> QED BY <1>5, <1>6, MinIsAMember
<1>8. Cycle(s) = Min(periods)
  BY DEF Cycle
<1>9. \A i \in Scheduled(s) : s[i].period \in periods
  OBVIOUS
<1>10. QED
  <2> HIDE DEF periods
  <2> QED BY <1>6, <1>7, <1>8, <1>9

\* What a stream is charged is a natural number of ticks.
LEMMA ShareFacts ==
  ASSUME NEW s \in Seq(Streams), NEW i \in Scheduled(s), NEW p \in PortRates
  PROVE  Share(s, i, p) \in Nat
<1>1. s[i] \in Streams
  BY OnPort DEF Scheduled
<1>2. PICK c, b, w, d \in Nat : c = Cycle(s) /\ b = ByteTicks(p) /\ w = s[i].wire /\ d = s[i].period
  BY <1>1, CycleFacts, StreamNumbers, TickFacts
<1>3. d > 0
  BY <1>1, <1>2, StreamNumbers
<1>4. PICK n \in Nat : n = b * c
  OBVIOUS
<1>5. PICK k \in Nat : k = n \div d
  BY <1>3, Quotient
<1>6. w * k \in Nat
  OBVIOUS
<1>7. Share(s, i, p) = w * k
  BY <1>2, <1>4, <1>5 DEF Share
<1>8. QED
  BY <1>6, <1>7

\* A class's demand is the sum of the shares of its streams.
LEMMA DemandIsSum ==
  ASSUME NEW s \in Seq(Streams), NEW tc, NEW p \in PortRates
  PROVE  Demand(s, tc, p) = SumOver([i \in ScheduledIn(s, tc) |-> Share(s, i, p)],
                                    ScheduledIn(s, tc))
<1> DEFINE S == ScheduledIn(s, tc)
           h == [i \in S |-> Share(s, i, p)]
           Body(g) == [t \in SUBSET S |->
                         IF t = {} THEN 0
                         ELSE Share(s, CHOOSE i \in t : TRUE, p) + g[t \ {CHOOSE i \in t : TRUE}]]
<1>1. IsFiniteSet(S) /\ \A i \in S : h[i] \in Int
  BY OnPort, ShareFacts DEF ScheduledIn, Scheduled
<1>2. ASSUME NEW g PROVE Body(g) = [t \in SUBSET S |-> Added(g, h, t)]
  <2>1. ASSUME NEW t \in SUBSET S, t # {}
        PROVE  h[CHOOSE i \in t : TRUE] = Share(s, CHOOSE i \in t : TRUE, p)
    BY <2>1
  <2>2. \A t \in SUBSET S : Body(g)[t] = Added(g, h, t)
    <3> HIDE DEF h, S
    <3> QED BY <2>1 DEF Added
  <2> HIDE DEF h, S
  <2> QED BY <2>2
<1>3. PICK f : f = CHOOSE g : g = Body(g)
  OBVIOUS
<1>4. Demand(s, tc, p) = f[S]
  BY <1>3 DEF Demand, MapThenSumSet, MapThenFoldSet
<1> HIDE DEF h, S
<1>5. PICK g : AddsUp(g, h, S)
  BY <1>1, SumsExist
<1>6. g = Body(g)
  <2> HIDE DEF Body
  <2> QED BY <1>2, <1>5 DEF AddsUp
<1> HIDE DEF Body
<1>7. AddsUp(f, h, S)
  BY <1>2, <1>3, <1>6 DEF AddsUp
<1>8. S \in SUBSET S
  OBVIOUS
<1>9. QED
  BY <1>1, <1>4, <1>7, <1>8, SumIs DEF h, S

\* A class's window holds its streams' shares and a guard band.
LEMMA WindowFacts ==
  ASSUME NEW s \in Seq(Streams), NEW tc, NEW p \in PortRates
  PROVE  /\ Demand(s, tc, p) \in Nat
         /\ Window(s, tc, p) \in Nat
         /\ Window(s, tc, p) >= GuardTicks(p)
<1> DEFINE S == ScheduledIn(s, tc)
           h == [i \in S |-> Share(s, i, p)]
<1>1. IsFiniteSet(S) /\ \A i \in S : h[i] \in Nat
  BY OnPort, ShareFacts DEF ScheduledIn, Scheduled
<1>2. SumOver(h, S) \in Nat
  <2> HIDE DEF h, S
  <2> QED BY <1>1, SumNatural
<1>3. Demand(s, tc, p) \in Nat
  BY <1>2, DemandIsSum
<1>4. QED
  BY <1>3, TickFacts DEF Window

-----------------------------------------------------------------------------
(* The order of the windows.                                               *)

\* How many protected classes are as urgent as this one.
Rank(s, tc) == Cardinality({ d \in Protected(s) : d >= tc })

\* Protected classes are traffic classes, as many as there are ranks.
LEMMA ProtectedFacts ==
  ASSUME NEW s \in Seq(Streams)
  PROVE  /\ Protected(s) \subseteq TrafficClasses
         /\ IsFiniteSet(Protected(s))
         /\ Cardinality(Protected(s)) \in Nat
         /\ \A i \in Scheduled(s) : s[i].tsn.traffic_class \in Protected(s)
         /\ Scheduled(s) # {} => Cardinality(Protected(s)) >= 1
<1>1. Protected(s) \subseteq TrafficClasses
  BY OnPort, StreamFacts DEF Protected, Scheduled
<1>2. IsFiniteSet(TrafficClasses)
  <2>1. 0 \in Int /\ 7 \in Int
    OBVIOUS
  <2>2. IsFiniteSet(0 .. 7)
    BY <2>1, FS_Interval
  <2>3. QED
    BY <2>2 DEF TrafficClasses
<1>3. IsFiniteSet(Protected(s)) /\ Cardinality(Protected(s)) \in Nat
  BY <1>1, <1>2, FS_Subset, FS_CardinalityType
<1>4. \A i \in Scheduled(s) : s[i].tsn.traffic_class \in Protected(s)
  BY DEF Protected
<1>5. Protected(s) # {} => Cardinality(Protected(s)) # 0
  BY <1>3, FS_EmptySet
<1>6. QED
  BY <1>1, <1>3, <1>4, <1>5

\* Ranks number the protected classes.
LEMMA RankNumbers ==
  ASSUME NEW s \in Seq(Streams)
  PROVE  [tc \in Protected(s) |-> Rank(s, tc)]
           \in Bijection(Protected(s), 1 .. Cardinality(Protected(s)))
<1> DEFINE P == Protected(s)
           Above(a) == { d \in P : d >= a }
           f == [tc \in P |-> Rank(s, tc)]
<1>1. PICK n \in Nat : n = Cardinality(P)
  BY ProtectedFacts
<1>2. /\ IsFiniteSet(P)
      /\ \A a \in P : a \in Int
      /\ \A D \in SUBSET P : IsFiniteSet(D) /\ Cardinality(D) \in Nat /\ Cardinality(D) <= n
  BY <1>1, ProtectedFacts, FS_Subset, FS_CardinalityType DEF TrafficClasses
<1>3. ASSUME NEW a \in P PROVE f[a] \in 1 .. n
  <2>1. Above(a) \in SUBSET P /\ a \in Above(a)
    BY <1>2
  <2>2. f[a] = Cardinality(Above(a))
    BY DEF Rank
  <2>3. Cardinality(Above(a)) # 0
    <3> HIDE DEF Above
    <3> QED BY <1>2, <2>1, FS_EmptySet
  <2>4. QED
    <3> HIDE DEF Above, P, f
    <3> QED BY <1>2, <2>1, <2>2, <2>3
<1>4. ASSUME NEW a \in P, NEW b \in P, a < b PROVE f[a] # f[b]
  <2>1. Above(b) \in SUBSET Above(a) /\ a \in Above(a) /\ a \notin Above(b) /\ Above(a) \in SUBSET P
    BY <1>2, <1>4
  <2>2. f[a] = Cardinality(Above(a)) /\ f[b] = Cardinality(Above(b))
    BY DEF Rank
  <2> HIDE DEF Above, P, f
  <2>3. IsFiniteSet(Above(a))
    BY <1>2, <2>1
  <2>4. QED
    BY <2>1, <2>2, <2>3, FS_Subset
<1>5. f \in Injection(P, 1 .. n)
  <2>1. \A a, b \in P : f[a] = f[b] => a = b
    <3> HIDE DEF f, P
    <3> QED BY <1>2, <1>4
  <2>2. f \in [P -> 1 .. n]
    <3>1. f = [tc \in P |-> f[tc]]
      OBVIOUS
    <3> HIDE DEF f, P
    <3> QED BY <1>3, <3>1
  <2> HIDE DEF f, P
  <2> QED BY <2>1, <2>2 DEF Injection, IsInjective
<1>6. f \in Surjection(P, 1 .. n)
  <2>1. PICK N : N = 1 .. n
    OBVIOUS
  <2>2. IsFiniteSet(N) /\ Cardinality(N) = n
    <3>1. 1 \in Int /\ n \in Int
      OBVIOUS
    <3>2. QED
      BY <2>1, <3>1, FS_Interval
  <2> HIDE DEF f, P
  <2>3. f \in Surjection(P, N)
    BY <1>1, <1>5, <2>1, <2>2, FS_Injection
  <2>4. QED
    BY <2>1, <2>3
<1>7. QED
  BY <1>1, <1>5, <1>6 DEF Bijection

\* The windows are in the order of the ranks, one for each protected class.
LEMMA RankedNumbers ==
  ASSUME NEW s \in Seq(Streams)
  PROVE  [i \in 1 .. Cardinality(Protected(s)) |-> Ranked(s, i)]
           \in Bijection(1 .. Cardinality(Protected(s)), Protected(s))
<1> DEFINE P == Protected(s)
           N == 1 .. Cardinality(Protected(s))
           f == [tc \in P |-> Rank(s, tc)]
           g == [i \in N |-> Ranked(s, i)]
<1>1. /\ f \in [P -> N]
      /\ \A a, b \in P : f[a] = f[b] => a = b
      /\ \A i \in N : \E a \in P : f[a] = i
  <2>1. f \in Bijection(P, N)
    BY RankNumbers
  <2> HIDE DEF f, P, N
  <2> QED BY <2>1 DEF Bijection, Injection, IsInjective, Surjection
<1>2. \A i \in N : g[i] \in P /\ Rank(s, g[i]) = i
  <2>1. ASSUME NEW i \in N PROVE Ranked(s, i) \in P /\ Rank(s, Ranked(s, i)) = i
    <3>1. \E a \in P : Rank(s, a) = i
      BY <1>1
    <3>2. QED
      BY <3>1 DEF Ranked, Rank
  <2>2. QED
    BY <2>1
<1>3. \A a \in P : f[a] = Rank(s, a) /\ f[a] \in N
  BY <1>1
<1>4. g \in Injection(N, P)
  <2>1. g \in [N -> P]
    <3>1. g = [i \in N |-> g[i]]
      OBVIOUS
    <3> HIDE DEF g, N, P
    <3> QED BY <1>2, <3>1
  <2>2. \A i, j \in N : g[i] = g[j] => i = j
    <3> HIDE DEF g, N, P
    <3> QED BY <1>2
  <2> HIDE DEF g, N, P
  <2> QED BY <2>1, <2>2 DEF Injection, IsInjective
<1>5. g \in Surjection(N, P)
  <2>1. \A a \in P : \E i \in N : g[i] = a
    <3>1. ASSUME NEW a \in P PROVE g[Rank(s, a)] = a /\ Rank(s, a) \in N
      <4>1. Rank(s, a) \in N /\ f[a] = Rank(s, a)
        BY <1>3
      <4>2. g[Rank(s, a)] \in P /\ f[g[Rank(s, a)]] = Rank(s, a)
        <5> HIDE DEF g, N, P, f
        <5> QED BY <1>2, <1>3, <4>1
      <4>3. QED
        <5> HIDE DEF g, N, P, f
        <5> QED BY <1>1, <4>1, <4>2
    <3>2. QED
      <4> HIDE DEF g, N, P, f
      <4> QED BY <3>1
  <2> HIDE DEF g, N, P, f
  <2> QED BY <1>4, <2>1 DEF Injection, Surjection
<1>6. QED
  BY <1>4, <1>5 DEF Bijection

-----------------------------------------------------------------------------
(* Rounding and merging.                                                   *)

\* A time is rounded by half a nanosecond at most.
LEMMA Rounding ==
  ASSUME NEW t \in Nat
  PROVE  /\ ToNs(t) \in Nat
         /\ 2 * (Grain * ToNs(t)) <= 2 * t + Grain
         /\ 2 * t <= 2 * (Grain * ToNs(t)) + Grain
         /\ t >= Grain => ToNs(t) >= 1
<1>1. PICK g \in Nat : g = Grain /\ g > 0
  BY GrainAssumption
<1>2. PICK a, b \in Nat : a = t \div g /\ b = t % g
  BY <1>1
<1>3. t = g * a + b /\ b < g
  BY <1>1, <1>2
<1>4. PICK m \in Nat : m = g * a
  OBVIOUS
<1>5. g * (a + 1) = m + g
  <2>1. g * (a + 1) = g * a + g
    OBVIOUS
  <2>2. QED
    BY <1>4, <2>1
<1>6. PICK n \in Nat : n = ToNs(t)
  BY <1>1, <1>2 DEF ToNs
<1>7. (n = a /\ 2 * b <= g) \/ (n = a + 1 /\ 2 * b >= g)
  BY <1>1, <1>2, <1>6 DEF ToNs
<1>8. (g * n = m /\ 2 * b <= g) \/ (g * n = m + g /\ 2 * b >= g)
  BY <1>4, <1>5, <1>7
<1>9. PICK k \in Nat : k = g * n
  OBVIOUS
<1>10. 2 * k <= 2 * t + g /\ 2 * t <= 2 * k + g
  BY <1>1, <1>3, <1>4, <1>8, <1>9
<1>11. t >= g => n >= 1
  <2>1. a = 0 => g * a = 0
    OBVIOUS
  <2>2. t >= g => a # 0
    BY <1>1, <1>3, <2>1
  <2>3. QED
    BY <1>7, <2>2
<1>12. QED
  BY <1>1, <1>6, <1>9, <1>10, <1>11

\* An entry of a gate control list.
Entry == [gates : SUBSET TrafficClasses, ns : Nat]

\* One step of Merge.
Merged(out, e) ==
  IF e.ns <= 0 THEN out
  ELSE IF out # << >> /\ Last(out).gates = e.gates
  THEN Append(Front(out), [e EXCEPT !.ns = @ + Last(out).ns])
  ELSE Append(out, e)

\* Merge takes the entries one by one, first to last.
LEMMA MergeSteps ==
  ASSUME NEW E \in Seq(Entry)
  PROVE  \E m \in [0 .. Len(E) -> Seq(Entry)] :
           /\ m[0] = << >> /\ m[Len(E)] = Merge(E)
           /\ \A k \in 1 .. Len(E) : m[k] = Merged(m[k - 1], E[k])
<1> DEFINE D == DOMAIN E
           X == Seq(Entry)
           Body(g) == [t \in SUBSET D |->
                         IF t = {} THEN << >> ELSE Merged(g[t \ {Max(t)}], E[Max(t)])]
           pick == [t \in SUBSET D |-> Max(t)]
           step == [t \in SUBSET D |-> [x \in X |-> IF t = {} THEN << >> ELSE Merged(x, E[Max(t)])]]
<1>1. PICK n \in Nat : n = Len(E) /\ D = 1 .. n
  OBVIOUS
<1>2. IsFiniteSet(D) /\ \A t \in SUBSET D : IsFiniteSet(t) /\ t \subseteq Int
  <2>1. 1 \in Int /\ n \in Int
    OBVIOUS
  <2>2. IsFiniteSet(1 .. n)
    BY <2>1, FS_Interval
  <2>3. QED
    BY <1>1, <2>2, FS_Subset
<1>3. ASSUME NEW t \in SUBSET D, t # {} PROVE Max(t) \in t /\ \A x \in t : Max(t) >= x
  BY <1>2, <1>3, MaxIsAMember
<1>4. ASSUME NEW x \in X, NEW e \in Entry PROVE Merged(x, e) \in X
  <2>1. CASE x = << >> \/ Last(x).gates # e.gates \/ e.ns <= 0
    BY <2>1 DEF Merged
  <2>2. CASE x # << >> /\ Last(x).gates = e.gates /\ ~(e.ns <= 0)
    <3>1. Front(x) \in X /\ Last(x) \in Entry
      BY <2>2 DEF Front, Last
    <3>2. [e EXCEPT !.ns = @ + Last(x).ns] \in Entry
      <4>1. PICK v \in Nat : v = e.ns + Last(x).ns
        BY <3>1 DEF Entry
      <4>2. [e EXCEPT !.ns = v] \in Entry
        BY DEF Entry
      <4>3. QED
        BY <4>1, <4>2
    <3>3. QED
      BY <2>2, <3>1, <3>2 DEF Merged
  <2>3. QED
    BY <2>1, <2>2
<1>5. Merge(E) = (CHOOSE g : g = Body(g))[D]
  BY DEF Merge, FoldLeft, MapThenFoldSet, Merged
<1>6. Folding(D, X, << >>, pick, step)
  <2>1. \A t \in SUBSET D : t # {} => pick[t] \in t
    BY <1>3
  <2>2. ASSUME NEW t \in SUBSET D, NEW x \in X PROVE step[t][x] \in X
    <3>1. step[t][x] = IF t = {} THEN << >> ELSE Merged(x, E[Max(t)])
      OBVIOUS
    <3>2. t # {} => E[Max(t)] \in Entry
      BY <1>1, <1>3
    <3>3. t # {} => Merged(x, E[Max(t)]) \in X
      <4> HIDE DEF X
      <4> QED BY <1>4, <3>2
    <3> HIDE DEF step
    <3> QED BY <3>1, <3>3
  <2> HIDE DEF pick, step, D
  <2>3. << >> \in X
    OBVIOUS
  <2> HIDE DEF X
  <2> QED BY <1>2, <2>1, <2>2, <2>3 DEF Folding
<1>7. PICK g \in [SUBSET D -> X] : Folded(g, D, << >>, pick, step)
  <2> HIDE DEF pick, step, D, X
  <2> QED BY <1>6, FoldsExist
<1>8. g = Body(g)
  <2>1. ASSUME NEW t \in SUBSET D PROVE g[t] = Body(g)[t]
    <3>1. g[t] = IF t = {} THEN << >> ELSE step[t][g[t \ {pick[t]}]]
      BY <1>7 DEF Folded
    <3>2. g[t \ {pick[t]}] \in X /\ pick[t] = Max(t)
      <4>1. t \ {pick[t]} \in SUBSET D
        OBVIOUS
      <4>2. pick[t] = Max(t)
        OBVIOUS
      <4> HIDE DEF X, D, pick
      <4> QED BY <4>1, <4>2
    <3>3. \A x \in X : step[t][x] = IF t = {} THEN << >> ELSE Merged(x, E[Max(t)])
      OBVIOUS
    <3>4. Body(g)[t] = IF t = {} THEN << >> ELSE Merged(g[t \ {Max(t)}], E[Max(t)])
      OBVIOUS
    <3> HIDE DEF X, step, pick, Body, D
    <3> QED BY <3>1, <3>2, <3>3, <3>4
  <2>2. Body(g) = [t \in SUBSET D |-> Body(g)[t]]
    OBVIOUS
  <2> HIDE DEF Body, X, D
  <2> QED BY <2>1, <2>2
<1>9. PICK f : f = CHOOSE h : h = Body(h)
  OBVIOUS
<1>10. f = Body(f)
  <2> HIDE DEF Body
  <2> QED BY <1>8, <1>9
<1>11. \A t \in SUBSET D : f[t] = IF t = {} THEN << >> ELSE Merged(f[t \ {Max(t)}], E[Max(t)])
  <2>1. \A t \in SUBSET D :
          Body(f)[t] = IF t = {} THEN << >> ELSE Merged(f[t \ {Max(t)}], E[Max(t)])
    OBVIOUS
  <2> HIDE DEF Body, D
  <2> QED BY <1>10, <2>1
<1> DEFINE m == [k \in 0 .. n |-> f[1 .. k]]
<1>12. m[0] = << >>
  <2>1. {} \in SUBSET D /\ 1 .. 0 = {}
    OBVIOUS
  <2>2. m[0] = f[{}]
    BY <2>1
  <2> HIDE DEF m, D
  <2> QED BY <1>11, <2>1, <2>2
<1>13. m[n] = Merge(E)
  <2>1. f[D] = Merge(E)
    <3> HIDE DEF Body, D
    <3> QED BY <1>5, <1>9
  <2>2. m[n] = f[1 .. n]
    OBVIOUS
  <2> HIDE DEF m, D
  <2> QED BY <1>1, <2>1, <2>2
<1>14. ASSUME NEW k \in 1 .. n PROVE m[k] = Merged(m[k - 1], E[k])
  <2>1. PICK t : t = 1 .. k
    OBVIOUS
  <2>2. t \in SUBSET D /\ t # {} /\ k \in t /\ \A x \in t : x <= k
    BY <1>1, <2>1
  <2>3. Max(t) = k
    <3>1. Max(t) \in t /\ Max(t) >= k /\ Max(t) <= k
      <4> HIDE DEF D
      <4> QED BY <1>3, <2>2
    <3>2. Max(t) \in Int
      BY <2>1, <3>1
    <3>3. QED
      BY <3>1, <3>2
  <2>4. t \ {k} = 1 .. (k - 1)
    BY <2>1
  <2>5. f[t] = Merged(f[t \ {k}], E[k])
    <3> HIDE DEF D
    <3> QED BY <1>11, <2>2, <2>3
  <2>6. m[k] = f[t] /\ m[k - 1] = f[t \ {k}]
    <3>1. PICK j : j = k - 1
      OBVIOUS
    <3>2. k \in 0 .. n /\ j \in 0 .. n /\ t \ {k} = 1 .. j
      BY <2>4, <3>1
    <3>3. m[k] = f[1 .. k] /\ m[j] = f[1 .. j]
      BY <3>2
    <3> HIDE DEF m
    <3> QED BY <2>1, <3>1, <3>2, <3>3
  <2> HIDE DEF m
  <2> QED BY <2>5, <2>6
<1>15. \A k \in 0 .. n : m[k] \in X
  <2> DEFINE G == { k \in Nat : k <= n => m[k] \in X }
  <2>1. 0 \in G
    <3>1. << >> \in X
      OBVIOUS
    <3> HIDE DEF m, X
    <3> QED BY <1>12, <3>1
  <2>2. ASSUME NEW k \in Nat, k \in G PROVE k + 1 \in G
    <3>1. CASE k + 1 <= n
      <4>1. m[k] \in X /\ k + 1 \in 1 .. n /\ (k + 1) - 1 = k
        BY <2>2, <3>1
      <4>2. E[k + 1] \in Entry
        BY <1>1, <4>1
      <4>3. m[k + 1] = Merged(m[k], E[k + 1])
        <5> HIDE DEF m
        <5> QED BY <1>14, <4>1
      <4>4. m[k + 1] \in X
        <5> HIDE DEF m, X
        <5> QED BY <1>4, <4>1, <4>2, <4>3
      <4> HIDE DEF m, X
      <4> QED BY <4>4
    <3>2. QED
      <4> HIDE DEF m, X
      <4> QED BY <3>1
  <2>3. Nat \subseteq G
    <3> HIDE DEF G
    <3> QED BY <2>1, <2>2, NumberInduction
  <2> HIDE DEF m, X
  <2> QED BY <2>3
<1>16. m \in [0 .. n -> X]
  <2>1. m = [k \in 0 .. n |-> m[k]]
    OBVIOUS
  <2> HIDE DEF m, X
  <2> QED BY <1>15, <2>1
<1>17. QED
  <2> HIDE DEF m
  <2> QED BY <1>1, <1>12, <1>13, <1>14, <1>16

\* T has the entries of E that last, each once.
Kept(E, T) ==
  \E h \in Bijection(1 .. Len(T), { i \in DOMAIN E : E[i].ns > 0 }) :
    \A j \in 1 .. Len(T) : T[j] = E[h[j]]

\* Entries that open different gates are kept, but for the empty ones.
LEMMA MergeKeeps ==
  ASSUME NEW E \in Seq(Entry),
         \A i, j \in DOMAIN E : E[i].gates = E[j].gates => i = j
  PROVE  Merge(E) \in Seq(Entry) /\ Kept(E, Merge(E))
<1>1. PICK n \in Nat : n = Len(E) /\ DOMAIN E = 1 .. n
  OBVIOUS
<1>2. PICK m \in [0 .. n -> Seq(Entry)] :
        /\ m[0] = << >> /\ m[n] = Merge(E)
        /\ \A k \in 1 .. n : m[k] = Merged(m[k - 1], E[k])
  BY <1>1, MergeSteps
<1> DEFINE J(k) == { i \in 1 .. k : E[i].ns > 0 }
           Keeps(h, k) ==
             /\ h \in [1 .. Len(m[k]) -> J(k)]
             /\ \A a, b \in 1 .. Len(m[k]) : h[a] = h[b] => a = b
             /\ \A i \in J(k) : \E a \in 1 .. Len(m[k]) : h[a] = i
             /\ \A a \in 1 .. Len(m[k]) : m[k][a] = E[h[a]]
           G == { k \in Nat : k <= n => \E h : Keeps(h, k) }
<1>3. 0 \in G
  <2>1. J(0) = {} /\ Len(m[0]) = 0
    BY <1>2
  <2>2. Keeps([a \in {} |-> a], 0)
    <3>1. 1 .. 0 = {}
      OBVIOUS
    <3> HIDE DEF J
    <3> QED BY <2>1, <3>1
  <2> HIDE DEF Keeps
  <2> QED BY <2>2
<1>4. ASSUME NEW k \in Nat, k \in G PROVE k + 1 \in G
  <2> SUFFICES ASSUME k + 1 <= n PROVE \E h : Keeps(h, k + 1)
    <3> HIDE DEF Keeps
    <3> QED OBVIOUS
  <2>1. PICK h : Keeps(h, k)
    <3> HIDE DEF Keeps
    <3> QED BY <1>4
  <2>2. k \in 0 .. n /\ k + 1 \in 1 .. n /\ k + 1 \in 0 .. n /\ (k + 1) - 1 = k
    OBVIOUS
  <2>3. PICK out, e : out = m[k] /\ e = E[k + 1]
    OBVIOUS
  <2>4. out \in Seq(Entry) /\ e \in Entry /\ m[k + 1] = Merged(out, e)
    BY <1>1, <1>2, <2>2, <2>3
  <2>5. PICK l \in Nat : l = Len(out)
    BY <2>4
  <2>6. \A i : i \in J(k) => i \in J(k + 1) /\ i <= k /\ i \in 1 .. n
    BY <2>2
  <2>7. \A i \in J(k + 1) : i \in J(k) \/ i = k + 1
    OBVIOUS
  <2>8. CASE e.ns <= 0
    <3>1. m[k + 1] = out
      BY <2>4, <2>8 DEF Merged
    <3>2. J(k + 1) = J(k)
      <4>1. k + 1 \notin J(k + 1)
        BY <2>3, <2>4, <2>8 DEF Entry
      <4> HIDE DEF J
      <4> QED BY <2>6, <2>7, <4>1
    <3>3. Keeps(h, k + 1)
      <4> HIDE DEF J
      <4> QED BY <2>1, <2>3, <3>1, <3>2
    <3> HIDE DEF Keeps
    <3> QED BY <3>3
  <2>9. CASE ~(e.ns <= 0)
    <3>1. ~(out # << >> /\ Last(out).gates = e.gates)
      <4> SUFFICES ASSUME out # << >>, Last(out).gates = e.gates PROVE FALSE
        OBVIOUS
      <4>1. l \in 1 .. l
        BY <2>4, <2>5
      <4>2. h[l] \in J(k) /\ out[l] = E[h[l]]
        <5> HIDE DEF J
        <5> QED BY <2>1, <2>3, <2>5, <4>1
      <4>3. E[h[l]].gates = E[k + 1].gates
        BY <2>3, <2>5, <4>2 DEF Last
      <4>4. h[l] \in 1 .. n /\ h[l] <= k
        BY <2>6, <4>2
      <4>5. h[l] = k + 1
        BY <1>1, <2>2, <4>3, <4>4
      <4>6. QED
        BY <4>4, <4>5
    <3>2. m[k + 1] = Append(out, e)
      BY <2>4, <2>9, <3>1 DEF Merged
    <3>3. /\ Len(m[k + 1]) = l + 1
          /\ \A a \in 1 .. l : m[k + 1][a] = out[a]
          /\ m[k + 1][l + 1] = e
      BY <2>4, <2>5, <3>2
    <3>4. k + 1 \in J(k + 1)
      BY <2>2, <2>3, <2>4, <2>9 DEF Entry
    <3> DEFINE g == [a \in 1 .. l + 1 |-> IF a = l + 1 THEN k + 1 ELSE h[a]]
    <3>5. \A a \in 1 .. l + 1 : a = l + 1 \/ a \in 1 .. l
      OBVIOUS
    <3>6. /\ \A a \in 1 .. l : a \in 1 .. l + 1 /\ a # l + 1 /\ g[a] = h[a] /\ h[a] \in J(k)
          /\ g[l + 1] = k + 1 /\ l + 1 \in 1 .. l + 1
      <4>1. \A a \in 1 .. l : a \in 1 .. l + 1 /\ a # l + 1
        OBVIOUS
      <4>2. \A a \in 1 .. l : h[a] \in J(k)
        <5> HIDE DEF J
        <5> QED BY <2>1, <2>3, <2>5
      <4> HIDE DEF J
      <4> QED BY <4>1, <4>2
    <3>7. g \in [1 .. l + 1 -> J(k + 1)]
      <4>1. g = [a \in 1 .. l + 1 |-> g[a]]
        OBVIOUS
      <4> HIDE DEF J, g
      <4>2. \A a \in 1 .. l + 1 : g[a] \in J(k + 1)
        BY <2>6, <3>4, <3>5, <3>6
      <4> QED BY <4>1, <4>2
    <3>8. ASSUME NEW a \in 1 .. l + 1, NEW b \in 1 .. l + 1, g[a] = g[b] PROVE a = b
      <4>1. k + 1 \notin J(k)
        OBVIOUS
      <4>2. \A c, d \in 1 .. l : h[c] = h[d] => c = d
        <5> HIDE DEF J, g
        <5> QED BY <2>1, <2>3, <2>5
      <4> HIDE DEF J, g
      <4>3. CASE a = l + 1
        BY <3>5, <3>6, <3>8, <4>1, <4>3
      <4>4. CASE b = l + 1
        BY <3>5, <3>6, <3>8, <4>1, <4>4, ZenonT(30)
      <4>5. CASE a \in 1 .. l /\ b \in 1 .. l
        BY <3>6, <3>8, <4>2, <4>5
      <4> QED BY <3>5, <4>3, <4>4, <4>5
    <3>9. \A i \in J(k + 1) : \E a \in 1 .. l + 1 : g[a] = i
      <4> HIDE DEF J, g
      <4> QED BY <2>1, <2>3, <2>5, <2>7, <3>6, ZenonT(30)
    <3>10. \A a \in 1 .. l + 1 : m[k + 1][a] = E[g[a]]
      <4> HIDE DEF J, g
      <4> QED BY <2>1, <2>3, <2>5, <3>3, <3>5, <3>6
    <3>11. Keeps(g, k + 1)
      <4> HIDE DEF J, g
      <4> QED BY <3>3, <3>7, <3>8, <3>9, <3>10
    <3> HIDE DEF Keeps
    <3> QED BY <3>11
  <2>10. QED
    BY <2>8, <2>9
<1>5. Nat \subseteq G
  <2> HIDE DEF G
  <2> QED BY <1>3, <1>4, NumberInduction
<1>6. PICK h : Keeps(h, n)
  <2> HIDE DEF Keeps
  <2> QED BY <1>5
<1>7. n \in 0 .. n
  OBVIOUS
<1>8. Merge(E) \in Seq(Entry)
  BY <1>2, <1>7
<1>9. J(n) = { i \in DOMAIN E : E[i].ns > 0 }
  BY <1>1
<1>10. h \in Bijection(1 .. Len(Merge(E)), J(n))
  <2> HIDE DEF J
  <2> QED BY <1>2, <1>6 DEF Bijection, Injection, IsInjective, Surjection
<1>11. \A j \in 1 .. Len(Merge(E)) : Merge(E)[j] = E[h[j]]
  <2> HIDE DEF J
  <2> QED BY <1>2, <1>6
<1>12. QED
  <2> HIDE DEF J
  <2> QED BY <1>8, <1>9, <1>10, <1>11 DEF Kept

-----------------------------------------------------------------------------
(* The table of a port.                                                    *)

\* The time in use is the sum of the windows.
LEMMA UsedIsSum ==
  ASSUME NEW s \in Seq(Streams), NEW p \in PortRates
  PROVE  /\ Used(s, p) = SumOver([tc \in Protected(s) |-> Window(s, tc, p)], Protected(s))
         /\ Used(s, p) \in Nat
<1> DEFINE S == Protected(s)
           h == [tc \in S |-> Window(s, tc, p)]
           Body(g) == [t \in SUBSET S |->
                         IF t = {} THEN 0
                         ELSE Window(s, CHOOSE tc \in t : TRUE, p)
                                + g[t \ {CHOOSE tc \in t : TRUE}]]
<1>1. IsFiniteSet(S) /\ \A tc \in S : h[tc] \in Nat /\ h[tc] \in Int
  BY ProtectedFacts, WindowFacts
<1>2. ASSUME NEW g PROVE Body(g) = [t \in SUBSET S |-> Added(g, h, t)]
  <2>1. ASSUME NEW t \in SUBSET S, t # {}
        PROVE  h[CHOOSE tc \in t : TRUE] = Window(s, CHOOSE tc \in t : TRUE, p)
    BY <2>1
  <2>2. \A t \in SUBSET S : Body(g)[t] = Added(g, h, t)
    <3> HIDE DEF h, S
    <3> QED BY <2>1 DEF Added
  <2> HIDE DEF h, S
  <2> QED BY <2>2
<1>3. PICK f : f = CHOOSE g : g = Body(g)
  OBVIOUS
<1>4. Used(s, p) = f[S]
  BY <1>3 DEF Used, MapThenSumSet, MapThenFoldSet
<1> HIDE DEF h, S
<1>5. PICK g : AddsUp(g, h, S)
  BY <1>1, SumsExist
<1>6. g = Body(g)
  <2> HIDE DEF Body
  <2> QED BY <1>2, <1>5 DEF AddsUp
<1> HIDE DEF Body
<1>7. AddsUp(f, h, S)
  BY <1>2, <1>3, <1>6 DEF AddsUp
<1>8. S \in SUBSET S
  OBVIOUS
<1>9. f[S] = SumOver(h, S)
  BY <1>1, <1>7, <1>8, SumIs
<1>10. SumOver(h, S) \in Nat
  BY <1>1, SumNatural
<1>11. QED
  BY <1>4, <1>9, <1>10 DEF h, S

\* How long the i-th entry lasts, before it is rounded.
Lasts(s, p, i) ==
  IF i <= Cardinality(Protected(s)) THEN Window(s, Ranked(s, i), p)
  ELSE CycleTicks(s) - Used(s, p)

\* The entries E of a schedule: one for each of n protected classes, most urgent
\* first, and one for all the others.
Schedules(s, p, n, E) ==
  /\ n = Cardinality(Protected(s)) /\ n >= 1
  /\ E = Entries(s, p) /\ DOMAIN E = 1 .. n + 1
  /\ \A i, j \in 1 .. n + 1 : E[i].gates = E[j].gates => i = j
  /\ \A i \in 1 .. n + 1 : E[i].ns = ToNs(Lasts(s, p, i)) /\ Lasts(s, p, i) \in Nat
  /\ \A i \in 1 .. n : E[i].gates = {Ranked(s, i)} /\ Ranked(s, i) \in Protected(s)
  /\ E[n + 1].gates = TrafficClasses \ Protected(s)
  /\ \A tc \in Protected(s) : \E i \in 1 .. n : Ranked(s, i) = tc

\* Each opens gates of its own, for a time that rounds to a whole number of
\* nanoseconds.
LEMMA EntryFacts ==
  ASSUME NEW s \in Seq(Streams), Scheduled(s) # {}, NEW p \in PortRates,
         Used(s, p) <= CycleTicks(s)
  PROVE  \E n \in Nat, E \in Seq(Entry) : Schedules(s, p, n, E)
<1>1. PICK n \in Nat : n = Cardinality(Protected(s)) /\ n >= 1
  BY ProtectedFacts
<1>2. PICK E : E = Entries(s, p)
  OBVIOUS
<1> DEFINE g == [i \in 1 .. n |-> Ranked(s, i)]
<1>3. /\ \A i \in 1 .. n : Ranked(s, i) \in Protected(s)
      /\ \A i, j \in 1 .. n : Ranked(s, i) = Ranked(s, j) => i = j
      /\ \A tc \in Protected(s) : \E i \in 1 .. n : Ranked(s, i) = tc
  <2>1. g \in Bijection(1 .. n, Protected(s))
    BY <1>1, RankedNumbers
  <2>2. /\ g \in [1 .. n -> Protected(s)]
        /\ \A i, j \in 1 .. n : g[i] = g[j] => i = j
        /\ \A tc \in Protected(s) : \E i \in 1 .. n : g[i] = tc
    <3> HIDE DEF g
    <3> QED BY <2>1 DEF Bijection, Injection, IsInjective, Surjection
  <2>3. \A i \in 1 .. n : g[i] = Ranked(s, i) /\ g[i] \in Protected(s)
    BY <2>2
  <2> HIDE DEF g
  <2> QED BY <2>2, <2>3
<1> DEFINE e(i) == IF i <= n
                   THEN [gates |-> {Ranked(s, i)}, ns |-> ToNs(Window(s, Ranked(s, i), p))]
                   ELSE [gates |-> TrafficClasses \ Protected(s),
                         ns    |-> ToNs(CycleTicks(s) - Used(s, p))]
<1>4. E = [i \in 1 .. n + 1 |-> e(i)]
  BY <1>1, <1>2 DEF Entries
<1>5. \A i \in 1 .. n + 1 : E[i] = e(i)
  <2> HIDE DEF e
  <2> QED BY <1>4
<1>6. /\ DOMAIN E = 1 .. n + 1
      /\ \A i \in 1 .. n : /\ E[i].gates = {Ranked(s, i)}
                            /\ E[i].ns = ToNs(Window(s, Ranked(s, i), p))
      /\ E[n + 1].gates = TrafficClasses \ Protected(s)
      /\ E[n + 1].ns = ToNs(CycleTicks(s) - Used(s, p))
      /\ \A i \in 1 .. n + 1 : E[i] = [gates |-> E[i].gates, ns |-> E[i].ns]
  <2>1. ASSUME NEW i \in 1 .. n
        PROVE  E[i].gates = {Ranked(s, i)} /\ E[i].ns = ToNs(Window(s, Ranked(s, i), p))
    <3>1. PICK u, v : u = {Ranked(s, i)} /\ v = ToNs(Window(s, Ranked(s, i), p))
      OBVIOUS
    <3>2. i \in 1 .. n + 1 /\ e(i) = [gates |-> u, ns |-> v]
      BY <3>1
    <3>3. E[i] = [gates |-> u, ns |-> v]
      <4> HIDE DEF e
      <4> QED BY <1>5, <3>2
    <3>4. E[i].gates = u /\ E[i].ns = v
      BY <3>3
    <3>5. QED
      BY <3>1, <3>4
  <2>2. /\ E[n + 1].gates = TrafficClasses \ Protected(s)
        /\ E[n + 1].ns = ToNs(CycleTicks(s) - Used(s, p))
    <3>1. PICK u, v : u = TrafficClasses \ Protected(s) /\ v = ToNs(CycleTicks(s) - Used(s, p))
      OBVIOUS
    <3>2. n + 1 \in 1 .. n + 1 /\ e(n + 1) = [gates |-> u, ns |-> v]
      BY <3>1
    <3>3. E[n + 1] = [gates |-> u, ns |-> v]
      <4> HIDE DEF e
      <4> QED BY <1>5, <3>2
    <3>4. E[n + 1].gates = u /\ E[n + 1].ns = v
      BY <3>3
    <3>5. QED
      BY <3>1, <3>4
  <2>3. ASSUME NEW i \in 1 .. n + 1 PROVE E[i] = [gates |-> E[i].gates, ns |-> E[i].ns]
    <3>1. PICK v : v = e(i)
      OBVIOUS
    <3>2. v = [gates |-> v.gates, ns |-> v.ns]
      BY <3>1
    <3>3. QED
      BY <1>5, <3>1, <3>2
  <2>4. DOMAIN E = 1 .. n + 1
    BY <1>4
  <2>5. QED
    BY <2>1, <2>2, <2>3, <2>4
<1>7. E = [i \in 1 .. n + 1 |-> E[i]]
  BY <1>4
<1> HIDE DEF e
<1>8. \A i \in 1 .. n + 1 : i \in 1 .. n \/ i = n + 1
  OBVIOUS
<1>9. \A i \in 1 .. n : Window(s, Ranked(s, i), p) \in Nat
  BY WindowFacts
<1>10. CycleTicks(s) - Used(s, p) \in Nat
  <2>1. PICK c, k \in Nat : c = Cycle(s) /\ k = Grain
    BY CycleFacts, GrainAssumption
  <2>2. (c * 1000) * k \in Nat
    OBVIOUS
  <2>3. CycleTicks(s) \in Nat
    BY <2>1, <2>2 DEF CycleTicks
  <2>4. Used(s, p) \in Nat
    BY UsedIsSum
  <2>5. QED
    BY <2>3, <2>4
<1>11. ASSUME NEW i \in 1 .. n + 1
      PROVE  E[i].ns = ToNs(Lasts(s, p, i)) /\ Lasts(s, p, i) \in Nat
  <2>1. CASE i \in 1 .. n
    <3>1. Lasts(s, p, i) = Window(s, Ranked(s, i), p)
      BY <1>1, <2>1 DEF Lasts
    <3>2. QED
      BY <1>6, <1>9, <2>1, <3>1
  <2>2. CASE i = n + 1
    <3>1. Lasts(s, p, i) = CycleTicks(s) - Used(s, p)
      BY <1>1, <2>2 DEF Lasts
    <3>2. QED
      BY <1>6, <1>10, <2>2, <3>1
  <2>3. QED
    BY <2>1, <2>2
<1>12. \A i \in 1 .. n + 1 : E[i] \in Entry
  <2>1. ASSUME NEW i \in 1 .. n + 1 PROVE E[i] \in Entry
    <3>1. E[i].ns \in Nat
      BY <1>11, Rounding
    <3>2. E[i].gates \in SUBSET TrafficClasses /\ E[i] = [gates |-> E[i].gates, ns |-> E[i].ns]
      <4>1. CASE i \in 1 .. n
        BY <1>3, <1>6, <4>1, ProtectedFacts
      <4>2. CASE i = n + 1
        BY <1>6, <4>2
      <4>3. QED
        BY <1>8, <4>1, <4>2
    <3>3. QED
      BY <3>1, <3>2 DEF Entry
  <2>2. QED
    BY <2>1
<1>13. E \in Seq(Entry)
  <2>1. n + 1 \in Nat
    OBVIOUS
  <2>2. QED
    BY <1>12, <1>7, <2>1
<1>14. ASSUME NEW i \in 1 .. n + 1, NEW j \in 1 .. n + 1, E[i].gates = E[j].gates PROVE i = j
  <2>1. ASSUME NEW a \in 1 .. n PROVE E[a].gates = {Ranked(s, a)} /\ E[a].gates # E[n + 1].gates
    <3>1. E[a].gates = {Ranked(s, a)} /\ Ranked(s, a) \in Protected(s)
      BY <1>3, <1>6
    <3>2. Ranked(s, a) \in E[a].gates /\ Ranked(s, a) \notin E[n + 1].gates
      BY <1>6, <3>1
    <3>3. QED
      BY <3>1, <3>2
  <2>2. QED
    BY <1>3, <1>8, <1>14, <2>1, ZenonT(30)
<1>15. QED
  BY <1>1, <1>2, <1>3, <1>6, <1>11, <1>13, <1>14 DEF Schedules

\* The table the bridge is given has the entries that last, each once.
LEMMA TableFacts ==
  ASSUME ConfigurationInvariant, Schedulable
  PROVE  /\ q \in Seq(Streams) /\ port \in PortRates /\ Scheduled(q) # {}
         /\ Used(q, port) <= CycleTicks(q)
         /\ Table.cycle = 1000 * Cycle(q)
         /\ Table.entries \in Seq(Entry)
         /\ Kept(Entries(q, port), Table.entries)
<1>1. /\ q \in Seq(Streams) /\ port \in PortRates /\ Scheduled(q) # {}
      /\ Used(q, port) <= CycleTicks(q)
  BY DEF ConfigurationInvariant, Schedulable, Scheduled, WindowsFit
<1>2. PICK E \in Seq(Entry) :
        E = Entries(q, port) /\ \A i, j \in DOMAIN E : E[i].gates = E[j].gates => i = j
  <2>1. PICK n \in Nat, E \in Seq(Entry) : Schedules(q, port, n, E)
    BY <1>1, EntryFacts
  <2>2. QED
    BY <2>1 DEF Schedules
<1>3. Table.entries = Merge(E) /\ Table.cycle = 1000 * Cycle(q)
  <2>1. GateControlList(q, port) = [enabled |-> TRUE, cycle |-> 1000 * Cycle(q), entries |-> E]
    BY <1>1, <1>2 DEF GateControlList
  <2>2. QED
    BY <2>1 DEF Table, GateParameterTable
<1>4. Merge(E) \in Seq(Entry) /\ Kept(E, Merge(E))
  BY <1>2, MergeKeeps
<1>5. QED
  BY <1>1, <1>2, <1>3, <1>4

\* The windows of the protected classes outlast rounding; so does the rest of
\* the cycle, if it is a nanosecond or more.
LEMMA WindowsLast ==
  ASSUME NEW s \in Seq(Streams), Scheduled(s) # {}, NEW p \in PortRates,
         Used(s, p) <= CycleTicks(s)
  PROVE  /\ \A i \in 1 .. Cardinality(Protected(s)) : Entries(s, p)[i].ns > 0
         /\ Used(s, p) + Grain <= CycleTicks(s) =>
              Entries(s, p)[Cardinality(Protected(s)) + 1].ns > 0
<1>0. PICK n \in Nat, E \in Seq(Entry) : Schedules(s, p, n, E)
  BY EntryFacts
<1>1. /\ n = Cardinality(Protected(s)) /\ E = Entries(s, p)
      /\ \A i \in 1 .. n + 1 : E[i].ns = ToNs(Lasts(s, p, i)) /\ Lasts(s, p, i) \in Nat
  BY <1>0 DEF Schedules
<1>2. ASSUME NEW i \in 1 .. n + 1, Lasts(s, p, i) >= Grain PROVE E[i].ns > 0
  <2>1. PICK t \in Nat : t = Lasts(s, p, i)
    BY <1>1
  <2>2. ToNs(t) \in Nat /\ ToNs(t) >= 1
    BY <1>2, <2>1, Rounding
  <2>3. E[i].ns = ToNs(t)
    BY <1>1, <2>1
  <2>4. QED
    BY <2>2, <2>3
<1>3. ASSUME NEW i \in 1 .. n PROVE E[i].ns > 0
  <2>1. i \in 1 .. n + 1 /\ i <= n
    OBVIOUS
  <2>2. Lasts(s, p, i) = Window(s, Ranked(s, i), p)
    BY <1>1, <2>1 DEF Lasts
  <2>3. PICK tc : tc = Ranked(s, i)
    OBVIOUS
  <2>4. Window(s, tc, p) \in Nat /\ Window(s, tc, p) >= GuardTicks(p)
    BY WindowFacts
  <2>5. GuardTicks(p) \in Nat /\ GuardTicks(p) >= Grain /\ Grain \in Nat
    BY TickFacts, GuardAssumption, GrainAssumption
  <2>6. Lasts(s, p, i) >= Grain
    BY <2>2, <2>3, <2>4, <2>5
  <2>7. QED
    BY <1>2, <2>1, <2>6
<1>4. ASSUME Used(s, p) + Grain <= CycleTicks(s) PROVE E[n + 1].ns > 0
  <2>1. n + 1 \in 1 .. n + 1 /\ ~(n + 1 <= n)
    OBVIOUS
  <2>2. Lasts(s, p, n + 1) = CycleTicks(s) - Used(s, p)
    BY <1>1, <2>1 DEF Lasts
  <2>3. Used(s, p) \in Nat /\ Lasts(s, p, n + 1) \in Nat /\ Grain \in Nat
    <3>1. Used(s, p) \in Nat
      BY UsedIsSum
    <3>2. QED
      BY <1>1, <2>1, <3>1, GrainAssumption
  <2>4. CycleTicks(s) \in Nat
    BY CycleFacts, GrainAssumption DEF CycleTicks
  <2>5. Lasts(s, p, n + 1) >= Grain
    BY <1>4, <2>2, <2>3, <2>4
  <2>6. QED
    BY <1>2, <2>1, <2>5
<1>5. QED
  BY <1>1, <1>3, <1>4

\* Each protected class has one window, to itself; the other classes share
\* another, if a nanosecond is left of the cycle (mapper.py:384-401).
THEOREM GatesPartitionTheCycle == Spec => []GatesPartitionCycle
<1>1. ConfigurationInvariant => GatesPartitionCycle
  <2> SUFFICES ASSUME ConfigurationInvariant, Schedulable PROVE GatesPartitionCycle
    BY DEF GatesPartitionCycle
  <2>1. /\ q \in Seq(Streams) /\ port \in PortRates /\ Scheduled(q) # {}
        /\ Used(q, port) <= CycleTicks(q)
    BY TableFacts
  <2>0. PICK n \in Nat, E \in Seq(Entry) : Schedules(q, port, n, E)
    BY <2>1, EntryFacts
  <2>2. /\ n = Cardinality(Protected(q)) /\ n >= 1
        /\ E = Entries(q, port) /\ DOMAIN E = 1 .. n + 1
        /\ \A i \in 1 .. n : E[i].gates = {Ranked(q, i)} /\ Ranked(q, i) \in Protected(q)
        /\ E[n + 1].gates = TrafficClasses \ Protected(q)
        /\ \A tc \in Protected(q) : \E i \in 1 .. n : Ranked(q, i) = tc
        /\ \A i, j \in 1 .. n + 1 : E[i].gates = E[j].gates => i = j
    BY <2>0 DEF Schedules
  <2>3. /\ \A i \in 1 .. n : E[i].ns > 0
        /\ Used(q, port) + Grain <= CycleTicks(q) => E[n + 1].ns > 0
    BY <2>1, <2>2, WindowsLast
  <2>4. PICK T \in Seq(Entry) : T = Table.entries
    BY TableFacts
  <2> DEFINE J == { i \in 1 .. n + 1 : E[i].ns > 0 }
  <2>5. PICK h \in Bijection(1 .. Len(T), J) : \A j \in 1 .. Len(T) : T[j] = E[h[j]]
    <3>1. Kept(E, T)
      BY <2>2, <2>4, TableFacts
    <3>2. J = { i \in DOMAIN E : E[i].ns > 0 }
      BY <2>2
    <3> HIDE DEF J
    <3> QED BY <3>1, <3>2 DEF Kept
  <2>6. /\ \A j \in 1 .. Len(T) : h[j] \in J
        /\ \A a, b \in 1 .. Len(T) : h[a] = h[b] => a = b
        /\ \A i \in J : \E j \in 1 .. Len(T) : h[j] = i
    <3> HIDE DEF J
    <3> QED BY DEF Bijection, Injection, IsInjective, Surjection
  <2>7. \A i \in J : i \in 1 .. n \/ i = n + 1
    OBVIOUS
  <2>8. DOMAIN T = 1 .. Len(T)
    BY <2>4
  <2>9. ASSUME NEW tc, NEW i \in J, \A k \in J : tc \in E[k].gates <=> k = i
        PROVE  \E j \in DOMAIN Table.entries : OpenFor(tc) = {j} /\ Table.entries[j].gates = E[i].gates
    <3>1. PICK j \in 1 .. Len(T) : h[j] = i
      <4> HIDE DEF J
      <4> QED BY <2>6
    <3>2. \A k \in 1 .. Len(T) : tc \in T[k].gates <=> k = j
      <4> HIDE DEF J
      <4> QED BY <2>5, <2>6, <2>9, <3>1
    <3>3. OpenFor(tc) = {j}
      <4> HIDE DEF J
      <4> QED BY <2>4, <2>8, <3>2 DEF OpenFor
    <3>4. T[j].gates = E[i].gates
      <4> HIDE DEF J
      <4> QED BY <2>5, <3>1
    <3>5. QED
      <4> HIDE DEF J
      <4> QED BY <2>4, <2>8, <3>3, <3>4
  <2>10. ASSUME NEW tc \in Protected(q)
         PROVE  \E j \in DOMAIN Table.entries : OpenFor(tc) = {j} /\ Table.entries[j].gates = {tc}
    <3>1. PICK i \in 1 .. n : Ranked(q, i) = tc
      BY <2>2
    <3>2. i \in J /\ E[i].gates = {tc}
      BY <2>2, <2>3, <3>1
    <3>3. ASSUME NEW k \in J, tc \in E[k].gates PROVE k = i
      <4>1. k # n + 1
        BY <2>2, <3>3
      <4>2. k \in 1 .. n /\ E[k].gates = {Ranked(q, k)}
        BY <2>2, <2>7, <4>1
      <4>3. E[k].gates = E[i].gates
        BY <3>2, <3>3, <4>2
      <4>4. k \in 1 .. n + 1 /\ i \in 1 .. n + 1
        OBVIOUS
      <4> HIDE DEF J
      <4> QED BY <2>2, <4>3, <4>4
    <3>4. \A k \in J : tc \in E[k].gates <=> k = i
      <4> HIDE DEF J
      <4> QED BY <3>2, <3>3
    <3>5. \E j \in DOMAIN Table.entries : OpenFor(tc) = {j} /\ Table.entries[j].gates = E[i].gates
      <4> HIDE DEF J
      <4> QED BY <2>9, <3>2, <3>4
    <3> HIDE DEF J
    <3> QED BY <3>2, <3>5
  <2>11. ASSUME Used(q, port) + Grain <= CycleTicks(q), NEW tc \in TrafficClasses \ Protected(q)
         PROVE  Cardinality(OpenFor(tc)) = 1
    <3>1. n + 1 \in J
      BY <2>3, <2>11
    <3>2. \A k \in J : tc \in E[k].gates <=> k = n + 1
      <4> HIDE DEF J
      <4> QED BY <2>2, <2>7
    <3>3. PICK j : OpenFor(tc) = {j}
      <4> HIDE DEF J
      <4> QED BY <2>9, <3>1, <3>2
    <3>4. QED
      BY <3>3, FS_Singleton
  <2>12. QED
    BY <2>10, <2>11 DEF GatesPartitionCycle
<1>2. QED
  BY <1>1, ConfigurationCorrect, PTL

\* Before they are rounded, the entries last a cycle.
LEMMA EntriesFillCycle ==
  ASSUME NEW s \in Seq(Streams), Scheduled(s) # {}, NEW p \in PortRates,
         Used(s, p) <= CycleTicks(s), NEW n \in Nat, n = Cardinality(Protected(s))
  PROVE  SumOver([i \in 1 .. n + 1 |-> Lasts(s, p, i)], 1 .. n + 1) = CycleTicks(s)
<1> DEFINE N == 1 .. n
           S == 1 .. n + 1
           t == [i \in S |-> Lasts(s, p, i)]
           P == Protected(s)
           w == [tc \in P |-> Window(s, tc, p)]
           f == [i \in N |-> Ranked(s, i)]
<1>1. PICK m \in Nat, E \in Seq(Entry) : Schedules(s, p, m, E)
  BY EntryFacts
<1>2. \A i \in S : Lasts(s, p, i) \in Nat
  BY <1>1 DEF Schedules
<1>3. IsFiniteSet(N) /\ IsFiniteSet(S)
  <2>1. 1 \in Int /\ n \in Int /\ n + 1 \in Int
    OBVIOUS
  <2>2. QED
    BY <2>1, FS_Interval
<1>4. n + 1 \in S /\ S \ {n + 1} = N /\ \A i \in S : t[i] \in Int
  BY <1>2
<1>5. SumOver(t, S) = t[n + 1] + SumOver(t, N)
  <2> HIDE DEF t, S, N
  <2> QED BY <1>3, <1>4, SumAdd
<1>6. SumOver(t, N) = SumOver(w, P)
  <2>1. f \in Bijection(N, P)
    BY RankedNumbers
  <2>2. ASSUME NEW i \in N PROVE w[f[i]] \in Int /\ t[i] = w[f[i]]
    <3>1. i \in S /\ i <= n /\ f[i] = Ranked(s, i) /\ Ranked(s, i) \in P
      BY <1>1 DEF Schedules
    <3>2. w[Ranked(s, i)] = Window(s, Ranked(s, i), p) /\ t[i] = Lasts(s, p, i)
      BY <3>1
    <3>3. Lasts(s, p, i) = Window(s, Ranked(s, i), p)
      BY <3>1 DEF Lasts
    <3>4. Lasts(s, p, i) \in Nat
      BY <1>2, <3>1
    <3> HIDE DEF w, t, f
    <3> QED BY <3>1, <3>2, <3>3, <3>4
  <2> HIDE DEF t, S, N, P, w, f
  <2>3. QED
    BY <1>3, <2>1, <2>2, SumReindexed
<1>7. Used(s, p) = SumOver(w, P) /\ Used(s, p) \in Nat
  BY UsedIsSum
<1>8. t[n + 1] = CycleTicks(s) - Used(s, p)
  BY <1>4 DEF Lasts
<1>9. CycleTicks(s) \in Nat
  BY CycleFacts, GrainAssumption DEF CycleTicks
<1>10. SumOver(t, S) = CycleTicks(s)
  <2> HIDE DEF t, S, N, P, w
  <2> QED BY <1>5, <1>6, <1>7, <1>8, <1>9
<1>11. QED
  BY <1>10

\* The length of a table is a sum over its entries.
LEMMA TotalIsSum ==
  ASSUME Table.entries \in Seq(Entry)
  PROVE  MapThenSumSet(LAMBDA i : Table.entries[i].ns, DOMAIN Table.entries)
           = SumOver([i \in DOMAIN Table.entries |-> Table.entries[i].ns], DOMAIN Table.entries)
<1> DEFINE S == DOMAIN Table.entries
           h == [i \in S |-> Table.entries[i].ns]
           Body(g) == [t \in SUBSET S |->
                         IF t = {} THEN 0
                         ELSE Table.entries[CHOOSE i \in t : TRUE].ns
                                + g[t \ {CHOOSE i \in t : TRUE}]]
<1>1. IsFiniteSet(S) /\ \A i \in S : h[i] \in Int
  <2>1. PICK T \in Seq(Entry) : T = Table.entries
    OBVIOUS
  <2>2. PICK k \in Nat : k = Len(T) /\ DOMAIN T = 1 .. k
    OBVIOUS
  <2>3. 1 \in Int /\ k \in Int
    OBVIOUS
  <2>4. IsFiniteSet(1 .. k)
    BY <2>3, FS_Interval
  <2>5. ASSUME NEW i \in DOMAIN T PROVE T[i].ns \in Int
    <3>1. T[i] \in Entry
      BY <2>2
    <3>2. QED
      BY <3>1 DEF Entry
  <2>6. QED
    BY <2>1, <2>2, <2>4, <2>5
<1>2. ASSUME NEW g PROVE Body(g) = [t \in SUBSET S |-> Added(g, h, t)]
  <2>1. ASSUME NEW t \in SUBSET S, t # {}
        PROVE  h[CHOOSE i \in t : TRUE] = Table.entries[CHOOSE i \in t : TRUE].ns
    BY <2>1
  <2>2. \A t \in SUBSET S : Body(g)[t] = Added(g, h, t)
    <3> HIDE DEF h, S
    <3> QED BY <2>1 DEF Added
  <2> HIDE DEF h, S
  <2> QED BY <2>2
<1>3. PICK f : f = CHOOSE g : g = Body(g)
  OBVIOUS
<1>4. MapThenSumSet(LAMBDA i : Table.entries[i].ns, S) = f[S]
  BY <1>3 DEF MapThenSumSet, MapThenFoldSet
<1>5. PICK g : AddsUp(g, h, S)
  <2> HIDE DEF h, S
  <2> QED BY <1>1, SumsExist
<1>6. g = Body(g)
  <2> HIDE DEF h, S, Body
  <2> QED BY <1>2, <1>5 DEF AddsUp
<1>7. AddsUp(f, h, S)
  <2> HIDE DEF h, S, Body
  <2> QED BY <1>2, <1>3, <1>6 DEF AddsUp
<1>8. S \in SUBSET S
  OBVIOUS
<1>9. f[S] = SumOver(h, S)
  <2> HIDE DEF h, S, Body
  <2> QED BY <1>1, <1>7, <1>8, SumIs
<1>10. QED
  <2> HIDE DEF Body
  <2> QED BY <1>4, <1>9

\* The table's windows add up to the cycle, but for the rounding of each to a
\* nanosecond (test_gate_control_list_fits_its_cycle).
THEOREM SchedulesFillTheCycle == Spec => []ScheduleFillsCycle
<1>1. ConfigurationInvariant => ScheduleFillsCycle
  <2> SUFFICES ASSUME ConfigurationInvariant, Schedulable PROVE ScheduleFillsCycle
    BY DEF ScheduleFillsCycle
  <2>1. /\ q \in Seq(Streams) /\ port \in PortRates /\ Scheduled(q) # {}
        /\ Used(q, port) <= CycleTicks(q)
    BY TableFacts
  <2>2. PICK n \in Nat, E \in Seq(Entry) : Schedules(q, port, n, E)
    BY <2>1, EntryFacts
  <2> DEFINE S == 1 .. n + 1
             J == { i \in S : E[i].ns > 0 }
             t == [i \in S |-> Lasts(q, port, i)]
             ns == [i \in S |-> E[i].ns]
  <2>3. /\ n = Cardinality(Protected(q)) /\ n >= 1 /\ E = Entries(q, port) /\ DOMAIN E = S
        /\ \A i \in S : ns[i] = ToNs(t[i]) /\ t[i] \in Nat
    BY <2>2 DEF Schedules
  <2>4. PICK T \in Seq(Entry) : T = Table.entries
    BY TableFacts
  <2>5. PICK m \in Nat : m = Len(T) /\ DOMAIN T = 1 .. m
    BY <2>4
  <2> DEFINE M == 1 .. m
             v == [j \in M |-> T[j].ns]
  <2>6. PICK h \in Bijection(M, J) : \A j \in M : T[j] = E[h[j]]
    <3>1. Kept(E, T)
      BY <2>3, <2>4, TableFacts
    <3>2. J = { i \in DOMAIN E : E[i].ns > 0 } /\ M = 1 .. Len(T)
      BY <2>3, <2>5
    <3> HIDE DEF J, M
    <3> QED BY <3>1, <3>2 DEF Kept
  <2>7. IsFiniteSet(S) /\ Cardinality(S) = n + 1 /\ IsFiniteSet(M) /\ Cardinality(M) = m
    <3>1. PICK one, k \in Int : one = 1 /\ k = n + 1
      OBVIOUS
    <3>2. IsFiniteSet(one .. k) /\ Cardinality(one .. k) = IF one > k THEN 0 ELSE k - one + 1
      BY FS_Interval
    <3>3. PICK l \in Int : l = m
      OBVIOUS
    <3>4. IsFiniteSet(one .. l) /\ Cardinality(one .. l) = IF one > l THEN 0 ELSE l - one + 1
      BY FS_Interval
    <3>5. S = one .. k /\ M = one .. l
      BY <3>1, <3>3
    <3> HIDE DEF S, M
    <3> QED BY <3>1, <3>2, <3>3, <3>4, <3>5
  <2>8. \A i \in S : ns[i] \in Nat
    <3> HIDE DEF S, ns, t
    <3> QED BY <2>3, Rounding
  <2>9. PICK total : total = MapThenSumSet(LAMBDA i : Table.entries[i].ns, DOMAIN Table.entries)
    OBVIOUS
  <2>10. total = SumOver(ns, S)
    <3>1. total = SumOver(v, M)
      <4>1. total = SumOver([i \in DOMAIN Table.entries |-> Table.entries[i].ns], DOMAIN Table.entries)
        BY <2>4, <2>9, TotalIsSum
      <4>2. QED
        BY <2>4, <2>5, <4>1
    <3>2. ASSUME NEW j \in M PROVE ns[h[j]] \in Int /\ v[j] = ns[h[j]]
      <4>1. h[j] \in J
        <5> HIDE DEF J, M
        <5> QED BY DEF Bijection, Injection
      <4>2. h[j] \in S /\ v[j] = T[j].ns /\ T[j] = E[h[j]]
        BY <2>6, <4>1
      <4>3. ns[h[j]] = E[h[j]].ns
        BY <4>2
      <4> HIDE DEF S, J, M, v, ns
      <4> QED BY <2>8, <4>2, <4>3
    <3>3. SumOver(v, M) = SumOver(ns, J)
      <4> HIDE DEF S, J, M, v, ns
      <4> QED BY <2>7, <3>2, SumReindexed
    <3>4. \A i \in S \ J : ns[i] = 0
      <4>1. \A i \in S \ J : ns[i] = E[i].ns /\ ~(E[i].ns > 0) /\ i \in S
        OBVIOUS
      <4> HIDE DEF S, J, ns
      <4> QED BY <2>8, <4>1
    <3>5. SumOver(ns, S) = SumOver(ns, J)
      <4>1. J \in SUBSET S /\ \A i \in S : ns[i] \in Int
        BY <2>8
      <4> HIDE DEF S, J, ns
      <4> QED BY <2>7, <3>4, <4>1, SumOfNonzero
    <3> HIDE DEF S, J, M, v, ns
    <3> QED BY <3>1, <3>3, <3>5
  <2>11. SumOver(t, S) = CycleTicks(q)
    BY <2>1, <2>3, EntriesFillCycle
  <2>12. PICK g \in Nat : g = Grain /\ g > 0
    BY GrainAssumption
  <2>13. SumOver(ns, S) \in Nat /\ SumOver(t, S) \in Nat
    <3> HIDE DEF S, ns, t
    <3> QED BY <2>3, <2>7, <2>8, SumNatural
  <2>14. PICK sum, ticks \in Nat : sum = SumOver(ns, S) /\ ticks = SumOver(t, S)
    BY <2>13
  <2>15. PICK a, two \in Int : a = 2 * g /\ two = 2
    OBVIOUS
  <2>16. /\ a * sum <= 2 * ticks + g * (n + 1)
         /\ 2 * ticks <= a * sum + g * (n + 1)
    <3>1. ASSUME NEW i \in S
          PROVE  /\ a * ns[i] <= two * t[i] + g /\ two * t[i] <= a * ns[i] + g
                 /\ ns[i] \in Int /\ t[i] \in Int
      <4>1. PICK b, c \in Nat : b = t[i] /\ c = ns[i] /\ c = ToNs(b)
        <5> HIDE DEF S, ns, t
        <5> QED BY <2>3, <2>8
      <4>2. PICK k \in Nat : k = g * c
        OBVIOUS
      <4>3. 2 * k <= 2 * b + g /\ 2 * b <= 2 * k + g
        BY <2>12, <4>1, <4>2, Rounding
      <4>4. a * c = 2 * k
        <5>1. (2 * g) * c = 2 * (g * c)
          OBVIOUS
        <5>2. QED
          BY <2>15, <4>2, <5>1
      <4> HIDE DEF S, ns, t
      <4> QED BY <2>15, <4>1, <4>3, <4>4
    <3> HIDE DEF S, ns, t
    <3>2. Within(ns, t, S, a, two, g) /\ Within(t, ns, S, two, a, g)
      BY <3>1 DEF Within
    <3>3. a * SumOver(ns, S) <= two * SumOver(t, S) + g * Cardinality(S)
      BY <2>7, <3>2, SumRounded
    <3>4. two * SumOver(t, S) <= a * SumOver(ns, S) + g * Cardinality(S)
      BY <2>7, <3>2, SumRounded
    <3>5. QED
      BY <2>7, <2>14, <2>15, <3>3, <3>4
  <2>17. PICK c \in Nat : c = Table.cycle /\ ticks = c * g
    <3>1. PICK d \in Nat : d = Cycle(q)
      BY <2>1, CycleFacts
    <3>2. (d * 1000) * g = (1000 * d) * g
      OBVIOUS
    <3>3. ticks = (d * 1000) * g
      BY <2>11, <2>12, <2>14, <3>1 DEF CycleTicks
    <3>4. Table.cycle = 1000 * d
      BY <3>1, TableFacts
    <3>5. QED
      BY <3>2, <3>3, <3>4
  <2>18. 2 * sum <= 2 * c + (n + 1) /\ 2 * c <= 2 * sum + (n + 1)
    <3>1. /\ a * sum = (2 * sum) * g /\ 2 * (c * g) = (2 * c) * g /\ g * (n + 1) = (n + 1) * g
          /\ (2 * c) * g + (n + 1) * g = (2 * c + (n + 1)) * g
          /\ (2 * sum) * g + (n + 1) * g = (2 * sum + (n + 1)) * g
      BY <2>15
    <3>2. (2 * sum) * g <= (2 * c + (n + 1)) * g /\ (2 * c) * g <= (2 * sum + (n + 1)) * g
      BY <2>16, <2>17, <3>1
    <3>3. PICK A, B, C, D \in Int : A = 2 * sum /\ B = 2 * c + (n + 1) /\ C = 2 * c /\ D = 2 * sum + (n + 1)
      OBVIOUS
    <3>4. A * g <= B * g /\ C * g <= D * g
      BY <3>2, <3>3
    <3>5. A <= B /\ C <= D
      <4>1. ASSUME NEW X \in Int, NEW Y \in Int, X * g <= Y * g PROVE X <= Y
        <5>1. X > Y => Y + 1 <= X
          OBVIOUS
        <5>2. Y + 1 <= X => (Y + 1) * g <= X * g
          BY <2>12, Factor
        <5>3. (Y + 1) * g = Y * g + g /\ Y * g \in Int /\ X * g \in Int
          OBVIOUS
        <5>4. QED
          BY <2>12, <4>1, <5>1, <5>2, <5>3
      <4>2. QED
        BY <3>4, <4>1
    <3>6. QED
      BY <3>3, <3>5
  <2>19. n <= m
    <3> DEFINE N == 1 .. n
    <3>1. IsFiniteSet(N) /\ Cardinality(N) = n
      <4>1. 1 \in Int /\ n \in Int
        OBVIOUS
      <4>2. QED
        BY <4>1, FS_Interval
    <3>2. IsFiniteSet(J) /\ J \in SUBSET S
      BY <2>7, FS_Subset
    <3>3. N \in SUBSET J
      BY <2>1, <2>3, WindowsLast
    <3> HIDE DEF J, M, N, S
    <3>4. Cardinality(N) <= Cardinality(J)
      BY <3>2, <3>3, FS_Subset
    <3>5. Cardinality(J) <= Cardinality(M)
      BY <2>6, <2>7, FS_Surjection DEF Bijection
    <3>6. Cardinality(J) \in Nat
      BY <3>2, FS_CardinalityType
    <3>7. QED
      BY <2>7, <3>1, <3>4, <3>5, <3>6
  <2>20. total <= Table.cycle + Len(Table.entries) /\ total >= Table.cycle - Len(Table.entries)
    <3>1. sum <= c + m /\ sum >= c - m
      BY <2>3, <2>18, <2>19
    <3>2. total = sum /\ Table.cycle = c /\ Len(Table.entries) = m
      BY <2>4, <2>5, <2>10, <2>14, <2>17
    <3>3. QED
      BY <3>1, <3>2
  <2>21. QED
    BY <2>9, <2>20 DEF ScheduleFillsCycle
<1>2. QED
  BY <1>1, ConfigurationCorrect, PTL
=============================================================================
