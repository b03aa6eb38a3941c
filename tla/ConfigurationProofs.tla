-------------------------- MODULE ConfigurationProofs --------------------------
(***************************************************************************)
(* Theorems about Configuration, for any profile, requests, streams on the *)
(* port and rates that satisfy its assumptions.                            *)
(***************************************************************************)
EXTENDS Configuration, DataTheorems, SequenceTheorems

Streams == { Resolve(shape) : shape \in Shapes }

\* The request under examination is one, and the port has streams of shapes.
ConfigurationInvariant ==
  /\ Typed(r)
  /\ q \in Seq(Streams)
  /\ q # << >> => port \in PortRates

\* An empty port and the first request.
LEMMA ConfigurationStarts == ASSUME Init PROVE ConfigurationInvariant
BY RequestsAssumption DEF Init, ConfigurationInvariant

\* Editing, joining and leaving keep to the requests there are.
LEMMA ConfigurationStep ==
  ASSUME ConfigurationInvariant, [Next]_<<r, q, port>> PROVE ConfigurationInvariant'
<1> USE DEF ConfigurationInvariant
<1>1. CASE Edit
  <2>0. PICK f \in DOMAIN FieldValues : \E v \in FieldValues[f] : r' = [r EXCEPT ![f] = v]
    BY <1>1 DEF Edit
  <2>1. PICK v \in FieldValues[f] : r' = [r EXCEPT ![f] = v]
    BY <2>0
  <2>2. f \in DOMAIN FieldTypes /\ v \in FieldTypes[f]
    BY RequestsAssumption
  <2>3. PICK types : types = FieldTypes
    OBVIOUS
  <2>4. /\ r = [g \in DOMAIN types |-> r[g]] /\ \A g \in DOMAIN types : r[g] \in types[g]
        /\ f \in DOMAIN types /\ v \in types[f]
    BY <2>2, <2>3 DEF Typed
  <2>5. r' = [g \in DOMAIN types |-> r'[g]] /\ \A g \in DOMAIN types : r'[g] \in types[g]
    BY <2>1, <2>4
  <2>6. Typed(r')
    BY <2>3, <2>5 DEF Typed
  <2>7. Typed(r)' 
    BY <2>6 DEF Typed, FieldTypes
  <2>8. QED
    BY <1>1, <2>7 DEF Edit
<1>2. CASE Join
  <2>1. r' \in Shapes /\ q' = Append(q, Resolve(r'))
    BY <1>2 DEF Join
  <2>2. Typed(r')
    BY <2>1, RequestsAssumption
  <2>3. Resolve(r') \in Streams
    BY <2>1 DEF Streams
  <2>4. q' \in Seq(Streams)
    BY <2>1, <2>3, AppendProperties
  <2>5. port' \in PortRates
    BY <1>2 DEF Join
  <2>6. Typed(r)'
    BY <2>2 DEF Typed, FieldTypes
  <2>7. QED
    BY <2>4, <2>5, <2>6
<1>3. CASE Leave
  <2>1. q # << >> /\ q' = Tail(q)
    BY <1>3 DEF Leave
  <2>2. q' \in Seq(Streams)
    BY <2>1, HeadTailProperties
  <2>3. Typed(r)' /\ (q' # << >> => port' \in PortRates)
    <3>1. CASE Len(q) = 1
      <4>1. q' = << >>
        BY <2>1, <2>2, <3>1, HeadTailProperties, EmptySeq
      <4>2. r' = First
        BY <1>3, <3>1 DEF Leave
      <4>3. QED
        BY <4>1, <4>2, RequestsAssumption DEF Typed, FieldTypes
    <3>2. CASE Len(q) # 1
      BY <1>3, <2>1, <3>2 DEF Leave, Typed, FieldTypes
    <3>3. QED
      BY <3>1, <3>2
  <2>4. QED
    BY <2>2, <2>3
<1>4. CASE UNCHANGED <<r, q, port>>
  BY <1>4 DEF Typed, FieldTypes
<1>5. QED
  BY <1>1, <1>2, <1>3, <1>4 DEF Next

\* The requests and the streams keep their types.
THEOREM ConfigurationCorrect == Spec => []ConfigurationInvariant
<1>1. Init => ConfigurationInvariant
  BY ConfigurationStarts
<1>2. ConfigurationInvariant /\ [Next]_<<r, q, port>> => ConfigurationInvariant'
  BY ConfigurationStep
<1>3. QED
  BY <1>1, <1>2, PTL DEF Spec

-----------------------------------------------------------------------------
(* The mapper.                                                             *)

\* resolve takes from a class what the link cannot do, feature by feature and
\* nothing else, and never its redundancy (mapper.py:286-309).
THEOREM ResolvesHonestly == Spec => []ResolutionIsHonest
<1>1. ResolutionIsHonest
  <2> SUFFICES ASSUME Resolvable(r) PROVE ResolutionIsHonest
    BY DEF ResolutionIsHonest
  <2>1. PICK tsn, cls, link : /\ tsn = Resolve(r).tsn /\ cls = Classes[r.qos_class]
                              /\ link = LinkOf(r)
    OBVIOUS
  <2>2. /\ tsn.shaper = ShaperOf(r) /\ tsn.redundancy = RedundancyOf(r)
        /\ tsn.preemption = IF link.preemption THEN cls.preemption ELSE "not_supported"
    BY <2>1 DEF Resolve
  <2>3. tsn.redundancy # "none" => link.frer
    BY <2>1, <2>2 DEF Resolvable
  <2>4. /\ tsn.shaper = "tas" => link.tas
        /\ tsn.shaper = "cbs" => link.cbs
        /\ tsn.shaper # cls.shaper =>
             /\ tsn.shaper = "strict_priority"
             /\ \/ cls.shaper = "tas" /\ ~link.tas
                \/ cls.shaper = "cbs" /\ ~link.cbs
    BY <2>1, <2>2 DEF ShaperOf
  <2>5. /\ tsn.preemption = "express" => link.preemption
        /\ tsn.preemption # cls.preemption => ~link.preemption
    BY <2>2
  <2>6. QED
    BY <2>1, <2>2, <2>3, <2>4, <2>5 DEF ResolutionIsHonest
<1>2. QED
  BY <1>1, PTL

\* The deadline of a request is a period long or longer.
LEMMA DeadlineIsPatient ==
  ASSUME NEW s, Resolvable(s), s.period \in Nat
  PROVE  \A d \in Deadline(s) : d \in Nat /\ d >= s.period
<1>1. s.qos_class \in DOMAIN Classes
  BY DEF Resolvable, Recognised
<1>2. PICK k : k = Classes[s.qos_class].deadline_tolerance
  OBVIOUS
<1>3. k \in Nat /\ k >= 10
  BY <1>1, <1>2, ClassesAssumption, RegistryAssumption DEF RegistryValid
<1>4. PICK p \in Nat : p = s.period
  OBVIOUS
<1>5. p * k >= p * 10
  BY <1>3
<1>6. p * k \in Nat
  BY <1>3
<1>7. (p * k) \div 10 \in Nat /\ (p * k) \div 10 >= p
  BY <1>5, <1>6
<1>8. QED
  BY <1>2, <1>4, <1>7 DEF Deadline

\* A talker that keeps its period keeps its contract, and is declared dead only
\* after it has broken it (mapper.py:182-219).
THEOREM HealthyTalkersKeepContracts == Spec => []HealthyTalkerKeepsContract
<1>1. ConfigurationInvariant => HealthyTalkerKeepsContract
  <2> SUFFICES ASSUME ConfigurationInvariant, Resolvable(r) PROVE HealthyTalkerKeepsContract
    BY DEF HealthyTalkerKeepsContract
  <2>1. r.period \in Nat
    BY DEF ConfigurationInvariant, Typed, FieldTypes
  <2>2. \A d \in Deadline(r) : d \in Nat /\ d >= r.period
    BY <2>1, DeadlineIsPatient
  <2>3. DdsQos(r).deadline = Deadline(r) /\ DdsQos(r).lease = Lease(r)
    BY DEF DdsQos
  <2>4. PICK base : base = OrElse(Deadline(r), r.period)
    OBVIOUS
  <2>5. base \in Nat /\ base >= r.period /\ \A d \in Deadline(r) : d = base
    BY <2>1, <2>2, <2>4 DEF OrElse, Deadline
  <2>6. ASSUME NEW lease \in Lease(r)
        PROVE  (\A d \in Deadline(r) : lease > d) /\ lease >= 2 * r.period
    <3>1. lease = Greatest(100000, 3 * base)
      BY <2>4 DEF Lease
    <3>2. lease >= 100000 /\ lease >= 3 * base
      BY <2>5, <3>1 DEF Greatest
    <3>3. lease > base /\ lease >= 2 * r.period
      <4>1. lease \in Int
        BY <2>5, <3>1 DEF Greatest
      <4>2. QED
        BY <2>1, <2>5, <3>2, <4>1
    <3>4. QED
      BY <2>5, <3>3
  <2>7. QED
    BY <2>2, <2>3, <2>6 DEF HealthyTalkerKeepsContract
<1>2. QED
  BY <1>1, ConfigurationCorrect, PTL

-----------------------------------------------------------------------------
(* The DDS profiles.                                                       *)

\* A time survives being written as seconds and nanoseconds.
LEMMA DurationReadsBack ==
  ASSUME NEW us \in Nat
  PROVE  Microseconds(Duration(us)) = us
<1>1. PICK s, m : s = us \div 1000000 /\ m = us % 1000000
  OBVIOUS
<1>2. s \in Nat /\ m \in Nat /\ us = 1000000 * s + m
  BY <1>1
<1>3. (1000 * m) \div 1000 = m
  BY <1>2
<1>4. Duration(us) = [sec |-> s, nanosec |-> 1000 * m]
  BY <1>1 DEF Duration
<1>5. QED
  BY <1>2, <1>3, <1>4 DEF Microseconds

\* So do all times of a policy.
LEMMA DurationsReadBack ==
  ASSUME NEW option \in SUBSET Nat
  PROVE  { Microseconds(d) : d \in Durations(option) } = option
<1>1. \A us \in option : Microseconds(Duration(us)) = us
  BY DurationReadsBack
<1>2. QED
  BY <1>1 DEF Durations

\* Writer and reader profile of a request, as Fast DDS reads them.
LEMMA ProfilesReadBack ==
  ASSUME NEW s, Deadline(s) \subseteq Nat, Lease(s) \subseteq Nat,
         NEW profile \in {ReaderProfile(s), WriterProfile(s)}
  PROVE  LET p == Parsed(profile)
         IN  /\ p.deadline = Deadline(s) /\ p.lease = Lease(s)
             /\ p.reliability = DdsQos(s).reliability
             /\ p.durability = DdsQos(s).durability
<1>1. PICK d : d = DdsQos(s)
  OBVIOUS
<1>2. d.deadline = Deadline(s) /\ d.lease = Lease(s)
  BY <1>1 DEF DdsQos
<1>3. /\ {"depth", "reliability", "durability", "deadline", "lease"} \subseteq DOMAIN profile
      /\ profile.reliability = d.reliability /\ profile.durability = d.durability
      /\ profile.deadline = Durations(Deadline(s)) /\ profile.lease = Durations(Lease(s))
  <2>1. CASE profile = ReaderProfile(s)
    BY <1>1, <1>2, <2>1 DEF ReaderProfile
  <2>2. CASE profile = WriterProfile(s)
    <3>1. PICK b : b = ReaderProfile(s)
      OBVIOUS
    <3>2. PICK o : o = [ latency_budget |-> Durations(d.latency_budget),
                         transport_priority |-> d.transport_priority,
                         max_samples_per_instance |-> d.max_samples_per_instance ]
      OBVIOUS
    <3>3. profile = Overridden(b, o)
      BY <1>1, <2>2, <3>1, <3>2 DEF WriterProfile
    <3>4. \A f \in {"depth", "reliability", "durability", "deadline", "lease"} :
            f \in DOMAIN b /\ f \notin DOMAIN o
      BY <3>1, <3>2 DEF ReaderProfile
    <3>5. \A f \in {"depth", "reliability", "durability", "deadline", "lease"} :
            f \in DOMAIN profile /\ profile[f] = b[f]
      BY <3>3, <3>4 DEF Overridden
    <3>6. QED
      BY <1>1, <1>2, <3>1, <3>5 DEF ReaderProfile
  <2>3. QED
    BY <2>1, <2>2
<1>4. PICK p : p = Parsed(profile)
  OBVIOUS
<1>5. /\ p.deadline = { Microseconds(t) : t \in profile.deadline }
      /\ p.lease = { Microseconds(t) : t \in profile.lease }
      /\ p.reliability = profile.reliability /\ p.durability = profile.durability
  BY <1>3, <1>4 DEF Parsed
<1>6. p.deadline = Deadline(s) /\ p.lease = Lease(s)
  BY <1>3, <1>5, DurationsReadBack
<1>7. QED
  BY <1>1, <1>3, <1>4, <1>5, <1>6

\* The latency budget is the writer's as Cyclone has it, and the reader has none.
LEMMA BudgetsReadBack ==
  ASSUME NEW s, s.qos_class \in DOMAIN Classes
  PROVE  /\ Parsed(WriterProfile(s)).latency_budget = EntityQos(s).latency_budget
         /\ Parsed(ReaderProfile(s)).latency_budget = {}
<1>1. PICK d : d = DdsQos(s)
  OBVIOUS
<1>2. d.latency_budget \in SUBSET Nat /\ EntityQos(s).latency_budget = d.latency_budget
  BY <1>1, ClassesAssumption DEF DdsQos, EntityQos
<1>3. PICK reader : reader = ReaderProfile(s)
  OBVIOUS
<1>4. PICK more : more = [ latency_budget |-> Durations(d.latency_budget),
                           transport_priority |-> d.transport_priority,
                           max_samples_per_instance |-> d.max_samples_per_instance ]
  OBVIOUS
<1>5. PICK writer : writer = WriterProfile(s)
  OBVIOUS
<1>6. writer = Overridden(reader, more)
  BY <1>1, <1>3, <1>4, <1>5 DEF WriterProfile
<1>7. "latency_budget" \in DOMAIN writer /\ writer.latency_budget = Durations(d.latency_budget)
  BY <1>4, <1>6 DEF Overridden
<1>8. "latency_budget" \in DOMAIN reader /\ reader.latency_budget = {}
  BY <1>3 DEF ReaderProfile
<1>9. Parsed(writer).latency_budget = { Microseconds(t) : t \in writer.latency_budget }
  BY <1>7 DEF Parsed
<1>10. Parsed(reader).latency_budget = { Microseconds(t) : t \in reader.latency_budget }
  BY <1>8 DEF Parsed
<1>11. { Microseconds(t) : t \in Durations(d.latency_budget) } = d.latency_budget
  BY <1>2, DurationsReadBack
<1>12. QED
  BY <1>2, <1>3, <1>5, <1>7, <1>8, <1>9, <1>10, <1>11

\* Reader and writer of one stream match, whichever vendor they are of, except
\* that a Fast DDS reader, which is written no latency budget, takes no writer
\* that has one (mapper.py:179-180, fastdds/emit.py:59-61 and 79-101).
THEOREM ContractsAgreeButForBudget == Spec => []VendorsMatchButForBudget
<1>1. ConfigurationInvariant => VendorsMatchButForBudget
  <2> SUFFICES ASSUME ConfigurationInvariant, Resolvable(r) PROVE VendorsMatchButForBudget
    BY DEF VendorsMatchButForBudget
  <2>1. r.period \in Nat
    BY DEF ConfigurationInvariant, Typed, FieldTypes
  <2>2. \A d \in Deadline(r) : d \in Nat /\ d >= r.period
    BY <2>1, DeadlineIsPatient
  <2>3. Lease(r) \subseteq Nat
    <3>1. OrElse(Deadline(r), r.period) \in Nat
      BY <2>1, <2>2 DEF OrElse, Deadline
    <3>2. QED
      BY <3>1 DEF Lease, Greatest
  <2> DEFINE fast == Parsed(WriterProfile(r))
             reader == Parsed(ReaderProfile(r))
             cyclone == EntityQos(r)
  <2>4. \A e \in {fast, reader, cyclone} :
          /\ e.deadline = Deadline(r) /\ e.lease = Lease(r)
          /\ e.reliability = DdsQos(r).reliability /\ e.durability = DdsQos(r).durability
    <3>1. \A e \in {fast, reader} :
            /\ e.deadline = Deadline(r) /\ e.lease = Lease(r)
            /\ e.reliability = DdsQos(r).reliability /\ e.durability = DdsQos(r).durability
      BY <2>2, <2>3, ProfilesReadBack
    <3>2. /\ cyclone.deadline = Deadline(r) /\ cyclone.lease = Lease(r)
          /\ cyclone.reliability = DdsQos(r).reliability
          /\ cyclone.durability = DdsQos(r).durability
      BY DEF EntityQos, DdsQos
    <3> HIDE DEF fast, reader, cyclone
    <3> QED BY <3>1, <3>2
  <2>5. AtMost(Deadline(r), Deadline(r)) /\ AtMost(Lease(r), Lease(r))
    BY <2>2, <2>3 DEF AtMost
  <2>6. PICK budget \in Nat : budget = Budget(cyclone)
    <3>1. r.qos_class \in DOMAIN Classes
      BY DEF Resolvable, Recognised
    <3>2. cyclone.latency_budget \subseteq Nat
      BY <3>1, ClassesAssumption DEF EntityQos, DdsQos
    <3>3. QED
      BY <3>2 DEF Budget, OrElse
  <2>7. Budget(fast) = budget /\ Budget(reader) = 0
    <3>1. fast.latency_budget = cyclone.latency_budget /\ reader.latency_budget = {}
      BY BudgetsReadBack DEF Resolvable, Recognised
    <3> HIDE DEF fast, reader, cyclone
    <3>2. QED
      BY <2>6, <3>1 DEF Budget, OrElse
  <2>8. \A w \in {fast, cyclone} :
          Compatible(w, cyclone) /\ (Compatible(w, reader) <=> ~ (budget > 0))
    <3> HIDE DEF fast, reader, cyclone
    <3> QED BY <2>4, <2>5, <2>6, <2>7 DEF Compatible
  <2>9. \A e \in {fast, reader, cyclone} : \A d \in e.deadline : d >= r.period
    <3> HIDE DEF fast, reader, cyclone
    <3> QED BY <2>2, <2>4
  <2>10. QED
    <3>1. {fast, cyclone} \cup {reader} = {fast, reader, cyclone}
      OBVIOUS
    <3>2. QED
      BY <2>6, <2>8, <2>9, <3>1 DEF VendorsMatchButForBudget
<1>2. QED
  BY <1>1, ConfigurationCorrect, PTL

-----------------------------------------------------------------------------
(* The streams of a port.                                                  *)

\* What resolve takes from the class.
LEMMA StreamFacts ==
  ASSUME NEW s \in Streams
  PROVE  /\ s.qos_class \in DOMAIN Classes
         /\ s.pcp = Classes[s.qos_class].pcp /\ s.pcp \in 0 .. 7
         /\ s.tsn.traffic_class = Classes[s.qos_class].traffic_class
         /\ s.tsn.traffic_class \in TrafficClasses
         /\ TransportPriority(s) = s.pcp
<1>1. PICK shape \in Shapes : s = Resolve(shape)
  BY DEF Streams
<1>2. shape.qos_class \in DOMAIN Classes
  BY <1>1, RequestsAssumption DEF Resolvable, Recognised
<1>3. /\ s.qos_class = shape.qos_class
      /\ s.pcp = Classes[s.qos_class].pcp
      /\ s.tsn.traffic_class = Classes[s.qos_class].traffic_class
  BY <1>1 DEF Resolve
<1>4. QED
  BY <1>2, <1>3, RegistryAssumption, ClassesAssumption DEF RegistryValid, TransportPriority

\* Streams of one priority are of one class: _validate sees to it.
LEMMA OneClassPerPriority ==
  ASSUME NEW s \in Streams, NEW t \in Streams, s.pcp = t.pcp
  PROVE  s.tsn.traffic_class = t.tsn.traffic_class
BY StreamFacts, RegistryAssumption DEF RegistryValid

\* A stream on the port.
LEMMA OnPort ==
  ASSUME NEW s \in Seq(Streams)
  PROVE  /\ DOMAIN s = 1 .. Len(s) /\ Len(s) \in Nat /\ IsFiniteSet(DOMAIN s)
         /\ \A i \in DOMAIN s : i \in Nat /\ s[i] \in Streams
         /\ \A D \in SUBSET DOMAIN s : IsFiniteSet(D) /\ D \subseteq Int
<1>1. DOMAIN s = 1 .. Len(s) /\ Len(s) \in Nat /\ \A i \in DOMAIN s : s[i] \in Streams
  OBVIOUS
<1>2. IsFiniteSet(DOMAIN s)
  BY <1>1, FS_Interval
<1>3. QED
  BY <1>1, <1>2, FS_Subset

\* The first and the last of some positions are among them.
LEMMA MinIsAMember ==
  ASSUME NEW S, IsFiniteSet(S), S \subseteq Int, S # {}
  PROVE  Min(S) \in S /\ \A x \in S : Min(S) <= x
BY LeastInteger DEF Min

\* Likewise the greatest.
LEMMA MaxIsAMember ==
  ASSUME NEW S, IsFiniteSet(S), S \subseteq Int, S # {}
  PROVE  Max(S) \in S /\ \A x \in S : Max(S) >= x
<1>1. PICK m \in S : \A x \in S : x <= m
  BY GreatestInteger
<1>2. \A x \in S : m >= x
  BY <1>1
<1>3. QED
  BY <1>2 DEF Max

\* The queues are numbered without gaps, the most urgent class first.
LEMMA QueueOrder ==
  ASSUME NEW s \in Seq(Streams)
  PROVE  /\ IsFiniteSet(InUse(s)) /\ InUse(s) \subseteq TrafficClasses
         /\ \A a \in InUse(s) : Queue(s, a) \in Nat /\ Queue(s, a) <= Cardinality(InUse(s)) - 1
         /\ \A a, b \in InUse(s) : a > b => Queue(s, a) < Queue(s, b)
<1>1. InUse(s) \subseteq TrafficClasses
  BY OnPort, StreamFacts DEF InUse
<1>2. IsFiniteSet(TrafficClasses)
  <2>1. 0 \in Int /\ 7 \in Int
    OBVIOUS
  <2>2. IsFiniteSet(0 .. 7)
    BY <2>1, FS_Interval
  <2>3. QED
    BY <2>2 DEF TrafficClasses
<1>3. IsFiniteSet(InUse(s)) /\ \A D \in SUBSET InUse(s) : IsFiniteSet(D) /\ Cardinality(D) \in Nat
  BY <1>1, <1>2, FS_Subset, FS_CardinalityType
<1>4. \A a, b \in InUse(s) : a \in Int /\ b \in Int
  BY <1>1 DEF TrafficClasses
<1> DEFINE Above(a) == { d \in InUse(s) : d > a }
<1>5. ASSUME NEW a \in InUse(s)
      PROVE  Queue(s, a) \in Nat /\ Queue(s, a) <= Cardinality(InUse(s)) - 1
  <2>1. Above(a) \in SUBSET (InUse(s) \ {a})
    BY <1>4
  <2>2. Cardinality(InUse(s) \ {a}) = Cardinality(InUse(s)) - 1 /\ IsFiniteSet(InUse(s) \ {a})
    BY <1>3, FS_RemoveElement
  <2>3. Cardinality(Above(a)) <= Cardinality(InUse(s) \ {a})
    <3> HIDE DEF Above
    <3> QED BY <2>1, <2>2, FS_Subset
  <2>4. Queue(s, a) = Cardinality(Above(a)) /\ Above(a) \in SUBSET InUse(s)
    BY DEF Queue
  <2>5. QED
    <3> HIDE DEF Above
    <3> QED BY <1>3, <2>2, <2>3, <2>4
<1>6. ASSUME NEW a \in InUse(s), NEW b \in InUse(s), a > b PROVE Queue(s, a) < Queue(s, b)
  <2>1. Above(a) \in SUBSET Above(b) /\ a \in Above(b) /\ a \notin Above(a)
    BY <1>4, <1>6
  <2>2. Above(a) \in SUBSET InUse(s) /\ Above(b) \in SUBSET InUse(s)
    OBVIOUS
  <2>3. Queue(s, a) = Cardinality(Above(a)) /\ Queue(s, b) = Cardinality(Above(b))
    BY DEF Queue
  <2> HIDE DEF Above
  <2>4. /\ Cardinality(Above(a)) \in Nat /\ Cardinality(Above(b)) \in Nat
        /\ IsFiniteSet(Above(b))
    BY <1>3, <2>2
  <2>5. Cardinality(Above(a)) <= Cardinality(Above(b)) /\ Cardinality(Above(b)) # Cardinality(Above(a))
    BY <2>1, <2>4, FS_Subset
  <2>6. QED
    BY <2>3, <2>4, <2>5
<1>7. QED
  BY <1>1, <1>3, <1>5, <1>6

\* So two classes never share a queue.
LEMMA QueuesDiffer ==
  ASSUME NEW s \in Seq(Streams), NEW a \in InUse(s), NEW b \in InUse(s),
         Queue(s, a) = Queue(s, b)
  PROVE  a = b
<1>1. a \in Int /\ b \in Int /\ Queue(s, a) \in Nat
  BY QueueOrder DEF TrafficClasses
<1>2. ~(a > b) /\ ~(b > a)
  BY <1>1, QueueOrder
<1>3. QED
  BY <1>1, <1>2

\* The priority map sends a stream to the queue of its class.
LEMMA PrioritySendsToClass ==
  ASSUME NEW s \in Seq(Streams), NEW i \in DOMAIN s
  PROVE  PrioMap(s)[TransportPriority(s[i])] = Queue(s, s[i].tsn.traffic_class)
<1> DEFINE match == { j \in DOMAIN s : s[j].pcp = s[i].pcp }
<1>1. s[i] \in Streams /\ match \in SUBSET DOMAIN s /\ i \in match
  BY OnPort
<1>2. Min(match) \in match
  <2>1. match # {} /\ IsFiniteSet(match) /\ match \subseteq Int
    BY <1>1, OnPort
  <2> HIDE DEF match
  <2> QED BY <2>1, MinIsAMember
<1>3. PICK m : m = Min(match)
  OBVIOUS
<1>4. m \in DOMAIN s /\ s[m].pcp = s[i].pcp
  BY <1>2, <1>3
<1>5. s[m].tsn.traffic_class = s[i].tsn.traffic_class
  BY <1>1, <1>4, OnPort, OneClassPerPriority
<1>6. s[i].pcp \in 0 .. 15 /\ TransportPriority(s[i]) = s[i].pcp
  BY <1>1, StreamFacts
<1>7. PrioMap(s)[s[i].pcp] = IF match = {} THEN Cardinality(InUse(s)) - 1
                            ELSE Queue(s, s[Min(match)].tsn.traffic_class)
  BY <1>6 DEF PrioMap
<1>8. PrioMap(s)[s[i].pcp] = Queue(s, s[m].tsn.traffic_class)
  <2>1. match # {}
    BY <1>1
  <2> HIDE DEF match
  <2> QED BY <1>3, <1>7, <2>1
<1>9. QED
  BY <1>5, <1>6, <1>8

\* A frame leaves with the PCP of its stream.
LEMMA EgressKeepsPriority ==
  ASSUME NEW s \in Seq(Streams), NEW i \in DOMAIN s, NEW d \in VlanDevices(s)
  PROVE  WirePcp(d, TransportPriority(s[i])) = s[i].pcp
<1> DEFINE same == { j \in DOMAIN s : TransportPriority(s[j]) = TransportPriority(s[i]) }
<1>1. d.egress = EgressQosMap(s)
  BY DEF VlanDevices
<1>2. TransportPriority(s[i]) \in DOMAIN d.egress
  BY <1>1 DEF EgressQosMap
<1>3. d.egress[TransportPriority(s[i])] = s[Max(same)].pcp
  BY <1>1 DEF EgressQosMap
<1>4. Max(same) \in same
  <2>1. i \in same /\ same \in SUBSET DOMAIN s
    OBVIOUS
  <2>2. same # {} /\ IsFiniteSet(same) /\ same \subseteq Int
    BY <2>1, OnPort
  <2> HIDE DEF same
  <2> QED BY <2>2, MaxIsAMember
<1>5. PICK m : m = Max(same)
  OBVIOUS
<1>6. m \in DOMAIN s /\ TransportPriority(s[m]) = TransportPriority(s[i])
  BY <1>4, <1>5
<1>7. s[m].pcp = s[i].pcp
  BY <1>6, OnPort, StreamFacts
<1>8. QED
  BY <1>2, <1>3, <1>5, <1>7 DEF WirePcp

\* The priority of a stream selects its PCP and the queue of its class, before
\* the queues of less urgent ones, on any port (emit_vlan.py:12-16 and 49).
\* _validate does not compare priorities with classes: that they are in the same
\* order is the profile's doing.
THEOREM PrioritiesReachTheirQueues ==
  ASSUME UrgencyIsOrder
  PROVE  Spec => []PriorityReachesItsQueue
<1>1. ConfigurationInvariant => PriorityReachesItsQueue
  <2> SUFFICES ASSUME ConfigurationInvariant, NEW i \in DOMAIN q, NEW j \in DOMAIN q
               PROVE  LET queue(s) == PrioMap(q)[TransportPriority(s)]
                      IN  /\ \E d \in VlanDevices(q) : d.vlan = q[i].vlan
                          /\ \A d \in VlanDevices(q) :
                               d.vlan = q[i].vlan => WirePcp(d, TransportPriority(q[i])) = q[i].pcp
                          /\ queue(q[i]) = queue(q[j])
                               <=> q[i].tsn.traffic_class = q[j].tsn.traffic_class
                          /\ q[i].pcp > q[j].pcp => queue(q[i]) < queue(q[j])
                          /\ \A prio \in 0 .. 15 :
                               (\A k \in DOMAIN q : q[k].pcp # prio) => PrioMap(q)[prio] >= queue(q[i])
    BY DEF PriorityReachesItsQueue
  <2>1. q \in Seq(Streams) /\ q[i] \in Streams /\ q[j] \in Streams
    BY OnPort DEF ConfigurationInvariant
  <2>2. \E d \in VlanDevices(q) : d.vlan = q[i].vlan
    <3>1. PICK d : d = [vlan |-> q[i].vlan, domain |-> q[i].domain, egress |-> EgressQosMap(q)]
      OBVIOUS
    <3>2. d \in VlanDevices(q) /\ d.vlan = q[i].vlan
      BY <3>1 DEF VlanDevices
    <3>3. QED
      BY <3>2
  <2>3. \A d \in VlanDevices(q) : WirePcp(d, TransportPriority(q[i])) = q[i].pcp
    BY <2>1, EgressKeepsPriority
  <2>4. PICK a, b : a = q[i].tsn.traffic_class /\ b = q[j].tsn.traffic_class
    OBVIOUS
  <2>5. a \in InUse(q) /\ b \in InUse(q)
    BY <2>4 DEF InUse
  <2>6. /\ PrioMap(q)[TransportPriority(q[i])] = Queue(q, a)
        /\ PrioMap(q)[TransportPriority(q[j])] = Queue(q, b)
    BY <2>1, <2>4, PrioritySendsToClass
  <2>7. Queue(q, a) = Queue(q, b) <=> a = b
    BY <2>1, <2>5, QueuesDiffer
  <2>8. q[i].pcp > q[j].pcp => Queue(q, a) < Queue(q, b)
    <3>1. q[i].pcp > q[j].pcp => a > b
      BY <2>1, <2>4, StreamFacts DEF UrgencyIsOrder
    <3>2. QED
      BY <2>1, <2>5, <3>1, QueueOrder
  <2>9. ASSUME NEW prio \in 0 .. 15, \A k \in DOMAIN q : q[k].pcp # prio
        PROVE  PrioMap(q)[prio] >= Queue(q, a)
    <3>1. { k \in DOMAIN q : q[k].pcp = prio } = {}
      BY <2>9
    <3>2. PrioMap(q)[prio] = Cardinality(InUse(q)) - 1
      BY <3>1 DEF PrioMap
    <3>3. Queue(q, a) \in Nat /\ Queue(q, a) <= Cardinality(InUse(q)) - 1
      BY <2>1, <2>5, QueueOrder
    <3>4. Cardinality(InUse(q)) \in Nat
      BY <2>1, QueueOrder, FS_CardinalityType
    <3>5. QED
      BY <3>2, <3>3, <3>4
  <2>10. QED
    BY <2>2, <2>3, <2>4, <2>6, <2>7, <2>8, <2>9
<1>2. QED
  BY <1>1, ConfigurationCorrect, PTL

\* Endpoint and bridge shape the same queues, but the endpoint only by the last
\* stream of each class, which is all the bridge counts just where there is no
\* other (emit_vlan.py:55-64, emit_yang.py:90-95).
THEOREM LastStreamShapes == Spec => []EndpointShapesLastStream
<1>1. ConfigurationInvariant => EndpointShapesLastStream
  <2> SUFFICES ASSUME ConfigurationInvariant PROVE EndpointShapesLastStream
    OBVIOUS
  <2>1. q \in Seq(Streams)
    BY DEF ConfigurationInvariant
  <2> DEFINE sending(tc) == { PrioMap(q)[TransportPriority(q[i])] :
                                i \in { j \in DOMAIN q : q[j].tsn.traffic_class = tc } }
             shaped == { i \in DOMAIN q : q[i].tsn.shaper = "cbs" }
             At(queue) == { i \in shaped : Queue(q, q[i].tsn.traffic_class) = queue }
  <2>2. \A i \in DOMAIN q : sending(q[i].tsn.traffic_class) = {Queue(q, q[i].tsn.traffic_class)}
    BY <2>1, PrioritySendsToClass
  <2>3. /\ DOMAIN CbsaTable(q) = { q[i].tsn.traffic_class : i \in shaped }
        /\ \A tc \in DOMAIN CbsaTable(q) :
             CbsaTable(q)[tc] = { i \in shaped : q[i].tsn.traffic_class = tc }
    BY DEF CbsaTable
  <2>4. /\ DOMAIN CbsQdiscs(q) = { Queue(q, q[i].tsn.traffic_class) : i \in shaped }
        /\ \A queue \in DOMAIN CbsQdiscs(q) : CbsQdiscs(q)[queue] = Max(At(queue))
    BY DEF CbsQdiscs
  <2>5. DOMAIN CbsQdiscs(q) = UNION { sending(tc) : tc \in DOMAIN CbsaTable(q) }
    <3>1. \A queue : queue \in DOMAIN CbsQdiscs(q)
                       <=> \E i \in shaped : queue = Queue(q, q[i].tsn.traffic_class)
      BY <2>4
    <3>2. \A tc : tc \in DOMAIN CbsaTable(q) <=> \E i \in shaped : tc = q[i].tsn.traffic_class
      BY <2>3
    <3>3. \A i \in shaped :
            sending(q[i].tsn.traffic_class) = {Queue(q, q[i].tsn.traffic_class)}
      BY <2>2
    <3> HIDE DEF sending, shaped
    <3>4. \A queue : queue \in UNION { sending(tc) : tc \in DOMAIN CbsaTable(q) }
                       <=> \E tc \in DOMAIN CbsaTable(q) : queue \in sending(tc)
      OBVIOUS
    <3>5. \A queue : queue \in UNION { sending(tc) : tc \in DOMAIN CbsaTable(q) }
                       <=> \E i \in shaped : queue = Queue(q, q[i].tsn.traffic_class)
      <4>1. ASSUME NEW queue, NEW i \in shaped, queue = Queue(q, q[i].tsn.traffic_class)
            PROVE  \E tc \in DOMAIN CbsaTable(q) : queue \in sending(tc)
        <5>1. q[i].tsn.traffic_class \in DOMAIN CbsaTable(q)
          BY <3>2
        <5>2. queue \in sending(q[i].tsn.traffic_class)
          BY <3>3, <4>1
        <5>3. QED
          BY <5>1, <5>2
      <4>2. ASSUME NEW queue, NEW tc \in DOMAIN CbsaTable(q), queue \in sending(tc)
            PROVE  \E i \in shaped : queue = Queue(q, q[i].tsn.traffic_class)
        <5>1. PICK i \in shaped : tc = q[i].tsn.traffic_class
          BY <3>2
        <5>2. queue \in {Queue(q, q[i].tsn.traffic_class)}
          BY <3>3, <4>2, <5>1
        <5>3. QED
          BY <5>2
      <4>3. QED
        BY <3>4, <4>1, <4>2, Zenon
    <3> QED BY <3>1, <3>5
  <2>6. ASSUME NEW i \in shaped
        PROVE  LET tc   == q[i].tsn.traffic_class
                   mine == { CbsQdiscs(q)[queue] : queue \in sending(tc) }
               IN  /\ mine = {i} <=> \A j \in shaped : j > i => q[j].tsn.traffic_class # tc
                   /\ mine = CbsaTable(q)[tc] <=>
                        \A j \in shaped : q[j].tsn.traffic_class = tc => j = i
    <3>1. PICK tc, queue : tc = q[i].tsn.traffic_class /\ queue = Queue(q, tc)
      OBVIOUS
    <3>2. PICK C : C = { j \in shaped : q[j].tsn.traffic_class = tc }
      OBVIOUS
    <3>3. tc \in InUse(q) /\ \A j \in shaped : q[j].tsn.traffic_class \in InUse(q)
      BY <3>1 DEF InUse
    <3>4. At(queue) = C
      <4>1. \A j \in shaped : Queue(q, q[j].tsn.traffic_class) = queue <=> q[j].tsn.traffic_class = tc
        BY <2>1, <3>1, <3>3, QueuesDiffer
      <4>2. QED
        BY <3>2, <4>1
    <3>5. CbsQdiscs(q)[queue] = Max(C)
      <4>1. queue \in DOMAIN CbsQdiscs(q)
        BY <2>4, <3>1
      <4> HIDE DEF At
      <4> QED BY <2>4, <3>4, <4>1
    <3>6. i \in C /\ C \in SUBSET DOMAIN q /\ \A j : j \in C <=> j \in shaped /\ q[j].tsn.traffic_class = tc
      BY <3>1, <3>2
    <3>7. IsFiniteSet(C) /\ C \subseteq Int
      BY <2>1, <3>6, OnPort
    <3>8. PICK m : m = Max(C)
      OBVIOUS
    <3>9. m \in C /\ \A j \in C : j <= m
      <4>1. C # {}
        BY <3>6
      <4>2. m \in C /\ \A j \in C : m >= j
        BY <3>7, <3>8, <4>1, MaxIsAMember
      <4>3. QED
        BY <3>7, <4>2
    <3>10. { CbsQdiscs(q)[x] : x \in sending(tc) } = {m}
      <4>1. sending(tc) = {queue}
        BY <2>2, <3>1
      <4> HIDE DEF sending
      <4> QED BY <3>5, <3>8, <4>1
    <3>11. CbsaTable(q)[tc] = C
      BY <2>3, <3>1, <3>2
    <3>12. {m} = {i} <=> \A j \in shaped : j > i => q[j].tsn.traffic_class # tc
      <4>1. ASSUME m = i, NEW j \in shaped, j > i PROVE q[j].tsn.traffic_class # tc
        <5>1. SUFFICES ASSUME q[j].tsn.traffic_class = tc PROVE FALSE
          OBVIOUS
        <5>2. j \in C /\ j \in Int /\ i \in Int
          BY <3>6, <3>7, <5>1
        <5>3. QED
          BY <3>9, <4>1, <5>2
      <4>2. ASSUME \A j \in shaped : j > i => q[j].tsn.traffic_class # tc PROVE m = i
        <5>1. m \in shaped /\ q[m].tsn.traffic_class = tc /\ i <= m /\ m \in Int /\ i \in Int
          BY <3>6, <3>7, <3>9
        <5>2. QED
          BY <4>2, <5>1
      <4>3. QED
        BY <4>1, <4>2
    <3>13. {m} = C <=> \A j \in shaped : q[j].tsn.traffic_class = tc => j = i
      BY <3>6, <3>9
    <3>14. QED
      <4> HIDE DEF sending, shaped
      <4> QED BY <3>1, <3>10, <3>11, <3>12, <3>13
  <2>7. QED
    BY <2>5, <2>6 DEF EndpointShapesLastStream
<1>2. QED
  BY <1>1, ConfigurationCorrect, PTL

\* A Cyclone participant marks its packets as its most urgent class
\* (cyclonedds/emit.py:26-28), as long as the profile's marks are in the order
\* of its priorities.
THEOREM ParticipantsMarkTheirMostUrgent ==
  ASSUME MarksFollowUrgency
  PROVE  Spec => []ParticipantMarksItsMostUrgent
<1>1. ConfigurationInvariant => ParticipantMarksItsMostUrgent
  <2> SUFFICES ASSUME ConfigurationInvariant, NEW i \in DOMAIN q,
                      \A j \in DOMAIN q : q[j].pcp <= q[i].pcp
               PROVE  DiffServField({ q[j].qos_class : j \in DOMAIN q })
                        = 4 * Classes[q[i].qos_class].dscp
    BY DEF ParticipantMarksItsMostUrgent
  <2>1. q \in Seq(Streams)
    BY DEF ConfigurationInvariant
  <2> DEFINE marks == { Classes[c].dscp : c \in { q[j].qos_class : j \in DOMAIN q } } \cup {0}
             mark == [j \in DOMAIN q |-> Classes[q[j].qos_class].dscp]
             marked == { Classes[q[j].qos_class].dscp : j \in DOMAIN q }
  <2>2. \A j \in DOMAIN q : /\ q[j] \in Streams /\ q[j].qos_class \in DOMAIN Classes
                            /\ Classes[q[j].qos_class].dscp \in Nat
    BY <2>1, OnPort, StreamFacts, ClassesAssumption
  <2>3. marks = marked \cup {0}
    OBVIOUS
  <2>4. IsFiniteSet(marks) /\ marks \subseteq Int /\ marks # {}
    <3>1. mark \in Surjection(DOMAIN q, marked)
      BY DEF Surjection
    <3>2. IsFiniteSet(marked)
      <4> HIDE DEF mark, marked
      <4> QED BY <2>1, <3>1, OnPort, FS_Surjection
    <3>3. IsFiniteSet(marks)
      <4> HIDE DEF marked, marks
      <4> QED BY <2>3, <3>2, FS_AddElement
    <3>4. QED
      BY <2>2, <3>3
  <2>5. PICK top : top = Classes[q[i].qos_class].dscp
    OBVIOUS
  <2>6. top \in marks /\ \A m \in marks : m <= top
    <3>1. \A j \in DOMAIN q : Classes[q[j].qos_class].dscp <= top
      <4>1. \A j \in DOMAIN q : q[i].pcp >= q[j].pcp
        BY <2>2, StreamFacts
      <4>2. \A j \in DOMAIN q : top >= Classes[q[j].qos_class].dscp
        BY <2>2, <2>5, <4>1, StreamFacts DEF MarksFollowUrgency
      <4>3. QED
        BY <2>2, <2>5, <4>2
    <3>2. top \in Nat
      BY <2>2, <2>5
    <3>3. QED
      BY <2>3, <2>5, <3>1, <3>2
  <2>7. Max(marks) = top
    <3>1. Max(marks) \in marks /\ \A m \in marks : Max(marks) >= m
      <4> HIDE DEF marks
      <4> QED BY <2>4, MaxIsAMember
    <3> HIDE DEF marks
    <3>2. Max(marks) <= top /\ Max(marks) >= top /\ Max(marks) \in Int /\ top \in Int
      BY <2>4, <2>6, <3>1
    <3> QED BY <3>2
  <2>8. QED
    BY <2>5, <2>7 DEF DiffServField
<1>2. QED
  BY <1>1, ConfigurationCorrect, PTL

-----------------------------------------------------------------------------
(* Framing.                                                                *)

\* As many fragments as carry the payload, and no more.
LEMMA FragmentCount ==
  ASSUME NEW p \in Nat, p > 0
  PROVE  /\ FramesFor(p) \in Nat /\ FramesFor(p) >= 1
         /\ (FramesFor(p) - 1) * 1416 < p /\ p <= FramesFor(p) * 1416
<1>1. PICK n : n = (p + 1415) \div 1416
  OBVIOUS
<1>2. n \in Nat /\ n >= 1 /\ (n - 1) * 1416 < p /\ p <= n * 1416
  BY <1>1
<1>3. FramesFor(p) = n
  BY <1>1, <1>2 DEF FramesFor, CeilDiv, USABLE, MAX_PAYLOAD, L3_OVERHEAD, Greatest
<1>4. QED
  BY <1>2, <1>3

\* Every fragment but the last is a full frame.
LEMMA FragmentSizes ==
  ASSUME NEW p \in Nat, p > 0, NEW i \in 1 .. FramesFor(p)
  PROVE  FrameOnWire(p, i) = IF i < FramesFor(p) THEN 1542
                             ELSE p - (FramesFor(p) - 1) * 1416 + 126
<1>1. PICK n : n = FramesFor(p)
  OBVIOUS
<1>2. n \in Nat /\ n >= 1 /\ (n - 1) * 1416 < p /\ p <= n * 1416 /\ i \in 1 .. n
  BY <1>1, FragmentCount
<1>3. PICK c : c = Chunk(p, i)
  OBVIOUS
<1>4. c = IF p - (i - 1) * 1416 <= 1416 THEN p - (i - 1) * 1416 ELSE 1416
  BY <1>3 DEF Chunk, Least, USABLE, MAX_PAYLOAD, L3_OVERHEAD
<1>5. c = IF i < n THEN 1416 ELSE p - (n - 1) * 1416
  BY <1>2, <1>4
<1>6. c \in Nat
  BY <1>2, <1>5
<1>7. FrameOnWire(p, i) = c + 126
  BY <1>3, <1>6 DEF FrameOnWire, Greatest, L3_OVERHEAD, MIN_PAYLOAD, WIRE_OVERHEAD
<1>8. QED
  BY <1>1, <1>2, <1>5, <1>7

\* wire_bytes is the sum of the frames.
LEMMA WireIsSum ==
  ASSUME NEW p \in Nat, p > 0
  PROVE  WireBytes(p) = SumOver([i \in 1 .. FramesFor(p) |-> FrameOnWire(p, i)],
                                1 .. FramesFor(p))
<1> DEFINE S == 1 .. FramesFor(p)
           h == [i \in S |-> FrameOnWire(p, i)]
           Body(g) == [s \in SUBSET S |->
                         IF s = {} THEN 0
                         ELSE FrameOnWire(p, CHOOSE i \in s : TRUE)
                                + g[s \ {CHOOSE i \in s : TRUE}]]
<1>1. IsFiniteSet(S)
  BY FragmentCount, FS_Interval
<1>2. \A i \in S : h[i] \in Int
  BY FragmentCount, FragmentSizes
<1>3. ASSUME NEW g PROVE Body(g) = [s \in SUBSET S |-> Added(g, h, s)]
  <2>1. ASSUME NEW s \in SUBSET S, s # {}
        PROVE  h[CHOOSE i \in s : TRUE] = FrameOnWire(p, CHOOSE i \in s : TRUE)
    BY <2>1
  <2>2. \A s \in SUBSET S : Body(g)[s] = Added(g, h, s)
    <3> HIDE DEF h, S
    <3> QED BY <2>1 DEF Added
  <2> HIDE DEF h, S
  <2> QED BY <2>2
<1>4. WireBytes(p) = (CHOOSE g : g = Body(g))[S]
  BY DEF WireBytes, MapThenFoldSet
<1>5. PICK f : f = CHOOSE g : g = Body(g)
  OBVIOUS
<1>6. f = Body(f)
  <2>1. PICK g : AddsUp(g, h, S)
    <3> HIDE DEF h, S
    <3> QED BY <1>1, <1>2, SumsExist
  <2>2. g = Body(g)
    <3> HIDE DEF h, S, Body
    <3> QED BY <1>3, <2>1 DEF AddsUp
  <2> HIDE DEF Body
  <2> QED BY <1>5, <2>2
<1>7. AddsUp(f, h, S)
  <2> HIDE DEF h, S, Body
  <2> QED BY <1>3, <1>6 DEF AddsUp
<1>8. f[S] = SumOver(h, S)
  <2>1. S \in SUBSET S
    OBVIOUS
  <2> HIDE DEF h, S, Body
  <2> QED BY <1>1, <1>7, <2>1, SumIs
<1>9. QED
  <2> HIDE DEF Body
  <2> QED BY <1>4, <1>5, <1>8

\* The wire pays 126 bytes of headers for every fragment.
LEMMA WireBytesOf ==
  ASSUME NEW p \in Nat, p > 0
  PROVE  WireBytes(p) = p + 126 * FramesFor(p)
<1>1. PICK n : n = FramesFor(p)
  OBVIOUS
<1>2. n \in Nat /\ n >= 1
  BY <1>1, FragmentCount
<1>3. PICK h : h = [i \in 1 .. n |-> FrameOnWire(p, i)]
  OBVIOUS
<1>4. /\ \A i \in 1 .. n - 1 : h[i] = 1542
      /\ h[n] = p - (n - 1) * 1416 + 126
  BY <1>1, <1>2, <1>3, FragmentSizes
<1>5. PICK S, T : S = 1 .. n /\ T = 1 .. n - 1
  OBVIOUS
<1>6. IsFiniteSet(S) /\ IsFiniteSet(T) /\ Cardinality(T) = n - 1
  <2>1. n - 1 \in Int /\ 1 \in Int /\ n \in Int
    BY <1>2
  <2>2. QED
    BY <1>2, <1>5, <2>1, FS_Interval
<1>7. n \in S /\ S \ {n} = T /\ \A i \in S : h[i] \in Int
  BY <1>2, <1>4, <1>5
<1>8. SumOver(h, S) = h[n] + SumOver(h, T)
  BY <1>6, <1>7, SumAdd
<1>9. PICK c \in Int : c = 1542
  OBVIOUS
<1>10. SumOver(h, T) = c * Cardinality(T)
  <2>1. \A i \in T : h[i] = c
    BY <1>4, <1>5, <1>9
  <2>2. QED
    BY <1>6, <2>1, SumConstant
<1>11. WireBytes(p) = SumOver(h, S)
  BY <1>1, <1>3, <1>5, WireIsSum
<1>12. WireBytes(p) = p + 126 * n
  <2>1. WireBytes(p) = h[n] + c * (n - 1)
    BY <1>6, <1>8, <1>10, <1>11
  <2>2. QED
    BY <1>2, <1>4, <1>9, <2>1
<1>13. QED
  BY <1>1, <1>12

\* Fragmentation loses and invents nothing, for any payload (mapper.py:61-79).
THEOREM FramesCarryThePayload == Spec => []FramingIsExact
<1>1. ConfigurationInvariant => FramingIsExact
  <2>1. ASSUME ConfigurationInvariant PROVE r.payload_bytes \in Nat
    BY <2>1 DEF ConfigurationInvariant, Typed, FieldTypes
  <2>2. USABLE = 1416
    BY DEF USABLE, MAX_PAYLOAD, L3_OVERHEAD
  <2>3. ASSUME ConfigurationInvariant, r.payload_bytes > 0
        PROVE  /\ (FramesFor(r.payload_bytes) - 1) * 1416 < r.payload_bytes
               /\ r.payload_bytes <= FramesFor(r.payload_bytes) * 1416
               /\ WireBytes(r.payload_bytes) = r.payload_bytes + 126 * FramesFor(r.payload_bytes)
    <3>1. PICK p \in Nat : p = r.payload_bytes
      BY <2>1, <2>3
    <3>2. p > 0
      BY <2>3, <3>1
    <3>3. /\ (FramesFor(p) - 1) * 1416 < p /\ p <= FramesFor(p) * 1416
          /\ WireBytes(p) = p + 126 * FramesFor(p)
      BY <3>2, FragmentCount, WireBytesOf
    <3>4. QED
      BY <3>1, <3>3
  <2>4. QED
    BY <2>2, <2>3 DEF FramingIsExact
<1>2. QED
  BY <1>1, ConfigurationCorrect, PTL

-----------------------------------------------------------------------------
(* The PCP policy.                                                         *)

\* Steps a policy takes a class down.
Moved(policy, c) == IF ~policy /\ c \in DOMAIN PcpFallback THEN 1 ELSE 0

\* What a class is under a policy: what the profile says, or one step below
\* where the fallback moves it.
LEMMA StepDown ==
  ASSUME FallbackStepsDown, NEW policy \in BOOLEAN, NEW c \in DOMAIN ClassTable
  PROVE  /\ ClassesUnder(policy)[c].pcp = ClassTable[c].pcp - Moved(policy, c)
         /\ ClassesUnder(policy)[c].traffic_class = ClassTable[c].traffic_class - Moved(policy, c)
<1>1. ClassesUnder(policy)[c] =
        IF policy \/ c \notin DOMAIN PcpFallback THEN ClassTable[c]
        ELSE Overridden(ClassTable[c], PcpFallback[c])
  BY DEF ClassesUnder
<1>2. ClassTable[c].pcp \in Int /\ ClassTable[c].traffic_class \in Int
  BY DEF FallbackStepsDown
<1>3. CASE ~policy /\ c \in DOMAIN PcpFallback
  <2>1. PICK below : below = PcpFallback[c]
    OBVIOUS
  <2>2. below = [ pcp |-> ClassTable[c].pcp - 1, traffic_class |-> ClassTable[c].traffic_class - 1 ]
    BY <1>3, <2>1 DEF FallbackStepsDown
  <2>3. DOMAIN below = {"pcp", "traffic_class"}
    BY <2>2
  <2>4. /\ Overridden(ClassTable[c], below).pcp = below.pcp
        /\ Overridden(ClassTable[c], below).traffic_class = below.traffic_class
    BY <2>3 DEF Overridden
  <2>5. Moved(policy, c) = 1
    BY <1>3 DEF Moved
  <2>6. QED
    BY <1>1, <1>3, <2>1, <2>2, <2>4, <2>5
<1>4. CASE policy \/ c \notin DOMAIN PcpFallback
  BY <1>1, <1>2, <1>4 DEF Moved
<1>5. QED
  BY <1>3, <1>4

\* A class stays clear of the others: what is right below a moved class is
\* moved with it.
LEMMA TakesAlong ==
  ASSUME FallbackStepsDown, NEW policy \in BOOLEAN,
         NEW c \in DOMAIN ClassTable, NEW d \in DOMAIN ClassTable, Moved(policy, c) = 1,
         \/ ClassTable[d].pcp = ClassTable[c].pcp - 1
         \/ ClassTable[d].traffic_class = ClassTable[c].traffic_class - 1
  PROVE  Moved(policy, d) = 1
<1>1. ~policy /\ c \in DOMAIN PcpFallback
  BY DEF Moved
<1>2. PICK below : below = PcpFallback[c]
  OBVIOUS
<1>3. below = [ pcp |-> ClassTable[c].pcp - 1, traffic_class |-> ClassTable[c].traffic_class - 1 ]
  BY <1>1, <1>2 DEF FallbackStepsDown
<1>4. ClassTable[d].pcp = below.pcp \/ ClassTable[d].traffic_class = below.traffic_class
  BY <1>3
<1>5. d \in DOMAIN PcpFallback
  BY <1>1, <1>2, <1>4 DEF FallbackStepsDown
<1>6. QED
  BY <1>1, <1>5 DEF Moved

\* Taking PCP 7 from the applications, or leaving it to them, keeps any profile's
\* classes in their order of urgency and apart, if its fallback moves classes
\* down one and whatever is in the way with them (mapper.py:139-154).
THEOREM PoliciesKeepUrgency ==
  ASSUME FallbackStepsDown PROVE Spec => []PolicyKeepsUrgency
<1>1. ASSUME NEW c \in DOMAIN ClassTable, NEW d \in DOMAIN ClassTable, c # d,
             NEW policy \in BOOLEAN
      PROVE  LET now == ClassesUnder(policy)
             IN  /\ now[c].pcp # now[d].pcp
                 /\ now[c].traffic_class # now[d].traffic_class
                 /\ now[c].pcp < now[d].pcp <=> ClassTable[c].pcp < ClassTable[d].pcp
                 /\ ~policy => now[c].pcp # 7
  <2>0. PICK now : now = ClassesUnder(policy)
    OBVIOUS
  <2>1. PICK pc, pd, tc, td \in 0 .. 7 :
          /\ pc = ClassTable[c].pcp /\ pd = ClassTable[d].pcp
          /\ tc = ClassTable[c].traffic_class /\ td = ClassTable[d].traffic_class
    BY DEF FallbackStepsDown
  <2>2. PICK mc, md \in {0, 1} : mc = Moved(policy, c) /\ md = Moved(policy, d)
    BY DEF Moved
  <2>3. now[c].pcp = pc - mc /\ now[c].traffic_class = tc - mc
    BY <2>0, <2>1, <2>2, StepDown
  <2>4. now[d].pcp = pd - md /\ now[d].traffic_class = td - md
    BY <2>0, <2>1, <2>2, StepDown
  <2>5. pc # pd /\ tc # td
    BY <1>1, <2>1 DEF FallbackStepsDown
  <2>6. /\ mc = 1 /\ (pd = pc - 1 \/ td = tc - 1) => md = 1
        /\ md = 1 /\ (pc = pd - 1 \/ tc = td - 1) => mc = 1
    BY <2>1, <2>2, TakesAlong
  <2>7. ~policy /\ pc = 7 => mc = 1
    BY <2>1, <2>2 DEF FallbackStepsDown, Moved
  <2>8. /\ now[c].pcp # now[d].pcp
        /\ now[c].traffic_class # now[d].traffic_class
        /\ now[c].pcp < now[d].pcp <=> pc < pd
    BY <2>3, <2>4, <2>5, <2>6
  <2>9. ~policy => now[c].pcp # 7
    BY <2>3, <2>7
  <2>10. QED
    BY <2>0, <2>1, <2>8, <2>9
<1>2. PolicyKeepsUrgency
  BY <1>1 DEF PolicyKeepsUrgency
<1>3. QED
  BY <1>2, PTL
=============================================================================
