---------------------------- MODULE Configuration ----------------------------
(***************************************************************************)
(* What one request, and the streams of one port, are configured with: the *)
(* mapper, the gate schedule, the endpoint and the DDS profiles together.  *)
(*                                                                         *)
(* While the port is empty a step changes one field of the request under   *)
(* examination.  Then streams from a set of shapes come and go.            *)
(***************************************************************************)
EXTENDS EndpointShaping, DdsProfiles

CONSTANTS
  FieldValues,  \* field of a request -> the values it is given
  First,        \* the request that is looked at first
  Shapes,       \* the requests whose streams come to the port
  MaxStreams,   \* streams on the port
  PortRates     \* Mb/s

VARIABLES
  r,      \* the request under examination
  q,      \* the streams of the port
  port    \* its rate; 0 while there is no stream

FieldTypes ==
  [ name |-> STRING, qos_class |-> STRING, payload_bytes |-> Nat, period |-> Nat,
    link |-> STRING, domain |-> SUBSET STRING, durability |-> SUBSET STRING,
    redundancy |-> SUBSET STRING, event_driven |-> BOOLEAN ]

Typed(request) ==
  /\ request = [f \in DOMAIN FieldTypes |-> request[f]]
  /\ \A f \in DOMAIN FieldTypes : request[f] \in FieldTypes[f]

\* A shape is a request the code resolves: there is no stream otherwise.
ASSUME RequestsAssumption ==
  /\ \A request \in Shapes \cup {First} : Typed(request)
  /\ \A shape \in Shapes : Resolvable(shape)
  /\ DOMAIN FieldValues \subseteq DOMAIN FieldTypes
  /\ \A f \in DOMAIN FieldValues : FieldValues[f] \subseteq FieldTypes[f]

\* What the values of a class are, as far as _validate does not look at them.
ASSUME ClassesAssumption ==
  \A c \in DOMAIN Classes :
    /\ Classes[c].traffic_class \in TrafficClasses
    /\ Classes[c].deadline_tolerance \in Nat
    /\ Classes[c].latency_budget \subseteq Nat
    /\ Classes[c].dscp \in Nat

ASSUME PortAssumption == PortRates \subseteq Nat \ {0} /\ MaxStreams \in Nat

\* Every share of every cycle is a whole number of ticks.
ASSUME GrainAssumption ==
  /\ Grain \in Nat \ {0}
  /\ \A s, t \in Shapes, p \in PortRates :
       /\ (8000 * Grain) % p = 0
       /\ (ByteTicks(p) * s.period) % t.period = 0

\* No port is so fast (a Tb/s) that a guard band rounds to no time at all.
ASSUME GuardAssumption == \A p \in PortRates : GuardTicks(p) >= Grain

\* What _validate does not ask of a profile, and the shipped one does: the
\* classes are as urgent for the bridge as for the applications, and a more
\* urgent class never asks for a lower mark.
UrgencyIsOrder ==
  \A c, d \in DOMAIN Classes :
    Classes[c].pcp > Classes[d].pcp => Classes[c].traffic_class > Classes[d].traffic_class
MarksFollowUrgency ==
  \A c, d \in DOMAIN Classes : Classes[c].pcp >= Classes[d].pcp => Classes[c].dscp >= Classes[d].dscp

\* What the fallback map of the shipped profile does, and _validate does not ask
\* of it: a class it moves goes down one ("moves everything down one"), takes
\* along the class it would run into, and the class at 7 is moved.
FallbackStepsDown ==
  /\ \A c, d \in DOMAIN ClassTable :
       c # d => /\ ClassTable[c].pcp # ClassTable[d].pcp
                /\ ClassTable[c].traffic_class # ClassTable[d].traffic_class
  /\ \A c \in DOMAIN ClassTable :
       /\ ClassTable[c].pcp \in 0 .. 7 /\ ClassTable[c].traffic_class \in 0 .. 7
       /\ ClassTable[c].pcp = 7 => c \in DOMAIN PcpFallback
  /\ \A c \in DOMAIN ClassTable \cap DOMAIN PcpFallback :
       LET below == PcpFallback[c]
       IN  /\ below = [ pcp |-> ClassTable[c].pcp - 1,
                        traffic_class |-> ClassTable[c].traffic_class - 1 ]
           /\ \A d \in DOMAIN ClassTable :
                \/ ClassTable[d].pcp = below.pcp
                \/ ClassTable[d].traffic_class = below.traffic_class
                => d \in DOMAIN PcpFallback

Init == r = First /\ q = << >> /\ port = 0

Edit ==
  /\ q = << >>
  /\ \E f \in DOMAIN FieldValues : \E v \in FieldValues[f] : r' = [r EXCEPT ![f] = v]
  /\ UNCHANGED <<q, port>>

Join ==
  /\ Len(q) < MaxStreams
  /\ q = << >> => r = First
  /\ r' \in Shapes
  /\ q' = Append(q, Resolve(r'))
  /\ port' \in IF q = << >> THEN PortRates ELSE {port}

Leave ==
  /\ q # << >>
  /\ q' = Tail(q)
  /\ IF Len(q) = 1 THEN r' = First /\ port' = 0 ELSE UNCHANGED <<r, port>>

Next == Edit \/ Join \/ Leave

Spec == Init /\ [][Next]_<<r, q, port>>

-----------------------------------------------------------------------------
(* The mapper.                                                             *)

\* Fragmentation loses and invents nothing: the fragments carry the payload,
\* no fewer would, and the wire pays 126 bytes of headers for each of them
\* (mapper.py:61-79, "charging it as one is how bandwidth plans come out
\* optimistic").
FramingIsExact ==
  LET p == r.payload_bytes
      n == FramesFor(p)
  IN  p > 0 => /\ (n - 1) * USABLE < p /\ p <= n * USABLE
               /\ WireBytes(p) = p + 126 * n

\* A resolved stream is configured with nothing its link cannot do, and gives
\* up nothing else: gates, credits and preemption each only where the link lacks
\* that very one, and path redundancy nowhere (mapper.py:286-309).
ResolutionIsHonest ==
  Resolvable(r) =>
    LET tsn  == Resolve(r).tsn
        cls  == Classes[r.qos_class]
        link == LinkOf(r)
    IN  /\ tsn.shaper = "tas" => link.tas
        /\ tsn.shaper = "cbs" => link.cbs
        /\ tsn.redundancy # "none" => link.frer
        /\ tsn.preemption = "express" => link.preemption
        /\ tsn.shaper # cls.shaper =>
             /\ tsn.shaper = "strict_priority"
             /\ \/ cls.shaper = "tas" /\ ~link.tas
                \/ cls.shaper = "cbs" /\ ~link.cbs
        /\ tsn.preemption # cls.preemption => ~link.preemption
        /\ tsn.redundancy = RedundancyOf(r)

\* A talker that keeps its period never breaks the contract it is given, and
\* is declared dead only after it has missed its deadline (mapper.py:182-219).
HealthyTalkerKeepsContract ==
  Resolvable(r) =>
    LET dds == DdsQos(r)
    IN  /\ \A d \in dds.deadline : d >= r.period
        /\ \A lease \in dds.lease : /\ \A d \in dds.deadline : lease > d
                                    /\ lease >= 2 * r.period

\* Taking PCP 7 from the applications moves classes down but keeps their order
\* of urgency, and no two share a priority or a queue (mapper.py:139-169).
PolicyKeepsUrgency ==
  r.qos_class \in DOMAIN ClassTable =>
    \A c \in (DOMAIN ClassTable) \ {r.qos_class}, policy \in BOOLEAN :
      LET now == ClassesUnder(policy)
      IN  /\ now[c].pcp # now[r.qos_class].pcp
          /\ now[c].traffic_class # now[r.qos_class].traffic_class
          /\ now[c].pcp < now[r.qos_class].pcp <=>
               ClassTable[c].pcp < ClassTable[r.qos_class].pcp
          /\ ~policy => now[c].pcp # 7

-----------------------------------------------------------------------------
(* The gate schedule.                                                      *)

Schedulable == Scheduled(q) # {} /\ WindowsFit(q, port)

Table == GateParameterTable(GateControlList(q, port))

OpenFor(tc) == { i \in DOMAIN Table.entries : tc \in Table.entries[i].gates }

\* The table the bridge is given opens each protected class's gate in one
\* window and keeps every other gate shut in it; the rest of the classes share
\* what is left of the cycle, if anything is (mapper.py:384-401).
GatesPartitionCycle ==
  Schedulable =>
    /\ \A tc \in Protected(q) :
         \E i \in DOMAIN Table.entries :
           OpenFor(tc) = {i} /\ Table.entries[i].gates = {tc}
    /\ Used(q, port) + Grain <= CycleTicks(q) =>
         \A tc \in TrafficClasses \ Protected(q) : Cardinality(OpenFor(tc)) = 1

\* The windows add up to the cycle, give or take the rounding of each to a
\* nanosecond (test_gate_control_list_fits_its_cycle).
ScheduleFillsCycle ==
  Schedulable =>
    LET total == MapThenSumSet(LAMBDA i : Table.entries[i].ns, DOMAIN Table.entries)
    IN  /\ total <= Table.cycle + Len(Table.entries)
        /\ total >= Table.cycle - Len(Table.entries)

\* Every gated stream gets a window in which one of its samples passes ("the
\* cycle is the shortest stream period, so every TAS stream gets at least one
\* window per period", mapper.py:362).
EveryStreamGetsAWindow ==
  Schedulable =>
    \A i \in Scheduled(q) :
      Window(q, q[i].tsn.traffic_class, port) >= q[i].wire * ByteTicks(port)

-----------------------------------------------------------------------------
(* The endpoint.                                                           *)

\* The priority DDS sets is the one the network schedules: it leaves the
\* stream's VLAN device with the PCP the bridge expects, in a queue it shares
\* with its own class only, and a more urgent class never has a later queue.  A
\* priority no stream has goes to the least urgent queue there is
\* (emit_vlan.py:3-7 and 12-16, "every frame leaves with PCP 0").
PriorityReachesItsQueue ==
  \A i, j \in DOMAIN q :
    LET queue(s) == PrioMap(q)[TransportPriority(s)]
    IN  /\ \E d \in VlanDevices(q) : d.vlan = q[i].vlan
        /\ \A d \in VlanDevices(q) :
             d.vlan = q[i].vlan => WirePcp(d, TransportPriority(q[i])) = q[i].pcp
        /\ queue(q[i]) = queue(q[j]) <=> q[i].tsn.traffic_class = q[j].tsn.traffic_class
        /\ q[i].pcp > q[j].pcp => queue(q[i]) < queue(q[j])
        /\ \A prio \in 0 .. 15 :
             (\A k \in DOMAIN q : q[k].pcp # prio) => PrioMap(q)[prio] >= queue(q[i])

\* Endpoint and bridge shape the same queues, and not always alike.  The bridge
\* reserves for every stream of a class, "because the shaper serves the queue,
\* not the stream" (emit_yang.py:93-95); each `tc qdisc replace` undoes the one
\* before it (emit_vlan.py:60-64), so the endpoint's queue has the slopes of the
\* class's last stream: all that the bridge reserves where the class has one stream
\* on the port, and less where it has more.
EndpointShapesLastStream ==
  LET sending(tc) == { PrioMap(q)[TransportPriority(q[i])] :
                         i \in { j \in DOMAIN q : q[j].tsn.traffic_class = tc } }
      shaped      == { i \in DOMAIN q : q[i].tsn.shaper = "cbs" }
  IN  /\ DOMAIN CbsQdiscs(q) = UNION { sending(tc) : tc \in DOMAIN CbsaTable(q) }
      /\ \A i \in shaped :
           LET tc   == q[i].tsn.traffic_class
               mine == { CbsQdiscs(q)[queue] : queue \in sending(tc) }
           IN  /\ mine = {i} <=> \A j \in shaped : j > i => q[j].tsn.traffic_class # tc
               /\ mine = CbsaTable(q)[tc] <=>
                    \A j \in shaped : q[j].tsn.traffic_class = tc => j = i

\* In the window of a protected class the endpoint opens the queue of that
\* class ("mqprio to split traffic classes onto hardware queues, then taprio or
\* cbs per class", emit_vlan.py:34-35).
EndpointOpensProtectedQueue ==
  Schedulable =>
    \A tc \in Protected(q) :
      \E i \in DOMAIN TaprioEntries(GateControlList(q, port)) :
        LET e == TaprioEntries(GateControlList(q, port))[i]
        IN  tc \in e.gates /\ Queue(q, tc) \in OpenQueues(q, e)

-----------------------------------------------------------------------------
(* The DDS profiles.                                                       *)

\* One stream has one contract (mapper.py:179-180, "Vendor XML is generated from
\* this"), and whichever vendor is at either end, a writer and a reader of it
\* match, unless the reader is Fast DDS's and the class has a latency budget: that
\* profile leaves the budget out (fastdds/emit.py:79-101), which asks the writer for
\* none.  A talker that keeps its period meets what is written.
VendorsMatchButForBudget ==
  Resolvable(r) =>
    LET writers  == { Parsed(WriterProfile(r)), EntityQos(r) }
        reader   == Parsed(ReaderProfile(r))
        budgeted == Budget(EntityQos(r)) > 0
    IN  /\ \A w \in writers : Compatible(w, EntityQos(r))
        /\ \A w \in writers : Compatible(w, reader) <=> ~budgeted
        /\ \A e \in writers \cup {reader} : \A d \in e.deadline : d >= r.period

\* A participant that carries several classes marks its packets as its most
\* urgent one, by the priority the network gives it (cyclonedds/emit.py:26-28).
ParticipantMarksItsMostUrgent ==
  \A i \in DOMAIN q :
    (\A j \in DOMAIN q : q[j].pcp <= q[i].pcp) =>
      DiffServField({ q[j].qos_class : j \in DOMAIN q }) = 4 * Classes[q[i].qos_class].dscp
=============================================================================
