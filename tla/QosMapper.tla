------------------------------ MODULE QosMapper ------------------------------
(***************************************************************************)
(* middleware/qos/mapper.py: from a stream request (a class name and a     *)
(* traffic description) to everything the network and the middleware are   *)
(* configured with.                                                        *)
(*                                                                         *)
(* A request is a record; a field the caller left out is missing from its  *)
(* DOMAIN, and an optional override is {} (not given) or a singleton.      *)
(* Times are microseconds, so a rate in Mb/s is bits per sample divided by *)
(* the period.  Floats are exact rationals here: rates are compared by     *)
(* cross-multiplication, never rounded.                                    *)
(***************************************************************************)
EXTENDS Integers, Folds

CONSTANTS
  ClassTable,      \* qos-classes.yaml: class name -> derived values
  AllowPcp7,       \* policy.allow_pcp7_for_applications
  PcpFallback,     \* class name -> pcp/traffic_class when AllowPcp7 is off
  Domains,         \* domain name -> VLAN
  Links,           \* link name -> rate (Mb/s) and TSN features
  LinkAdmissible   \* link name -> classes, for the links that restrict them

-----------------------------------------------------------------------------
(* The registry.                                                           *)

\* dict.update: the override's fields win.
Overridden(record, override) ==
  [ f \in DOMAIN record \cup DOMAIN override |->
      IF f \in DOMAIN override THEN override[f] ELSE record[f] ]

\* Mutant: the fallback is applied when PCP 7 is allowed.
ClassesInverted(allowPcp7) ==
  [ c \in DOMAIN ClassTable |->
      IF ~allowPcp7 \/ c \notin DOMAIN PcpFallback THEN ClassTable[c]
      ELSE Overridden(ClassTable[c], PcpFallback[c]) ]

\* _apply_pcp_policy: the table as the policy has it.
ClassesUnder(allowPcp7) ==
  [ c \in DOMAIN ClassTable |->
      IF allowPcp7 \/ c \notin DOMAIN PcpFallback THEN ClassTable[c]
      ELSE Overridden(ClassTable[c], PcpFallback[c]) ]

Classes == ClassesUnder(AllowPcp7)

\* QosRegistry._validate raises ValueError, and no registry exists, unless
\* this holds.
RegistryValid ==
  /\ \A c \in DOMAIN Classes :
       /\ Classes[c].pcp \in 0 .. 7
       /\ Classes[c].pcp = 7 => AllowPcp7
       /\ Classes[c].default_domain \in DOMAIN Domains
       /\ Classes[c].deadline_tolerance >= 10
  /\ \A c, d \in DOMAIN Classes : Classes[c].pcp = Classes[d].pcp => c = d

ASSUME RegistryAssumption == RegistryValid

-----------------------------------------------------------------------------
(* Framing.  A sample larger than one MTU is fragmented, and every         *)
(* fragment pays RTPS, UDP/IP and Ethernet overhead of its own.            *)

WIRE_OVERHEAD == 8 + 14 + 4 + 4 + 12
MIN_PAYLOAD   == 46
MAX_PAYLOAD   == 1500
L3_OVERHEAD   == 28 + 56
USABLE        == MAX_PAYLOAD - L3_OVERHEAD
MAX_FRAME_BYTES == MAX_PAYLOAD + 14 + 4 + 4
PREEMPT_RESIDUE_BYTES == 143

Least(a, b)    == IF a <= b THEN a ELSE b
Greatest(a, b) == IF a >= b THEN a ELSE b
CeilDiv(a, b)  == (a + b - 1) \div b

\* Mutant: a payload that fills its last fragment gets one more.
FramesOffByOne(payload) == payload \div USABLE + 1

FramesFor(payload) == Greatest(1, CeilDiv(payload, USABLE))

\* Payload bytes the i-th fragment carries.
Chunk(payload, i) == Least(payload - (i - 1) * USABLE, USABLE)

FrameOnWire(payload, i) ==
  Greatest(L3_OVERHEAD + Chunk(payload, i), MIN_PAYLOAD) + WIRE_OVERHEAD

WireBytes(payload) ==
  MapThenFoldSet(+, 0, LAMBDA i : FrameOnWire(payload, i),
                 LAMBDA S : CHOOSE i \in S : TRUE, 1 .. FramesFor(payload))

-----------------------------------------------------------------------------
(* Resolution.                                                             *)

OrElse(option, default) == IF option = {} THEN default ELSE CHOOSE x \in option : TRUE

DomainOf(r)     == OrElse(r.domain, Classes[r.qos_class].default_domain)
DurabilityOf(r) == OrElse(r.durability, Classes[r.qos_class].durability)
RedundancyOf(r) == OrElse(r.redundancy, Classes[r.qos_class].redundancy)
LinkOf(r)       == Links[r.link]

\* The lookups and value checks resolve makes before it derives anything.
Recognised(r) ==
  /\ r.qos_class \in DOMAIN Classes
  /\ r.durability \subseteq {"volatile", "transient_local"}
  /\ r.link \in DOMAIN Links
  /\ r.link \in DOMAIN LinkAdmissible => r.qos_class \in LinkAdmissible[r.link]
  /\ DomainOf(r) \in DOMAIN Domains
  /\ r.payload_bytes > 0

\* rate_hz divides by the period, and nothing checks the period first.
DividesByZero(r) == Recognised(r) /\ r.period = 0

\* rate_mbps > mbps, without the division.
RateExceeds(r, mbps) == 8 * WireBytes(r.payload_bytes) > mbps * r.period

\* resolve returns a stream; otherwise it raises KeyError, ValueError or
\* AdmissionError (or ZeroDivisionError, above).
Resolvable(r) ==
  /\ Recognised(r)
  /\ r.period # 0
  /\ \A ceiling \in Classes[r.qos_class].max_rate : ~RateExceeds(r, ceiling)
  /\ ~RateExceeds(r, LinkOf(r).rate)
  /\ RedundancyOf(r) # "none" => LinkOf(r).frer

\* Mutant: without either of gates and credits, the link has no shapers.
ShaperOfEither(r) ==
  LET wanted == Classes[r.qos_class].shaper
  IN  IF wanted \in {"tas", "cbs"} /\ (~LinkOf(r).tas \/ ~LinkOf(r).cbs)
      THEN "strict_priority" ELSE wanted

\* A link without gates or credits degrades the shaper to a strict queue.
ShaperOf(r) ==
  LET wanted == Classes[r.qos_class].shaper
  IN  IF \/ wanted = "tas" /\ ~LinkOf(r).tas
         \/ wanted = "cbs" /\ ~LinkOf(r).cbs
      THEN "strict_priority" ELSE wanted

\* The stream resolve returns for a resolvable request.
Resolve(r) ==
  LET cls    == Classes[r.qos_class]
      wire   == WireBytes(r.payload_bytes)
      frames == FramesFor(r.payload_bytes)
  IN  [ name |-> r.name, qos_class |-> r.qos_class, link |-> r.link,
        period |-> r.period, wire |-> wire, frames |-> frames,
        domain |-> DomainOf(r), vlan |-> Domains[DomainOf(r)], pcp |-> cls.pcp,
        tsn |-> [ traffic_class |-> cls.traffic_class,
                  shaper |-> ShaperOf(r),
                  redundancy |-> RedundancyOf(r),
                  preemption |-> IF LinkOf(r).preemption THEN cls.preemption
                                 ELSE "not_supported",
                  max_frame |-> Least(MAX_FRAME_BYTES, wire \div frames),
                  degraded |-> {} ] ]
-----------------------------------------------------------------------------
(* The DDS policies that follow from the class and the period.             *)

\* DEADLINE is the period times the class's tolerance, and is off ({}) for
\* an event-driven stream.
Deadline(r) ==
  IF r.event_driven THEN {}
  ELSE {(r.period * Classes[r.qos_class].deadline_tolerance) \div 10}

\* Mutant: the lease is the deadline itself.
LeaseOfOneDeadline(r) ==
  IF Classes[r.qos_class].liveliness
  THEN {Greatest(100000, OrElse(Deadline(r), r.period))}
  ELSE {}

\* LIVELINESS lease, for the classes in which a silent talker is a fault.
Lease(r) ==
  IF Classes[r.qos_class].liveliness
  THEN {Greatest(100000, 3 * OrElse(Deadline(r), r.period))}
  ELSE {}

DdsQos(r) ==
  LET cls == Classes[r.qos_class]
  IN  [ reliability |-> cls.reliability, durability |-> DurabilityOf(r),
        depth |-> cls.depth, max_samples_per_instance |-> Greatest(1, cls.depth),
        deadline |-> Deadline(r), lease |-> Lease(r),
        latency_budget |-> cls.latency_budget,
        transport_priority |-> cls.pcp, dscp |-> cls.dscp ]

=============================================================================
