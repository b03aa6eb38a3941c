---------------------------- MODULE EndpointShaping ----------------------------
(***************************************************************************)
(* network/vlan/emit_vlan.py: the same streams at a Linux endpoint, as     *)
(* `ip link` and `tc` commands.                                            *)
(*                                                                         *)
(* A frame goes from the priority DDS gives its socket to a hardware queue *)
(* and, on its VLAN device, to the PCP on the wire.  What the kernel makes *)
(* of the commands is external: it is the meaning they are written for.    *)
(***************************************************************************)
EXTENDS GateSchedule

\* dds["transport_priority"]: what the socket, and the kernel, sort by.
TransportPriority(s) == Classes[s.qos_class].pcp

-----------------------------------------------------------------------------
(* ip link.                                                                *)

\* A later stream of the same priority replaces an earlier one's PCP.
EgressQosMap(q) ==
  [ prio \in { TransportPriority(q[i]) : i \in DOMAIN q } |->
      q[Max({ i \in DOMAIN q : TransportPriority(q[i]) = prio })].pcp ]

\* One VLAN device per domain in use.
VlanDevices(q) ==
  { [vlan |-> q[i].vlan, domain |-> q[i].domain, egress |-> EgressQosMap(q)] :
      i \in DOMAIN q }

\* A priority that is not in the map leaves with PCP 0.
WirePcp(device, prio) == IF prio \in DOMAIN device.egress THEN device.egress[prio] ELSE 0

-----------------------------------------------------------------------------
(* tc.                                                                     *)

InUse(q) == { q[i].tsn.traffic_class : i \in DOMAIN q }

\* One queue per class in use, most urgent first.
Queue(q, tc) == Cardinality({ d \in InUse(q) : d > tc })

\* Mutant: a priority nobody uses goes to the first queue.
PrioMapToFirst(q) ==
  [ prio \in 0 .. 15 |->
      LET match == { i \in DOMAIN q : q[i].pcp = prio }
      IN  IF match = {} THEN 0 ELSE Queue(q, q[Min(match)].tsn.traffic_class) ]

\* mqprio's map from a priority to a queue.
PrioMap(q) ==
  [ prio \in 0 .. 15 |->
      LET match == { i \in DOMAIN q : q[i].pcp = prio }
      IN  IF match = {} THEN Cardinality(InUse(q)) - 1
          ELSE Queue(q, q[Min(match)].tsn.traffic_class) ]

\* Mutant: the queue is the class's number.
CbsQdiscsByClass(q) ==
  LET shaped == { i \in DOMAIN q : q[i].tsn.shaper = "cbs" }
  IN  [ queue \in { q[i].tsn.traffic_class : i \in shaped } |->
          Max({ i \in shaped : q[i].tsn.traffic_class = queue }) ]

\* The stream whose slopes the shaper of a queue has: each `tc qdisc replace`
\* undoes the one before it.
CbsQdiscs(q) ==
  LET shaped == { i \in DOMAIN q : q[i].tsn.shaper = "cbs" }
  IN  [ queue \in { Queue(q, q[i].tsn.traffic_class) : i \in shaped } |->
          Max({ i \in shaped : Queue(q, q[i].tsn.traffic_class) = queue }) ]

\* taprio's schedule: the masks of the gate control list as they are.
TaprioEntries(gcl) ==
  IF gcl.enabled THEN SelectSeq(gcl.entries, LAMBDA e : e.ns > 0) ELSE << >>

\* The queues an entry opens: taprio numbers its classes as mqprio its queues.
OpenQueues(q, e) == e.gates \cap 0 .. Cardinality(InUse(q)) - 1
=============================================================================
