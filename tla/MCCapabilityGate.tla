--------------------------- MODULE MCCapabilityGate ---------------------------
(***************************************************************************)
(* CapabilityGate on the device classes the repository ships, with two     *)
(* redundant streams, a credit-shaped one and one nothing is promised to.  *)
(* On a 10 Mb/s port the gates of brake fit its 500 us cycle, and those of *)
(* brake and steer together do not.                                        *)
(***************************************************************************)
EXTENDS CapabilityGate, QosProfile

Request(name, class, payload, period) ==
  [ name |-> name, qos_class |-> class, payload_bytes |-> payload,
    period |-> period, link |-> "multigige_1g", domain |-> {}, durability |-> {},
    redundancy |-> {}, event_driven |-> FALSE ]

MCRequestOf ==
  [ brake |-> Request("brake", "REDUNDANT_SAFETY", 330, 500),
    steer |-> Request("steer", "REDUNDANT_SAFETY", 128, 4000),
    lidar |-> Request("lidar", "REALTIME", 1374, 4000),
    log   |-> Request("log", "BEST_EFFORT", 1374, 100000) ]

MCObjects == DOMAIN MCRequestOf

ASSUME CallersAssumption == NamesDistinct /\ BatchesDistinct

MCBatches == { << >>, <<"brake", "steer">>, <<"steer", "lidar">>, <<"log", "brake">> }

For(stream, device, capability) ==
  [stream |-> stream, device |-> device, capability |-> capability]

\* No waiver; a bench without FRER; one stream on a plain switch, for all it
\* needs; one stream anywhere without preemption.
MCWaiverSets ==
  { {},
    { For("*", "tsn_bridge_no_frer", "frer") },
    { For("steer", "ethernet_bridge_plain", c) : c \in {"frer", "tas", "preemption"} },
    { For("steer", "*", "preemption") } }

\* A site of two devices, and a file whose second device has an unknown class.
MCSiteFiles ==
  { << <<"zone", "tsn_bridge_full">>, <<"sensor", "unverified">> >>,
    << <<"zone", "tsn_bridge_no_frer">>, <<"sensor", "vendor_x">> >> }
=============================================================================
