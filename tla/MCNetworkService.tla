--------------------------- MODULE MCNetworkService ---------------------------
(***************************************************************************)
(* Instances of NetworkService for TLC.  One unit of bandwidth is 10 Mb/s: *)
(* a gigabit link holds 100 of them and admits 75.                         *)
(***************************************************************************)
EXTENDS NetworkService, QosProfile, TLC

\* A request with every override left at its default.
Request(name, class, payload, period, link) ==
  [ name |-> name, qos_class |-> class, payload_bytes |-> payload,
    period |-> period, link |-> link, domain |-> {}, durability |-> {},
    redundancy |-> {}, event_driven |-> FALSE ]

\* 150000, 175000 and 25000 bytes on the wire every 4 ms: 300, 350, 50 Mb/s.
Lidar  == Request("lidar", "REALTIME", 137652, 4000, "multigige_1g")
Camera == Request("camera", "REALTIME", 160636, 4000, "multigige_1g")
Brake  == Request("brake", "REDUNDANT_SAFETY", 22858, 4000, "multigige_1g")
\* The name of another stream, at a higher rate and on another link.
LidarFast == Request("lidar", "REALTIME", 160636, 4000, "multigige_1g")
LidarElsewhere == Request("lidar", "REALTIME", 137652, 4000, "multigige_2g5")
\* Bulk data, under a name in use, is not admissible on the edge bus.
MapOnEdgeBus == Request("brake", "BULK_DATA", 1374, 100000, "t1s_10m")
\* A period of zero, and a body without a period.
NoPeriod == [Request("camera", "REALTIME", 1374, 0, "multigige_1g") EXCEPT !.period = 0]
Partial  == [f \in (DOMAIN Lidar) \ {"period"} |-> IF f = "name" THEN "camera" ELSE Lidar[f]]

\* lidar, camera and brake fill the gigabit ceiling exactly; the faster lidar
\* is one step too many.
CapacityRequests == { Lidar, LidarFast, LidarElsewhere, Camera, Brake,
                      MapOnEdgeBus, NoPeriod, Partial }

\* Three names whose streams always fit together, for runs about scans.
ScanRequests == { Lidar, Camera, Brake }
=============================================================================
