---------------------------- MODULE MCConfiguration ----------------------------
(***************************************************************************)
(* Configuration on the shipped profile.  Payloads sit on both sides of    *)
(* every fragment boundary, and unknown names, a zero payload and a zero   *)
(* period are in the grid.  The shapes mix the classes that are gated with *)
(* those that are not, periods that divide each other and periods that do  *)
(* not, and a safety stream whose own link has no gates; they meet on a    *)
(* gigabit port and on a 10 Mb/s one.                                      *)
(***************************************************************************)
EXTENDS Configuration, QosProfile

Payloads == {0, 1, 1415, 1416, 1417, 2832, 2833, 14161, 30000}
Periods  == {0, 250, 10000, 100000}

\* The shipped links have all features or none; these lack one each.
Lacking(feature) == [ProfileLinks["multigige_1g"] EXCEPT ![feature] = FALSE]

MCLinks ==
  ProfileLinks @@ [ no_gates |-> Lacking("tas"), no_credits |-> Lacking("cbs"),
                    no_preemption |-> Lacking("preemption"), no_frer |-> Lacking("frer") ]

MCFieldValues ==
  [ qos_class     |-> (DOMAIN ProfileClasses) \cup {"UNKNOWN"},
    link          |-> (DOMAIN MCLinks) \cup {"unknown"},
    payload_bytes |-> Payloads,
    period        |-> Periods,
    domain        |-> {{}, {"body"}, {"unknown"}},
    redundancy    |-> {{}, {"none"}, {"frer_dual"}},
    durability    |-> {{}, {"volatile"}, {"unknown"}},
    event_driven  |-> BOOLEAN ]

Request(class, payload, period, link) ==
  [ name |-> "s", qos_class |-> class, payload_bytes |-> payload,
    period |-> period, link |-> link, domain |-> {}, durability |-> {},
    redundancy |-> {}, event_driven |-> FALSE ]

MCShapes ==
  { Request("REDUNDANT_SAFETY", 128, 500, "multigige_1g"),
    Request("REDUNDANT_SAFETY", 128, 4000, "multigige_1g"),
    Request("REDUNDANT_SAFETY", 3000, 6000, "multigige_1g"),
    Request("SAFETY_CRITICAL", 128, 4000, "multigige_1g"),
    Request("SAFETY_CRITICAL", 128, 20000, "multigige_1g"),
    Request("SAFETY_CRITICAL", 128, 20000, "t1s_10m"),
    Request("REALTIME", 1374, 4000, "multigige_1g"),
    Request("BULK_DATA", 1374, 4000, "multigige_1g"),
    Request("BEST_EFFORT", 128, 20000, "multigige_1g") }

\* What some theorems ask of a profile (ConfigurationProofs).
ASSUME OrderAssumption == UrgencyIsOrder /\ MarksFollowUrgency /\ FallbackStepsDown

MCFirst == Request("REALTIME", 1, 10000, "multigige_1g")
=============================================================================
