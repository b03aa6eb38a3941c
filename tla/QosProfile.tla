----------------------------- MODULE QosProfile -----------------------------
(***************************************************************************)
(* The profile the platform ships: schemas/yaml/qos-classes.yaml as        *)
(* QosRegistry loads it.  Times are microseconds, rates Mb/s, deadline     *)
(* tolerances tenths of a period.  A YAML null is the empty set and a      *)
(* present optional value a singleton.  Descriptions are left out.         *)
(***************************************************************************)
EXTENDS Integers

\* Each class: what one of the five QoS class names stands for.
ProfileClasses ==
  [ BEST_EFFORT |->
      [ pcp |-> 0, traffic_class |-> 0, shaper |-> "best_effort",
        redundancy |-> "none", preemption |-> "preemptable",
        reliability |-> "best_effort", durability |-> "volatile", depth |-> 1,
        dscp |-> 0, latency_budget |-> {}, deadline_tolerance |-> 100,
        jitter_budget |-> {}, liveliness |-> FALSE, max_rate |-> {}, default_domain |-> "diagnostics" ],
    BULK_DATA |->
      [ pcp |-> 2, traffic_class |-> 2, shaper |-> "cbs",
        redundancy |-> "none", preemption |-> "preemptable",
        reliability |-> "reliable", durability |-> "transient_local", depth |-> 1,
        dscp |-> 10, latency_budget |-> {}, deadline_tolerance |-> 50,
        jitter_budget |-> {}, liveliness |-> FALSE, max_rate |-> {500}, default_domain |-> "diagnostics" ],
    REALTIME |->
      [ pcp |-> 4, traffic_class |-> 4, shaper |-> "cbs",
        redundancy |-> "none", preemption |-> "preemptable",
        reliability |-> "best_effort", durability |-> "volatile", depth |-> 2,
        dscp |-> 34, latency_budget |-> {10000}, deadline_tolerance |-> 20,
        jitter_budget |-> {5000}, liveliness |-> FALSE, max_rate |-> {2500}, default_domain |-> "adas" ],
    SAFETY_CRITICAL |->
      [ pcp |-> 6, traffic_class |-> 6, shaper |-> "tas",
        redundancy |-> "none", preemption |-> "express",
        reliability |-> "reliable", durability |-> "volatile", depth |-> 1,
        dscp |-> 46, latency_budget |-> {5000}, deadline_tolerance |-> 15,
        jitter_budget |-> {2500}, liveliness |-> TRUE, max_rate |-> {50}, default_domain |-> "chassis" ],
    REDUNDANT_SAFETY |->
      [ pcp |-> 7, traffic_class |-> 7, shaper |-> "tas",
        redundancy |-> "frer_dual", preemption |-> "express",
        reliability |-> "reliable", durability |-> "volatile", depth |-> 1,
        dscp |-> 46, latency_budget |-> {5000}, deadline_tolerance |-> 15,
        jitter_budget |-> {2500}, liveliness |-> TRUE, max_rate |-> {50}, default_domain |-> "chassis" ] ]

\* policy.allow_pcp7_for_applications as shipped.
ProfileAllowPcp7 == TRUE

\* What the classes become when PCP 7 is kept for network control.
ProfilePcpFallback ==
  [ REDUNDANT_SAFETY |-> [ pcp |-> 6, traffic_class |-> 6 ],
    SAFETY_CRITICAL  |-> [ pcp |-> 5, traffic_class |-> 5 ] ]

\* One virtual domain is one VLAN.
ProfileDomains ==
  [ chassis |-> 10, adas |-> 20, body |-> 30,
    infotainment |-> 40, diagnostics |-> 50, network_ctrl |-> 1 ]

TsnLink(mbps) == [ rate |-> mbps, preemption |-> TRUE, tas |-> TRUE, cbs |-> TRUE, frer |-> TRUE ]

ProfileLinks ==
  [ multigige_10g |-> TsnLink(10000),
    multigige_2g5 |-> TsnLink(2500),
    multigige_1g  |-> TsnLink(1000),
    t1s_10m |-> [ rate |-> 10, preemption |-> FALSE, tas |-> FALSE, cbs |-> FALSE, frer |-> FALSE ] ]

\* Links absent from this table carry every class.
ProfileLinkAdmissible ==
  [ t1s_10m |-> {"BEST_EFFORT", "SAFETY_CRITICAL", "REDUNDANT_SAFETY"} ]

-----------------------------------------------------------------------------
(* devices/device-classes.yaml: what bridges of each class can do.  Only   *)
(* the capabilities a requirement maps to are kept.                        *)

Ability(tas, cbs, preemption, frer) ==
  [ tas |-> tas, cbs |-> cbs, preemption |-> preemption, frer |-> frer ]

\* "unknown" is a YAML null: not measured yet.
ProfileDevices ==
  [ tsn_bridge_full          |-> Ability("yes", "yes", "yes", "yes"),
    tsn_bridge_no_frer       |-> Ability("yes", "yes", "yes", "no"),
    tsn_bridge_no_preemption |-> Ability("yes", "yes", "no", "yes"),
    ethernet_bridge_plain    |-> Ability("no", "no", "no", "no"),
    edge_multidrop_10m       |-> Ability("no", "no", "no", "no"),
    unverified               |-> Ability("unknown", "unknown", "unknown", "unknown") ]

\* What a stream requires, in the names devices use.
ProfileRequirementMap ==
  [ frer_dual |-> "frer", tas |-> "tas", cbs |-> "cbs", express |-> "preemption" ]
=============================================================================
