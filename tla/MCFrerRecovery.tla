---------------------------- MODULE MCFrerRecovery ----------------------------
(***************************************************************************)
(* FrerRecovery on streams of the shipped profile: periods below, at and   *)
(* above the 2 ms the window is made for, and samples of two frames.       *)
(***************************************************************************)
EXTENDS FrerRecovery, QosProfile

Redundancy(payload, period) ==
  [ name |-> "s", qos_class |-> "REDUNDANT_SAFETY", payload_bytes |-> payload,
    period |-> period, link |-> "multigige_1g", domain |-> {}, durability |-> {},
    redundancy |-> {}, event_driven |-> FALSE ]

MCRedundant ==
  { Redundancy(128, 500), Redundancy(128, 1000), Redundancy(128, 30000),
    Redundancy(2000, 1000) }

\* What the theorems that are not about every stream and path ask for.
ASSUME HypothesesAssumption ==
  /\ \A s \in Skews : s < 10000
  /\ \A r \in Redundant :
       ~r.event_driven /\ Classes[r.qos_class].deadline_tolerance >= 15
=============================================================================
