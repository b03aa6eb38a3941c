--------------------------- MODULE MCStreamMonitor ---------------------------
(***************************************************************************)
(* StreamMonitor on three streams of the shipped profile: one whose        *)
(* deadline a lost sample breaks and one whose it does not, and one with   *)
(* no deadline.  A step of the clock is half the first one's period.       *)
(***************************************************************************)
EXTENDS StreamMonitor, QosProfile

Talker(class, eventDriven) ==
  [ name |-> "s", qos_class |-> class, payload_bytes |-> 128, period |-> 5000,
    link |-> "multigige_1g", domain |-> {}, durability |-> {}, redundancy |-> {},
    event_driven |-> eventDriven ]

MCMonitored ==
  { Talker("SAFETY_CRITICAL", FALSE), Talker("REALTIME", FALSE), Talker("REALTIME", TRUE) }

\* Locked clocks a little apart either way; free ones a period apart.
MCClocks ==
  { [sync |-> "same_host", offset |-> 0],
    [sync |-> "ptp_locked", offset |-> 500], [sync |-> "ptp_locked", offset |-> -500],
    [sync |-> "unsynchronised", offset |-> 5000] }
=============================================================================
