----------------------------- MODULE FrerRecovery -----------------------------
(***************************************************************************)
(* 802.1CB at work: the frames of one redundant stream on two paths, and   *)
(* the recovery function of the listener configured by frer_config         *)
(* (middleware/qos/mapper.py) and network/frer/emit_frer.py.               *)
(*                                                                         *)
(* Frames are numbered by the order they are sent in; the talker may       *)
(* restart once, and its sequence numbers with it.  Each path keeps its    *)
(* order, loses any frame it likes, and one is slower by skew.  Time moves *)
(* with the arrivals, in microseconds.  The vector algorithm is the        *)
(* standard's (802.1CB, 7.4.3.4) and stands in no file of the repository.  *)
(***************************************************************************)
EXTENDS QosMapper, FiniteSets

CONSTANTS
  Redundant,  \* requests of the streams that are replicated
  Skews,      \* differences in delay of the two paths
  MaxFrames,  \* frames the talker sends
  Restarts    \* after which frame the talker restarts; MaxFrames for never

\* A period is whole microseconds, a tolerance whole tenths of a period.
ASSUME RedundantAssumption ==
  \A r \in Redundant :
    /\ Resolvable(r) /\ RedundancyOf(r) = "frer_dual"
    /\ r.period \in Nat /\ r.payload_bytes \in Nat
    /\ Classes[r.qos_class].deadline_tolerance \in Nat

ASSUME PathsAssumption ==
  MaxFrames \in Nat /\ Skews \subseteq Nat /\ Restarts \subseteq 0 .. MaxFrames

VARIABLES
  request, skew, restart,  \* the stream, the paths and the talker
  next,      \* path -> the frame that arrives next
  now,       \* the time of the latest arrival
  rec,       \* the recovery function: [any, top, seen, at]
  passed,    \* frame -> how often it was passed on to the listener
  dropped,   \* frames one path lost and the other has not delivered
  outage     \* history: a frame was lost on both paths

vars == <<request, skew, restart, next, now, rec, passed, dropped, outage>>

Frames == 1 .. MaxFrames
Paths  == {"fast", "slow"}

-----------------------------------------------------------------------------
(* The configuration.                                                      *)

Burst(r) == Greatest(2, CeilDiv(2000, r.period))

\* Mutant: the history is the burst.
WindowOfOneBurst(r) ==
  [ history_length |-> Burst(r), reset_timeout |-> Greatest(10000, 4 * r.period) ]

\* Mutant: the timeout is a matter of the period alone.
WindowOfPeriods(r) ==
  [ history_length |-> Greatest(4, 2 * Burst(r)), reset_timeout |-> 4 * r.period ]

\* Mutant: the timeout is generous.
WindowOfTenPeriods(r) ==
  [ history_length |-> Greatest(4, 2 * Burst(r)),
    reset_timeout |-> Greatest(10000, 10 * r.period) ]

\* frer_config: history in frames, timeout in microseconds.
RecoveryWindow(r) ==
  [ history_length |-> Greatest(4, 2 * Burst(r)),
    reset_timeout |-> Greatest(10000, 4 * r.period) ]

\* sequence_recovery writes whole milliseconds.
Window == [RecoveryWindow(request) EXCEPT !.reset_timeout = 1000 * (@ \div 1000)]

-----------------------------------------------------------------------------
(* Talker and paths.                                                       *)

\* All the frames of a sample leave together.
SentAt(f) == ((f - 1) \div FramesFor(request.payload_bytes)) * request.period

SequenceNumber(f) == IF f <= restart THEN f ELSE f - restart

ArrivesAt(path) ==
  SentAt(next[path]) + (IF path = "slow" THEN skew ELSE 0)

Init ==
  /\ request \in Redundant /\ skew \in Skews /\ restart \in Restarts
  /\ next = [p \in Paths |-> 1]
  /\ now = 0
  /\ rec = [any |-> TRUE, top |-> 0, seen |-> {}, at |-> 0]
  /\ passed = [f \in Frames |-> 0]
  /\ dropped = {}
  /\ outage = FALSE

\* The next arrival is on this path.
Earliest(path) ==
  /\ next[path] \in Frames
  /\ \A p \in Paths : next[p] \in Frames => ArrivesAt(path) <= ArrivesAt(p)

Lose(path) ==
  /\ Earliest(path)
  /\ next' = [next EXCEPT ![path] = @ + 1]
  /\ now' = ArrivesAt(path)
  /\ LET f == next[path]
     IN  \/ /\ \A p \in Paths : next[p] <= f
            /\ dropped' = dropped \cup {f}
            /\ UNCHANGED outage
         \/ /\ \E p \in Paths : next[p] > f
            /\ dropped' = dropped \ {f}
            /\ outage' = (outage \/ f \in dropped)
  /\ UNCHANGED <<request, skew, restart, rec, passed>>

\* The vector recovery algorithm, and its timer.
Accepts(seq, time) ==
  \/ rec.any \/ time - rec.at >= Window.reset_timeout
  \/ seq > rec.top /\ seq - rec.top < Window.history_length
  \/ /\ seq <= rec.top /\ rec.top - seq < Window.history_length
     /\ seq \notin rec.seen

Recovered(seq, time) ==
  IF rec.any \/ time - rec.at >= Window.reset_timeout
  THEN [any |-> FALSE, top |-> seq, seen |-> {seq}, at |-> time]
  ELSE LET top == Greatest(rec.top, seq)
       IN  [ any |-> FALSE, top |-> top, at |-> time,
             seen |-> { s \in rec.seen \cup {seq} : top - s < Window.history_length } ]

Deliver(path) ==
  LET f   == next[path]
      seq == SequenceNumber(f)
  IN  /\ Earliest(path)
      /\ next' = [next EXCEPT ![path] = @ + 1]
      /\ now' = ArrivesAt(path)
      /\ IF Accepts(seq, now')
         THEN /\ rec' = Recovered(seq, now')
              /\ passed' = [passed EXCEPT ![f] = @ + 1]
         ELSE UNCHANGED <<rec, passed>>
      /\ dropped' = dropped \ {f}
      /\ UNCHANGED <<request, skew, restart, outage>>

\* Every frame has been through both paths.
Quiet == (\A p \in Paths : next[p] \notin Frames) /\ UNCHANGED vars

Next == (\E p \in Paths : Lose(p) \/ Deliver(p)) \/ Quiet

Spec == Init /\ [][Next]_vars

-----------------------------------------------------------------------------
(* Properties.                                                             *)

\* The listener never gets a frame twice, whatever is lost where and whenever
\* the talker restarts (emit_frer.py:81-83, "both are accepted and the
\* duplicate reaches the application").
AtMostOnce == \A f \in Frames : passed[f] <= 1

\* Frames that can be on the slow path while the fast one delivers a sample.
Overlap == FramesFor(request.payload_bytes) * (skew \div request.period + 1)

\* Redundancy works: as long as no frame is lost on both paths, the listener has
\* every frame that one of them delivered.  This holds for samples of one frame
\* and 2 ms of difference between the paths, and wherever the history is longer
\* than what is on the way (mapper.py:335-339, emit_frer.py:80-81).
RedundancyWorks ==
  /\ ~outage /\ restart = MaxFrames
  /\ \/ FramesFor(request.payload_bytes) = 1 /\ skew <= 2000
     \/ Overlap < Window.history_length
  => \A f \in Frames \ dropped : (\E p \in Paths : f < next[p]) => passed[f] = 1

\* A restart of the talker silences the stream for less than its liveliness
\* lease, as long as each frame gets through on one path: the reset timeout and
\* the lease follow from the same period (mapper.py:217-219 and 351).
RestartHealsWithinLease ==
  ~outage /\ dropped = {} => \A lease \in Lease(request) : now - rec.at < lease
=============================================================================
