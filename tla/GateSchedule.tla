----------------------------- MODULE GateSchedule -----------------------------
(***************************************************************************)
(* 802.1Qbv: the gate control list of one egress port                      *)
(* (middleware/qos/mapper.py, build_gate_control_list) and the table       *)
(* network/tsn/emit_yang.py makes of it.                                   *)
(*                                                                         *)
(* A schedule is built from a sequence of resolved streams.  Times are     *)
(* ticks, Grain of them to the nanosecond; a gate mask is the set of       *)
(* traffic classes whose gates are open.                                   *)
(***************************************************************************)
EXTENDS QosMapper, Sequences, SequencesExt

CONSTANT Grain   \* ticks in a nanosecond: fine enough for every window to be whole

TrafficClasses == 0 .. 7

ByteTicks(port) == (8000 * Grain) \div port

GuardTicks(port) == PREEMPT_RESIDUE_BYTES * ByteTicks(port)

\* The streams, by position, that a gate protects.
Scheduled(q) == { i \in DOMAIN q : q[i].tsn.shaper = "tas" }

ScheduledIn(q, tc) == { i \in Scheduled(q) : q[i].tsn.traffic_class = tc }

Protected(q) == { q[i].tsn.traffic_class : i \in Scheduled(q) }

\* The cycle, in microseconds: the shortest scheduled period.
Cycle(q) == Min({ q[i].period : i \in Scheduled(q) })

CycleTicks(q) == Cycle(q) * 1000 * Grain

\* A stream slower than the cycle is charged a fraction of a sample.
Share(q, i, port) == q[i].wire * ((ByteTicks(port) * Cycle(q)) \div q[i].period)

Demand(q, tc, port) == MapThenSumSet(LAMBDA i : Share(q, i, port), ScheduledIn(q, tc))

Window(q, tc, port) == Demand(q, tc, port) + GuardTicks(port)

Used(q, port) == MapThenSumSet(LAMBDA tc : Window(q, tc, port), Protected(q))

\* Otherwise build_gate_control_list raises AdmissionError.
WindowsFit(q, port) == Scheduled(q) # {} => Used(q, port) <= CycleTicks(q)

\* round(x, 3) of microseconds: the nearest nanosecond, ties to even.
ToNs(ticks) ==
  LET ns   == ticks \div Grain
      rest == 2 * (ticks % Grain)
  IN  IF rest < Grain \/ (rest = Grain /\ ns % 2 = 0) THEN ns ELSE ns + 1

\* The i-th protected class, most urgent first.
Ranked(q, i) ==
  CHOOSE tc \in Protected(q) : Cardinality({ d \in Protected(q) : d >= tc }) = i

\* Mutant: the window for everything else keeps the protected gates open.
EntriesOpenToAll(q, port) ==
  [ i \in 1 .. Cardinality(Protected(q)) + 1 |->
      IF i <= Cardinality(Protected(q))
      THEN [gates |-> {Ranked(q, i)}, ns |-> ToNs(Window(q, Ranked(q, i), port))]
      ELSE [gates |-> TrafficClasses, ns |-> ToNs(CycleTicks(q) - Used(q, port))] ]

\* Mutant: the open window does not pay for the guard bands.
EntriesOverlong(q, port) ==
  [ i \in 1 .. Cardinality(Protected(q)) + 1 |->
      IF i <= Cardinality(Protected(q))
      THEN [gates |-> {Ranked(q, i)}, ns |-> ToNs(Window(q, Ranked(q, i), port))]
      ELSE [gates |-> TrafficClasses \ Protected(q),
            ns    |-> ToNs(CycleTicks(q) - Used(q, port) + GuardTicks(port))] ]

\* One window per protected class, then one for everything else.
Entries(q, port) ==
  [ i \in 1 .. Cardinality(Protected(q)) + 1 |->
      IF i <= Cardinality(Protected(q))
      THEN [gates |-> {Ranked(q, i)}, ns |-> ToNs(Window(q, Ranked(q, i), port))]
      ELSE [gates |-> TrafficClasses \ Protected(q),
            ns    |-> ToNs(CycleTicks(q) - Used(q, port))] ]

GateControlList(q, port) ==
  IF Scheduled(q) = {} THEN [enabled |-> FALSE]
  ELSE [enabled |-> TRUE, cycle |-> 1000 * Cycle(q), entries |-> Entries(q, port)]

-----------------------------------------------------------------------------
(* emit_yang.                                                              *)

\* Empty entries are dropped, neighbours with the same mask become one.
Merge(entries) ==
  FoldLeft(LAMBDA out, e :
             IF e.ns <= 0 THEN out
             ELSE IF out # << >> /\ Last(out).gates = e.gates
             THEN Append(Front(out), [e EXCEPT !.ns = @ + Last(out).ns])
             ELSE Append(out, e),
           << >>, entries)

\* The 802.1Qbv node of the port.
GateParameterTable(gcl) ==
  IF gcl.enabled THEN [gcl EXCEPT !.entries = Merge(@)] ELSE gcl

\* 802.1Qav: for each traffic class with a credit-based shaper, the streams
\* whose reservations its idle slope sums.
CbsaTable(q) ==
  LET shaped == { i \in DOMAIN q : q[i].tsn.shaper = "cbs" }
  IN  [ tc \in { q[i].tsn.traffic_class : i \in shaped } |->
          { i \in shaped : q[i].tsn.traffic_class = tc } ]

\* 802.1Qbu: a priority is express only if every class mapped to it is.
PreemptionTable(q) ==
  [ p \in { q[i].pcp : i \in DOMAIN q } |->
      IF \A i \in DOMAIN q : q[i].pcp = p => Classes[q[i].qos_class].preemption = "express"
      THEN "express" ELSE "preemptable" ]

\* The largest frame of any stream in a protected class.
QueueMaxSdu(q) ==
  [ tc \in Protected(q) |->
      Max({ q[i].tsn.max_frame : i \in { j \in DOMAIN q : q[j].tsn.traffic_class = tc } }) ]
=============================================================================
