------------------------------ MODULE DdsProfiles ------------------------------
(***************************************************************************)
(* dds/fastdds/emit.py and dds/cyclonedds/emit.py: the DDS policies of one *)
(* stream as the two vendors are given them.  Fast DDS reads a profile for *)
(* the writer and one for the reader; with Cyclone DDS the application     *)
(* sets the entity's policies itself, from a table.                        *)
(***************************************************************************)
EXTENDS QosMapper, FiniteSetsExt

\* Mutant: what is left of a second stays in microseconds.
DurationInMicroseconds(us) == [ sec |-> us \div 1000000, nanosec |-> us % 1000000 ]

\* _ms: a time as Fast DDS writes it.
Duration(us) == [ sec |-> us \div 1000000, nanosec |-> 1000 * (us % 1000000) ]

Durations(option) == { Duration(us) : us \in option }

\* reader_profile: it has no latency budget.
ReaderProfile(r) ==
  LET q == DdsQos(r)
  IN  [ depth |-> q.depth, reliability |-> q.reliability, durability |-> q.durability,
        deadline |-> Durations(q.deadline), lease |-> Durations(q.lease),
        latency_budget |-> {} ]

WriterProfile(r) ==
  LET q == DdsQos(r)
  IN  Overridden(ReaderProfile(r),
        [ latency_budget |-> Durations(q.latency_budget),
          transport_priority |-> q.transport_priority,
          max_samples_per_instance |-> q.max_samples_per_instance ])

\* A row of entity_qos_table, for reader and writer alike.
EntityQos(r) ==
  LET q == DdsQos(r)
  IN  [ depth |-> q.depth, reliability |-> q.reliability, durability |-> q.durability,
        deadline |-> q.deadline, lease |-> q.lease, latency_budget |-> q.latency_budget,
        transport_priority |-> q.transport_priority, dscp |-> q.dscp ]

\* Mutant: the participant marks at its least urgent.
DiffServOfLeast(classes) ==
  4 * Min({ Classes[c].dscp : c \in classes } \cup {0})

\* What a Cyclone participant that carries these classes puts in the TOS byte.
DiffServField(classes) ==
  4 * Max({ Classes[c].dscp : c \in classes } \cup {0})

-----------------------------------------------------------------------------
(* DDS: which writers a reader accepts, given times in one unit.           *)

AtMost(offered, requested) ==
  \A limit \in requested : \E time \in offered : time <= limit

\* The latency budget nobody sets is zero.
Budget(entity) == OrElse(entity.latency_budget, 0)

Compatible(writer, reader) ==
  /\ reader.reliability = "reliable" => writer.reliability = "reliable"
  /\ reader.durability = "transient_local" => writer.durability = "transient_local"
  /\ AtMost(writer.deadline, reader.deadline)
  /\ Budget(writer) <= Budget(reader)
  /\ AtMost(writer.lease, reader.lease)

\* What Fast DDS reads of its profiles, in microseconds.
Microseconds(d) == 1000000 * d.sec + d.nanosec \div 1000

Parsed(profile) ==
  [ profile EXCEPT !.deadline = { Microseconds(d) : d \in @ },
                   !.lease = { Microseconds(d) : d \in @ },
                   !.latency_budget = { Microseconds(d) : d \in @ } ]
=============================================================================
