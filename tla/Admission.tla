------------------------------ MODULE Admission ------------------------------
(***************************************************************************)
(* QosRegistry.admit: the aggregate check over one egress port.            *)
(*                                                                         *)
(* Bandwidth is counted in whole units of RateUnit kb/s, so that a sum of  *)
(* reservations is the cardinality of a set of units.                      *)
(***************************************************************************)
EXTENDS QosMapper, FiniteSets

CONSTANTS
  Requests,   \* the requests callers send, as JSON bodies
  RateUnit,   \* kb/s in one unit of bandwidth
  MaxUnits    \* no stream reserves more units than this

\* Fields StreamRequest has no default for: a body without one is refused.
RequiredFields == {"name", "qos_class", "payload_bytes", "period"}

Complete(r) == RequiredFields \subseteq DOMAIN r

\* What _build returns, for the requests it does not refuse.
Derived == [r \in { q \in Requests : Complete(q) /\ Resolvable(q) } |-> Resolve(r)]

\* How it fails for the others: resolve's errors are caught and rethrown as
\* Refused, except the division by a zero period.
Fault == [r \in Requests \ DOMAIN Derived |->
            IF Complete(r) /\ DividesByZero(r) THEN "raised" ELSE "refused"]

Streams == { Derived[r] : r \in DOMAIN Derived }

Units(s) == (8000 * s.wire) \div (RateUnit * s.period)

\* FRER doubles what actually crosses the network.
Copies(s) == IF s.tsn.redundancy = "frer_dual" THEN 2 ELSE 1

Charge(s) == Copies(s) * Units(s)

\* The sum of the charges of S: one element per stream and reserved unit.
Load(S) == Cardinality({ u \in S \X (1 .. MaxUnits) : u[2] <= Charge(u[1]) })

Capacity(l) == (1000 * Links[l].rate) \div RateUnit

OnLink(S, l) == { s \in S : s.link = l }

\* admit: utilisation at most max_utilisation, which no caller changes.
Admit(S, l) == 100 * Load(S) <= 75 * Capacity(l)

\* The requests are finitely many, links and reservations are whole numbers
\* of units, and MaxUnits cuts no reservation short.
ASSUME UnitsAssumption ==
  /\ IsFiniteSet(Requests)
  /\ MaxUnits \in Nat
  /\ \A l \in DOMAIN Links : /\ Capacity(l) \in Nat
                             /\ (1000 * Links[l].rate) % RateUnit = 0
  /\ \A s \in Streams : /\ (8000 * s.wire) % (RateUnit * s.period) = 0
                        /\ Units(s) \in Nat /\ Charge(s) \in 1 .. MaxUnits
=============================================================================
