-------------------------- MODULE CapabilityGateProofs --------------------------
(***************************************************************************)
(* Theorems about CapabilityGate, for any streams, devices, requirement    *)
(* map, site files, batches and waivers that satisfy its assumptions.      *)
(***************************************************************************)
EXTENDS CapabilityGate, SequenceTheorems, FiniteSetTheorems, TLAPS

-----------------------------------------------------------------------------
(* Streams.                                                                *)

\* What Degrade needs of a stream: the fields it writes.
IsStream(s) ==
  /\ s = [f \in DOMAIN s |-> s[f]]
  /\ {"name", "tsn"} \subseteq DOMAIN s
  /\ s.tsn = [f \in DOMAIN s.tsn |-> s.tsn[f]]
  /\ {"redundancy", "preemption", "shaper", "degraded"} \subseteq DOMAIN s.tsn

\* What resolve returns is a stream, with nothing taken from it yet.
LEMMA FreshIsStream ==
  ASSUME NEW o \in Objects
  PROVE  /\ IsStream(Fresh(o))
         /\ Fresh(o).name = RequestOf[o].name
         /\ Fresh(o).tsn.redundancy = RedundancyOf(RequestOf[o])
         /\ Fresh(o).tsn.degraded = {}
BY DEF IsStream, Fresh, Resolve

\* The stream d is s without the capabilities.
IsWithout(d, s, caps) ==
  /\ IsStream(d)
  /\ DOMAIN d = DOMAIN s
  /\ DOMAIN d.tsn = DOMAIN s.tsn
  /\ \A f \in DOMAIN s \ {"tsn"} : d[f] = s[f]
  /\ \A f \in DOMAIN s.tsn \ {"redundancy", "preemption", "shaper", "degraded"} :
       d.tsn[f] = s.tsn[f]
  /\ d.tsn.redundancy = IF "frer" \in caps THEN "none" ELSE s.tsn.redundancy
  /\ d.tsn.preemption = IF "preemption" \in caps THEN "not_supported" ELSE s.tsn.preemption
  /\ d.tsn.shaper = IF caps \cap {"tas", "cbs"} # {} THEN "strict_priority"
                    ELSE s.tsn.shaper
  /\ d.tsn.degraded = s.tsn.degraded \cup caps

\* Degrade, field by field.
LEMMA DegradeFields ==
  ASSUME NEW s, IsStream(s), NEW caps
  PROVE  IsWithout(Degrade(s, caps), s, caps)
<1> DEFINE d == Degrade(s, caps)
<1>1. /\ DOMAIN Reduced(s.tsn, caps) = DOMAIN s.tsn
      /\ Reduced(s.tsn, caps) = [f \in DOMAIN s.tsn |-> Reduced(s.tsn, caps)[f]]
      /\ \A f \in DOMAIN s.tsn \ {"redundancy", "preemption", "shaper", "degraded"} :
           Reduced(s.tsn, caps)[f] = s.tsn[f]
      /\ Reduced(s.tsn, caps).redundancy =
           IF "frer" \in caps THEN "none" ELSE s.tsn.redundancy
      /\ Reduced(s.tsn, caps).preemption =
           IF "preemption" \in caps THEN "not_supported" ELSE s.tsn.preemption
      /\ Reduced(s.tsn, caps).shaper =
           IF caps \cap {"tas", "cbs"} # {} THEN "strict_priority" ELSE s.tsn.shaper
      /\ Reduced(s.tsn, caps).degraded = s.tsn.degraded \cup caps
  BY DEF IsStream, Reduced
<1>2. /\ DOMAIN d = DOMAIN s
      /\ d = [f \in DOMAIN d |-> d[f]]
      /\ d.tsn = Reduced(s.tsn, caps)
      /\ \A f \in DOMAIN s \ {"tsn"} : d[f] = s[f]
  BY DEF Degrade, IsStream
<1>3. IsStream(d)
  BY <1>1, <1>2 DEF IsStream
<1> HIDE DEF d
<1>4. IsWithout(d, s, caps)
  BY <1>1, <1>2, <1>3 DEF IsWithout
<1>5. QED
  BY <1>4 DEF d

\* Two streams with the same fields are the same stream.
LEMMA StreamsEqual ==
  ASSUME NEW s, NEW t, IsStream(s), IsStream(t),
         DOMAIN s = DOMAIN t, \A f \in DOMAIN s \ {"tsn"} : s[f] = t[f],
         DOMAIN s.tsn = DOMAIN t.tsn, \A f \in DOMAIN s.tsn : s.tsn[f] = t.tsn[f]
  PROVE  s = t
BY DEF IsStream

\* Degrading twice is degrading by both lists at once.
LEMMA DegradeTwice ==
  ASSUME NEW s, IsStream(s), NEW a, NEW b
  PROVE  Degrade(Degrade(s, a), b) = Degrade(s, a \cup b)
<1> DEFINE d == Degrade(s, a)
           e == Degrade(d, b)
           u == Degrade(s, a \cup b)
<1>1. IsWithout(d, s, a) /\ IsWithout(u, s, a \cup b)
  BY DegradeFields
<1>2. IsWithout(e, d, b)
  <2>1. IsStream(d)
    BY <1>1 DEF IsWithout
  <2>2. QED
    BY <2>1, DegradeFields
<1> HIDE DEF d, e, u
<1>3. \A f \in DOMAIN e.tsn \ {"redundancy", "preemption", "shaper", "degraded"} :
        e.tsn[f] = u.tsn[f]
  BY <1>1, <1>2 DEF IsWithout
<1>4. /\ e.tsn.redundancy = u.tsn.redundancy
      /\ e.tsn.preemption = u.tsn.preemption
      /\ e.tsn.shaper = u.tsn.shaper
      /\ e.tsn.degraded = u.tsn.degraded
  BY <1>1, <1>2 DEF IsWithout
<1>5. \A f \in DOMAIN e.tsn : e.tsn[f] = u.tsn[f]
  BY <1>3, <1>4
<1>6. e = u
  BY <1>1, <1>2, <1>5, StreamsEqual DEF IsWithout
<1>7. QED
  BY <1>6 DEF d, e, u

\* Nothing taken, nothing changed.
LEMMA DegradeByNothing ==
  ASSUME NEW s, IsStream(s), s.tsn.degraded = {}
  PROVE  Degrade(s, {}) = s
<1> DEFINE d == Degrade(s, {})
<1>1. IsWithout(d, s, {})
  BY DegradeFields
<1> HIDE DEF d
<1>2. \A f \in DOMAIN s.tsn : d.tsn[f] = s.tsn[f]
  BY <1>1 DEF IsWithout
<1>3. d = s
  BY <1>1, <1>2, StreamsEqual DEF IsWithout
<1>4. QED
  BY <1>3 DEF d

\* What resolve may ask for, and _degrade can take away.
Replicable(s) ==
  s.tsn.redundancy # "none" =>
    s.tsn.redundancy \in DOMAIN RequirementMap /\ RequirementMap[s.tsn.redundancy] = "frer"

\* A degraded stream no longer needs what was taken from it, and needs nothing
\* it did not need before.
LEMMA DegradeRemovesNeeds ==
  ASSUME NEW s, IsStream(s), Replicable(s), NEW caps
  PROVE  /\ Replicable(Degrade(s, caps))
         /\ Needs(Degrade(s, caps)) \subseteq Needs(s) \ caps
<1> DEFINE d == Degrade(s, caps)
<1>1. IsWithout(d, s, caps)
  BY DegradeFields
<1> HIDE DEF d
<1>2. Replicable(d)
  BY <1>1 DEF IsWithout, Replicable
<1>3. ASSUME NEW q \in RequirementsOf(d)
      PROVE  q \in RequirementsOf(s) /\ CapabilityFor(q) \notin caps
  <2>1. CASE q = d.tsn.redundancy /\ q # "none"
    BY <1>1, <2>1 DEF IsWithout, Replicable, RequirementsOf, CapabilityFor
  <2>2. CASE q = d.tsn.shaper /\ q \in {"tas", "cbs"}
    BY <1>1, <2>2, RequirementsAssumption DEF IsWithout, RequirementsOf, CapabilityFor
  <2>3. CASE q = d.tsn.preemption /\ q = "express"
    BY <1>1, <2>3, RequirementsAssumption DEF IsWithout, RequirementsOf, CapabilityFor
  <2>4. QED
    BY <2>1, <2>2, <2>3 DEF RequirementsOf
<1>4. Needs(d) \subseteq Needs(s) \ caps
  BY <1>3 DEF Needs
<1>5. QED
  BY <1>2, <1>4 DEF d

\* What a stream needs is a capability some requirement maps to.
LEMMA NeedsAreCapabilities ==
  ASSUME NEW s, Replicable(s) PROVE Needs(s) \subseteq Capabilities
BY RequirementsAssumption DEF Replicable, Needs, RequirementsOf, CapabilityFor, Capabilities

-----------------------------------------------------------------------------
(* The invariant.                                                          *)

\* What the waivers since it was resolved have taken from a stream.
Lost(o) == { w[2] : w \in { w \in waivers : w[1] = o } }

\* Every stream is what its request resolves to, less what was waived.
ObjectsOK == object = [o \in Objects |-> Degrade(Fresh(o), Lost(o))]

\* The plan is a DeploymentPlan; between calls it is empty, and until the gates
\* are scheduled it configures nothing.
PlanOK ==
  /\ plan = [ deployed |-> plan.deployed, refusals |-> plan.refusals,
              waived |-> plan.waived, config |-> plan.config ]
  /\ stage = "idle" => plan = EmptyPlan
  /\ stage \in {"check", "gates"} => plan.config = << >>

\* The state a call leaves to the next one, and the state it is in.
GateInvariant == TypeOK /\ PlanOK /\ ObjectsOK

\* Degrading a resolved stream gives a stream.
LEMMA ObjectShape ==
  ASSUME ObjectsOK, NEW o \in Objects
  PROVE  /\ IsStream(object[o])
         /\ IsWithout(object[o], Fresh(o), Lost(o))
         /\ Replicable(object[o])
         /\ object[o].name = RequestOf[o].name
<1>1. object[o] = Degrade(Fresh(o), Lost(o))
  BY DEF ObjectsOK
<1>2. /\ IsStream(Fresh(o))
      /\ Fresh(o).name = RequestOf[o].name
      /\ Fresh(o).tsn.redundancy = RedundancyOf(RequestOf[o])
  BY FreshIsStream
<1>3. IsWithout(object[o], Fresh(o), Lost(o))
  BY <1>1, <1>2, DegradeFields
<1>4. Replicable(object[o])
  BY <1>2, <1>3, RequirementsAssumption DEF IsWithout, Replicable
<1>5. object[o].name = RequestOf[o].name
  BY <1>2, <1>3 DEF IsWithout, IsStream
<1>6. QED
  BY <1>3, <1>4, <1>5 DEF IsWithout

\* The gate starts with no site, no call, and streams as they were resolved.
LEMMA InitGate == Init => GateInvariant
<1> SUFFICES ASSUME Init PROVE GateInvariant
  OBVIOUS
<1>1. TypeOK
  BY EmptySeq DEF Init, TypeOK, EmptyPlan
<1>2. PlanOK
  BY DEF Init, PlanOK, EmptyPlan
<1>3. ObjectsOK
  <2>1. ASSUME NEW o \in Objects PROVE Degrade(Fresh(o), Lost(o)) = Fresh(o)
    <3>1. Lost(o) = {}
      BY DEF Init, Lost
    <3>2. QED
      BY <3>1, FreshIsStream, DegradeByNothing
  <2>2. QED
    BY <2>1 DEF Init, ObjectsOK
<1>4. QED
  BY <1>1, <1>2, <1>3 DEF GateInvariant

\* The stream under examination is one of the objects.
LEMMA SubjectIsObject ==
  ASSUME NEW s \in Seq(Objects), s # << >>
  PROVE  Head(s) \in Objects /\ Tail(s) \in Seq(Objects) /\ s[1] = Head(s)
BY HeadTailProperties

\* A known device is one the types know.
LEMMA KnownDevice ==
  ASSUME TypeOK, stage # "idle"
  PROVE  job.device \in DeviceNames
BY DEF TypeOK, Jobs

\* The devices of a site file that are attached, and their classes.
LEMMA AttachedDevice ==
  ASSUME NEW file \in SiteFiles, NEW i \in Attached(file)
  PROVE  /\ file[i] = <<file[i][1], file[i][2]>>
         /\ file[i][1] \in SiteNames
         /\ file[i][2] \in DOMAIN Devices
<1>1. file \in Seq(SiteNames \X STRING)
  BY SiteFilesAssumption
<1>2. i \in DOMAIN file /\ i \in Nat /\ i >= 1
  BY <1>1 DEF Attached
<1>3. file[i] \in SiteNames \X STRING
  BY <1>1, <1>2
<1>4. i \in 1 .. i
  BY <1>2
<1>5. QED
  BY <1>3, <1>4 DEF Attached

\* No step stores a value of another kind.
LEMMA TypePreserved == GateInvariant /\ [Next]_vars => TypeOK'
<1> SUFFICES ASSUME GateInvariant, [Next]_vars PROVE TypeOK'
  OBVIOUS
<1> USE DEF GateInvariant
<1>1. ASSUME LoadSite PROVE TypeOK'
  <2> PICK file \in SiteFiles :
        site' = Overridden(site,
                  [ n \in { file[i][1] : i \in Attached(file) } |->
                      (CHOOSE e \in { file[i] : i \in Attached(file) } : e[1] = n)[2] ])
    BY <1>1 DEF LoadSite
  <2> DEFINE names == { file[i][1] : i \in Attached(file) }
             pairs == { file[i] : i \in Attached(file) }
             added == [ n \in names |-> (CHOOSE e \in pairs : e[1] = n)[2] ]
  <2>1. names \subseteq SiteNames
    BY AttachedDevice
  <2>2. ASSUME NEW n \in names PROVE added[n] \in DOMAIN Devices
    <3>1. \E e \in pairs : e[1] = n
      OBVIOUS
    <3>2. (CHOOSE e \in pairs : e[1] = n) \in pairs
      BY <3>1
    <3>3. \A e \in pairs : e[2] \in DOMAIN Devices
      BY AttachedDevice
    <3>4. QED
      BY <3>2, <3>3
  <2> HIDE DEF names, pairs
  <2>3. site' = Overridden(site, added)
    BY DEF names, pairs
  <2>4. /\ DOMAIN site' = DOMAIN site \cup names
        /\ \A n \in DOMAIN site' : site'[n] = IF n \in names THEN added[n] ELSE site[n]
    BY <2>3 DEF Overridden
  <2>5. DOMAIN site' \subseteq SiteNames /\ \A n \in DOMAIN site' : site'[n] \in DOMAIN Devices
    BY <2>1, <2>2, <2>4 DEF TypeOK
  <2>6. QED
    BY <1>1, <2>5 DEF LoadSite, TypeOK
<1>2. ASSUME NEW o \in Objects, ResolveAgain(o) PROVE TypeOK'
  BY <1>2 DEF ResolveAgain, TypeOK
<1>3. ASSUME Call PROVE TypeOK'
  <2>1. job' \in Jobs
    BY <1>3, ObjectsAssumption DEF Call, Jobs
  <2>2. QED
    BY <1>3, <2>1 DEF Call, TypeOK
<1> DEFINE Shrunk == job' = [job EXCEPT !.todo = Tail(@)]
<1>4. ASSUME stage # "idle", job.todo # << >>
      PROVE  /\ Subject \in Objects
             /\ Shrunk => job' \in Jobs
  BY <1>4, SubjectIsObject DEF TypeOK, Jobs, Subject
<1>5. ASSUME Keep PROVE TypeOK'
  <2>1. Subject \in Objects /\ job' \in Jobs
    BY <1>4, <1>5 DEF Keep, Examining, Advance
  <2>2. plan'.deployed \in Seq(Objects)
    BY <1>5, <2>1, AppendProperties DEF Keep, TypeOK, PlanOK
  <2>3. QED
    BY <1>5, <2>1, <2>2 DEF Keep, TypeOK, Examining
<1>6. ASSUME Refuse PROVE TypeOK'
  <2>1. job' \in Jobs
    BY <1>4, <1>6 DEF Refuse, Examining, Advance
  <2>2. plan'.deployed \in Seq(Objects)
    BY <1>6 DEF Refuse, TypeOK, PlanOK
  <2>3. QED
    BY <1>6, <2>1, <2>2 DEF Refuse, TypeOK, Examining
<1>7. ASSUME Waive PROVE TypeOK'
  <2>1. Subject \in Objects /\ job' \in Jobs
    BY <1>4, <1>7 DEF Waive, Examining, Advance
  <2>2. plan'.deployed \in Seq(Objects)
    BY <1>7, <2>1, AppendProperties DEF Waive, TypeOK, PlanOK
  <2>3. DOMAIN object' = Objects
    BY <1>7 DEF Waive, TypeOK
  <2>4. \A r \in Refusals : r.capability \in Capabilities
    <3>1. Needs(object[Subject]) \subseteq Capabilities
      BY <2>1, ObjectShape, NeedsAreCapabilities
    <3>2. QED
      BY <3>1 DEF Refusals, Check
  <2>5. job.device \in DeviceNames
    BY <1>7, KnownDevice DEF Waive, Examining
  <2>6. waivers' \subseteq Objects \X Capabilities \X DeviceNames
    BY <1>7, <2>1, <2>4, <2>5 DEF Waive, TypeOK
  <2>7. QED
    BY <1>7, <2>1, <2>2, <2>3, <2>6 DEF Waive, TypeOK, Examining
<1>8. ASSUME Unknown PROVE TypeOK'
  BY <1>8 DEF Unknown, TypeOK
<1>9. ASSUME Checked PROVE TypeOK'
  BY <1>9 DEF Checked, TypeOK
<1>10. ASSUME Schedule PROVE TypeOK'
  BY <1>10 DEF Schedule, TypeOK, PlanOK, Configure
<1>11. ASSUME Emit PROVE TypeOK'
  <2>1. job' \in Jobs
    BY <1>11 DEF Emit, TypeOK, Jobs
  <2>2. plan'.deployed = plan.deployed
    BY <1>11 DEF Emit, Configure, PlanOK
  <2>3. QED
    BY <1>11, <2>1, <2>2 DEF Emit, TypeOK
<1>12. ASSUME Replicate PROVE TypeOK'
  <2>1. job \in Jobs /\ job.todo \in Seq(Objects) /\ Tail(job.todo) \in Seq(Objects)
    BY <1>12, SubjectIsObject DEF Replicate, TypeOK, Jobs
  <2>2. \/ job' = [job EXCEPT !.todo = Tail(@)]
        \/ job' = [job EXCEPT !.todo = Tail(@), !.index = @ + 1]
    BY <1>12 DEF Replicate, Advance
  <2>3. job' \in Jobs
    <3>1. CASE job' = [job EXCEPT !.todo = Tail(@)]
      BY <2>1, <3>1 DEF Jobs
    <3>2. CASE job' = [job EXCEPT !.todo = Tail(@), !.index = @ + 1]
      <4> DEFINE shrunk == [job EXCEPT !.todo = Tail(@)]
      <4>1. shrunk \in Jobs /\ shrunk.index = job.index
        BY <2>1 DEF Jobs
      <4>2. job' = [shrunk EXCEPT !.index = job.index + 1]
        BY <3>2
      <4>3. job.index + 1 \in Nat
        BY <2>1 DEF Jobs
      <4> HIDE DEF shrunk
      <4>4. QED
        BY <4>1, <4>2, <4>3 DEF Jobs
    <3>3. QED
      BY <2>2, <3>1, <3>2
  <2>4. plan'.deployed = plan.deployed
    BY <1>12 DEF Replicate, Configure, PlanOK
  <2>5. QED
    BY <1>12, <2>3, <2>4 DEF Replicate, TypeOK
<1>13. ASSUME Complete PROVE TypeOK'
  BY <1>13 DEF Complete, TypeOK
<1>14. ASSUME Return PROVE TypeOK'
  BY <1>14, EmptySeq DEF Return, TypeOK, EmptyPlan
<1>15. ASSUME UNCHANGED vars PROVE TypeOK'
  BY <1>15 DEF vars, TypeOK
<1>16. QED
  BY <1>1, <1>2, <1>3, <1>5, <1>6, <1>7, <1>8, <1>9, <1>10, <1>11, <1>12, <1>13,
     <1>14, <1>15 DEF Next

\* The plan stays a plan, and is configured only from the gates on.
LEMMA PlanPreserved == GateInvariant /\ [Next]_vars => PlanOK'
<1> SUFFICES ASSUME GateInvariant, [Next]_vars PROVE PlanOK'
  OBVIOUS
<1> USE DEF GateInvariant, PlanOK
<1>1. ASSUME LoadSite PROVE PlanOK'
  BY <1>1 DEF LoadSite
<1>2. ASSUME NEW o \in Objects, ResolveAgain(o) PROVE PlanOK'
  BY <1>2 DEF ResolveAgain
<1>3. ASSUME Call PROVE PlanOK'
  BY <1>3 DEF Call, EmptyPlan
<1>4. ASSUME Keep PROVE PlanOK'
  BY <1>4 DEF Keep, Examining
<1>5. ASSUME Refuse PROVE PlanOK'
  BY <1>5 DEF Refuse, Examining
<1>6. ASSUME Waive PROVE PlanOK'
  BY <1>6 DEF Waive, Examining
<1>7. ASSUME Unknown PROVE PlanOK'
  BY <1>7 DEF Unknown
<1>8. ASSUME Checked PROVE PlanOK'
  BY <1>8 DEF Checked
<1>9. ASSUME Schedule PROVE PlanOK'
  <2>1. \/ plan' = plan
        \/ \E entries : plan' = [plan EXCEPT !.config = Overridden(@, entries)]
    BY <1>9 DEF Schedule, Configure
  <2>2. stage' \in {"emit", "raised"}
    BY <1>9 DEF Schedule
  <2>3. QED
    BY <2>1, <2>2
<1>10. ASSUME Emit PROVE PlanOK'
  <2>1. \E entries : plan' = [plan EXCEPT !.config = Overridden(@, entries)]
    BY <1>10 DEF Emit, Configure
  <2>2. stage' = "frer"
    BY <1>10 DEF Emit
  <2>3. QED
    BY <2>1, <2>2
<1>11. ASSUME Replicate PROVE PlanOK'
  <2>1. \/ plan' = plan
        \/ \E entries : plan' = [plan EXCEPT !.config = Overridden(@, entries)]
    BY <1>11 DEF Replicate, Configure
  <2>2. stage' = "frer"
    BY <1>11 DEF Replicate
  <2>3. QED
    BY <2>1, <2>2
<1>12. ASSUME Complete PROVE PlanOK'
  BY <1>12 DEF Complete
<1>13. ASSUME Return PROVE PlanOK'
  BY <1>13 DEF Return, EmptyPlan
<1>14. ASSUME UNCHANGED vars PROVE PlanOK'
  BY <1>14 DEF vars
<1>15. QED
  BY <1>1, <1>2, <1>3, <1>4, <1>5, <1>6, <1>7, <1>8, <1>9, <1>10, <1>11, <1>12,
     <1>13, <1>14 DEF Next

\* What a waiver covers, as Degrade is told.
Missing == { r.capability : r \in Refusals }

\* Missing is what the subject needs and the device is not known to have.
LEMMA MissingIsLacked ==
  Missing = { c \in Needs(object[Subject]) : Have(job.device, c) # "yes" }
<1> DEFINE lacked == { c \in Needs(object[Subject]) : Have(job.device, c) # "yes" }
           refusal(c) == [ stream |-> object[Subject].name, device |-> job.device,
                           capability |-> c, measured |-> Have(job.device, c) = "no" ]
<1>1. Refusals = { refusal(c) : c \in lacked }
  BY DEF Refusals, Check
<1>2. \A c : refusal(c).capability = c
  OBVIOUS
<1> HIDE DEF refusal, lacked
<1>3. Missing = lacked
  BY <1>1, <1>2 DEF Missing
<1>4. QED
  BY <1>3 DEF lacked

\* A step rewrites a stream only in ResolveAgain, and in Waive, where the
\* rewritten stream is the one examined.
LEMMA StepOnObjects ==
  ASSUME GateInvariant, [Next]_vars
  PROVE  \/ object' = object /\ waivers' = waivers
         \/ \E o \in Objects : ResolveAgain(o)
         \/ Waive
BY DEF Next, vars, LoadSite, Call, Keep, Refuse, Unknown, Checked, Schedule, Emit,
       Replicate, Complete, Return

\* What the waivers took and what the streams have lost stay the same thing.
LEMMA ObjectsPreserved == GateInvariant /\ [Next]_vars => ObjectsOK'
<1> SUFFICES ASSUME GateInvariant, [Next]_vars PROVE ObjectsOK'
  OBVIOUS
<1> USE DEF GateInvariant
<1>1. CASE object' = object /\ waivers' = waivers
  BY <1>1 DEF ObjectsOK, Lost
<1>2. ASSUME NEW p \in Objects, ResolveAgain(p) PROVE ObjectsOK'
  <2>1. ASSUME NEW o \in Objects \ {p} PROVE object'[o] = Degrade(Fresh(o), Lost(o)')
    <3>1. Lost(o)' = Lost(o)
      BY <1>2 DEF ResolveAgain, Lost
    <3>2. QED
      BY <1>2, <3>1 DEF ResolveAgain, ObjectsOK
  <2>2. object'[p] = Degrade(Fresh(p), Lost(p)')
    <3>1. Lost(p)' = {}
      BY <1>2 DEF ResolveAgain, Lost
    <3>2. QED
      BY <1>2, <3>1, FreshIsStream, DegradeByNothing DEF ResolveAgain, ObjectsOK
  <2>3. object' = [o \in Objects |-> object'[o]]
    BY <1>2 DEF ResolveAgain, ObjectsOK
  <2>4. QED
    BY <2>1, <2>2, <2>3 DEF ObjectsOK
<1>3. CASE Waive
  <2> PICK p \in Objects : p = Subject
    BY <1>3, SubjectIsObject DEF Waive, Examining, TypeOK, Jobs, Subject
  <2>1. object' = [object EXCEPT ![p] = Degrade(@, Missing)]
    BY <1>3 DEF Waive, Missing
  <2>2. waivers' = waivers \cup { <<p, r.capability, job.device>> : r \in Refusals }
    BY <1>3 DEF Waive
  <2>3. ASSUME NEW o \in Objects, o # p
        PROVE  object'[o] = Degrade(Fresh(o), Lost(o)')
    <3>1. Lost(o)' = Lost(o)
      BY <2>2, <2>3 DEF Lost
    <3>2. QED
      BY <2>1, <2>3, <3>1 DEF ObjectsOK
  <2>4. object'[p] = Degrade(Fresh(p), Lost(p)')
    <3>1. Lost(p)' = Lost(p) \cup Missing
      <4>1. ASSUME NEW c \in Missing PROVE c \in Lost(p)'
        <5>1. PICK r \in Refusals : c = r.capability
          BY DEF Missing
        <5>2. <<p, c, job.device>> \in waivers'
          BY <2>2, <5>1
        <5>3. QED
          BY <5>2 DEF Lost
      <4>2. Lost(p) \subseteq Lost(p)'
        BY <2>2 DEF Lost
      <4>3. ASSUME NEW c \in Lost(p)' PROVE c \in Lost(p) \cup Missing
        <5>1. PICK w \in waivers' : w[1] = p /\ w[2] = c
          BY DEF Lost
        <5>2. CASE w \in waivers
          BY <5>1, <5>2 DEF Lost
        <5>3. CASE \E r \in Refusals : w = <<p, r.capability, job.device>>
          BY <5>1, <5>3 DEF Missing
        <5>4. QED
          BY <2>2, <5>2, <5>3
      <4>4. QED
        BY <4>1, <4>2, <4>3
    <3>2. object'[p] = Degrade(Degrade(Fresh(p), Lost(p)), Missing)
      BY <2>1 DEF ObjectsOK
    <3>3. QED
      BY <3>1, <3>2, FreshIsStream, DegradeTwice
  <2>5. object' = [o \in Objects |-> object'[o]]
    BY <2>1 DEF ObjectsOK
  <2>6. QED
    BY <2>3, <2>4, <2>5 DEF ObjectsOK
<1>4. QED
  BY <1>1, <1>2, <1>3, StepOnObjects

\* The gate's own invariant holds in every state.
THEOREM GateCorrect == Spec => []GateInvariant
<1>1. GateInvariant /\ [Next]_vars => GateInvariant'
  BY TypePreserved, PlanPreserved, ObjectsPreserved DEF GateInvariant
<1>2. QED
  BY InitGate, <1>1, PTL DEF Spec

\* Every variable of the gate holds what the code can put there.
THEOREM GateTypeCorrect == Spec => []TypeOK
<1>1. GateInvariant => TypeOK
  BY DEF GateInvariant
<1>2. QED
  BY GateCorrect, <1>1, PTL

\* A stream differs from what its request resolves to in exactly the
\* capabilities that were waived for it, over all the plans it was part of.
THEOREM WaiversAccountForLosses == Spec => []LossesAreWaived
<1>1. GateInvariant => LossesAreWaived
  <2> SUFFICES ASSUME GateInvariant PROVE LossesAreWaived
    OBVIOUS
  <2>1. ASSUME NEW o \in Objects
        PROVE  /\ IsWithout(object[o], Fresh(o), Lost(o))
               /\ Fresh(o).tsn.degraded = {}
               /\ [object[o] EXCEPT !.tsn = Fresh(o).tsn] = Fresh(o)
    <3>1. IsWithout(object[o], Fresh(o), Lost(o)) /\ IsStream(object[o])
      BY ObjectShape DEF GateInvariant
    <3>2. IsStream(Fresh(o)) /\ Fresh(o).tsn.degraded = {}
      BY FreshIsStream
    <3> DEFINE back == [object[o] EXCEPT !.tsn = Fresh(o).tsn]
    <3>3. /\ back = [f \in DOMAIN object[o] |-> back[f]]
          /\ DOMAIN back = DOMAIN object[o]
          /\ back.tsn = Fresh(o).tsn
          /\ \A f \in DOMAIN object[o] \ {"tsn"} : back[f] = object[o][f]
      BY <3>1 DEF IsStream
    <3> HIDE DEF back
    <3>4. IsStream(back)
      BY <3>1, <3>2, <3>3 DEF IsStream
    <3>5. back = Fresh(o)
      BY <3>1, <3>2, <3>3, <3>4, StreamsEqual DEF IsWithout
    <3>6. QED
      BY <3>1, <3>2, <3>5 DEF back
  <2>2. QED
    BY <2>1 DEF LossesAreWaived, Lost, IsWithout
<1>2. QED
  BY GateCorrect, <1>1, PTL

\* A check rewrites a stream only by waivers for it and for this device, and
\* only if the stream is then deployed.
THEOREM RefusalsDoNotMutate == Spec => RefusalTouchesNothing
<1> DEFINE Excused(o) ==
      LET lost == object'[o].tsn.degraded \ object[o].tsn.degraded
      IN  stage = "check" /\ object'[o] # object[o] =>
            /\ plan'.deployed = Append(plan.deployed, o)
            /\ plan'.refusals = plan.refusals
            /\ \A c \in lost :
                 \E w \in job.waivers : /\ w.capability = c
                                        /\ w.device \in {"*", job.device}
                                        /\ w.stream \in {"*", object[o].name}
<1>1. ASSUME GateInvariant, [Next]_vars, NEW o \in Objects PROVE Excused(o)
  <2> SUFFICES ASSUME stage = "check", object'[o] # object[o]
               PROVE  /\ plan'.deployed = Append(plan.deployed, o)
                      /\ plan'.refusals = plan.refusals
                      /\ \A c \in object'[o].tsn.degraded \ object[o].tsn.degraded :
                           \E w \in job.waivers : /\ w.capability = c
                                                  /\ w.device \in {"*", job.device}
                                                  /\ w.stream \in {"*", object[o].name}
    OBVIOUS
  <2>1. Waive
    BY <1>1, StepOnObjects DEF ResolveAgain
  <2>2. o = Subject /\ object'[o] = Degrade(object[o], Missing)
    BY <1>1, <2>1 DEF Waive, Missing, GateInvariant, ObjectsOK
  <2>3. plan'.deployed = Append(plan.deployed, o) /\ plan'.refusals = plan.refusals
    BY <1>1, <2>1, <2>2 DEF Waive, GateInvariant, PlanOK
  <2>4. IsWithout(object'[o], object[o], Missing)
    <3>1. IsStream(object[o])
      BY <1>1, ObjectShape DEF GateInvariant
    <3>2. QED
      BY <2>2, <3>1, DegradeFields
  <2>5. ASSUME NEW c \in object'[o].tsn.degraded \ object[o].tsn.degraded
        PROVE  \E w \in job.waivers : /\ w.capability = c
                                      /\ w.device \in {"*", job.device}
                                      /\ w.stream \in {"*", object[o].name}
    <3>1. c \in Missing
      BY <2>4 DEF IsWithout
    <3>2. PICK r \in Refusals : r.capability = c
      BY <3>1 DEF Missing
    <3>3. r.stream = object[o].name /\ r.device = job.device
      BY <2>2, <3>2 DEF Refusals, Check
    <3>4. QED
      BY <2>1, <3>2, <3>3 DEF Waive, Covered, Matches
  <2>6. QED
    BY <2>3, <2>5
<1>2. GateInvariant /\ [Next]_vars => [\A o \in Objects : Excused(o)]_vars
  BY <1>1
<1>3. QED
  BY GateCorrect, <1>2, PTL DEF Spec, RefusalTouchesNothing

-----------------------------------------------------------------------------
(* Calls.                                                                  *)

\* Elements of a sequence that has grown, and of one that has lost its head.
LEMMA GrownAndShrunk ==
  ASSUME NEW s \in Seq(Objects), NEW o \in Objects
  PROVE  /\ ToSet(Append(s, o)) = ToSet(s) \cup {o}
         /\ s # << >> => ToSet(s) = {Head(s)} \cup ToSet(Tail(s))
<1>1. ToSet(Append(s, o)) = ToSet(s) \cup {o}
  <2>1. /\ Append(s, o) \in Seq(Objects)
        /\ Len(Append(s, o)) = Len(s) + 1
        /\ \A i \in 1 .. Len(s) : Append(s, o)[i] = s[i]
        /\ Append(s, o)[Len(s) + 1] = o
    BY AppendProperties
  <2>2. DOMAIN Append(s, o) = 1 .. Len(s) + 1 /\ DOMAIN s = 1 .. Len(s) /\ Len(s) \in Nat
    BY <2>1, LenProperties
  <2>3. QED
    BY <2>1, <2>2 DEF ToSet
<1>2. ASSUME s # << >> PROVE ToSet(s) = {Head(s)} \cup ToSet(Tail(s))
  <2>1. /\ Tail(s) \in Seq(Objects)
        /\ Len(Tail(s)) = Len(s) - 1
        /\ \A i \in 1 .. Len(Tail(s)) : Tail(s)[i] = s[i + 1]
        /\ Head(s) = s[1]
    BY <1>2, HeadTailProperties
  <2>2. /\ DOMAIN s = 1 .. Len(s) /\ DOMAIN Tail(s) = 1 .. Len(s) - 1
        /\ Len(s) \in Nat /\ Len(s) >= 1
    BY <1>2, <2>1, LenProperties, EmptySeq
  <2>3. ToSet(s) \subseteq {Head(s)} \cup ToSet(Tail(s))
    <3>1. ASSUME NEW i \in 1 .. Len(s) PROVE s[i] \in {Head(s)} \cup ToSet(Tail(s))
      <4>1. CASE i = 1
        BY <2>1, <4>1
      <4>2. CASE i # 1
        <5>1. i - 1 \in DOMAIN Tail(s) /\ Tail(s)[i - 1] = s[i]
          BY <2>1, <2>2, <4>2
        <5>2. QED
          BY <5>1 DEF ToSet
      <4>3. QED
        BY <4>1, <4>2
    <3>2. QED
      BY <2>2, <3>1 DEF ToSet
  <2>4. {Head(s)} \cup ToSet(Tail(s)) \subseteq ToSet(s)
    <3>1. Head(s) \in ToSet(s)
      BY <2>1, <2>2 DEF ToSet
    <3>2. ASSUME NEW i \in 1 .. Len(s) - 1 PROVE Tail(s)[i] \in ToSet(s)
      BY <2>1, <2>2 DEF ToSet
    <3>3. QED
      BY <2>2, <3>1, <3>2 DEF ToSet
  <2>5. QED
    BY <2>3, <2>4
<1>3. QED
  BY <1>1, <1>2

\* The call under way has the site, the device, the batch and the waivers it
\* began with.
LEMMA CallIsStable ==
  ASSUME GateInvariant, [Next]_vars, stage # "idle", stage' # "idle"
  PROVE  /\ job' \in Jobs
         /\ job'.device = job.device
         /\ job'.batch = job.batch
         /\ job'.waivers = job.waivers
         /\ \A c : Have(job.device, c)' = Have(job.device, c)
         /\ \A r : Covered(r)' <=> Covered(r)
<1>1. TypeOK'
  BY TypePreserved
<1>2. job \in Jobs /\ job' \in Jobs
  BY <1>1 DEF GateInvariant, TypeOK
<1>3. /\ site' = site
      /\ \/ job' = job
         \/ \E todo : job' = [job EXCEPT !.todo = todo]
         \/ \E todo : job' = [job EXCEPT !.todo = todo, !.index = @ + 1]
  BY DEF Next, vars, LoadSite, ResolveAgain, Call, Keep, Refuse, Waive, Unknown, Checked,
         Schedule, Emit, Replicate, Complete, Return, Advance
<1>4. job'.device = job.device /\ job'.batch = job.batch /\ job'.waivers = job.waivers
  BY <1>2, <1>3 DEF Jobs
<1>5. QED
  BY <1>2, <1>3, <1>4 DEF Have, ClassOf, Covered, Matches

\* In a call a stream only ever needs less, and keeps its name.
LEMMA NeedsShrink ==
  ASSUME GateInvariant, [Next]_vars, stage # "idle", NEW o \in Objects
  PROVE  /\ Needs(object'[o]) \subseteq Needs(object[o])
         /\ object'[o].name = object[o].name
         /\ object'[o].tsn.redundancy \in {object[o].tsn.redundancy, "none"}
         /\ ~Waive => object' = object
<1>1. object' = object \/ Waive
  BY StepOnObjects DEF ResolveAgain
<1>2. CASE object' = object
  BY <1>2
<1>3. CASE object'[o] = object[o] /\ Waive
  BY <1>3
<1>4. CASE object'[o] # object[o] /\ Waive
  <2>1. object'[o] = Degrade(object[o], Missing)
    BY <1>4 DEF Waive, Missing, GateInvariant, ObjectsOK
  <2>2. IsStream(object[o]) /\ Replicable(object[o])
    BY ObjectShape DEF GateInvariant
  <2>3. IsWithout(object'[o], object[o], Missing)
    BY <2>1, <2>2, DegradeFields
  <2>4. object'[o].name = object[o].name
    BY <2>2, <2>3 DEF IsWithout, IsStream
  <2>5. QED
    BY <1>4, <2>1, <2>2, <2>3, <2>4, DegradeRemovesNeeds DEF IsWithout
<1>5. QED
  BY <1>1, <1>2, <1>3, <1>4

\* Everything the stream still needs, the device of the call is known to have.
Able(o) == \A c \in Needs(object[o]) : Have(job.device, c) = "yes"

\* What is deployed the device is able to do.
DeployedAble == stage # "idle" => \A o \in ToSet(plan.deployed) : Able(o)

\* A refusal names something a stream needs, the device is not known to have,
\* and no waiver covers.
RefusalsHold ==
  stage # "idle" =>
    \A r \in plan.refusals : /\ ~Covered(r)
                             /\ \E o \in Objects : r \in Check(o, job.device)

\* A stream of the batch is deployed or refused.
Answered(o) ==
  \/ o \in ToSet(plan.deployed)
  \/ \E r \in plan.refusals : r.stream = object[o].name

\* The streams of the batch are answered in turn.
Answers ==
  /\ stage = "check" =>
       \A o \in ToSet(job.batch) : o \in ToSet(job.todo) \/ Answered(o)
  /\ stage \in {"gates", "emit", "frer", "done"} =>
       \A o \in ToSet(job.batch) : Answered(o)

\* The streams that emit_frer still has to go through are deployed.
FrerTodo == stage = "frer" => ToSet(job.todo) \subseteq ToSet(plan.deployed)

\* No configuration exceeds the device, in no stage of it.
ConfigAble ==
  stage \in {"emit", "frer", "done"} =>
    /\ \A p \in Path("gate-parameter-table") :
         plan.config[p].enabled => Have(job.device, "tas") = "yes"
    /\ Path("cbsa") # {} => Have(job.device, "cbs") = "yes"
    /\ Path("frame-preemption-parameters") # {} => Have(job.device, "preemption") = "yes"
    /\ Path("stream-split") # {} => Have(job.device, "frer") = "yes"

\* Examining a stream leaves the rest of the batch, and does not change what
\* the plan is about.
LEMMA ExaminedStream ==
  ASSUME GateInvariant, Examining
  PROVE  /\ Subject \in Objects
         /\ job.todo \in Seq(Objects)
         /\ plan.deployed \in Seq(Objects)
         /\ ToSet(job.todo) = {Subject} \cup ToSet(Tail(job.todo))
         /\ ToSet(Append(plan.deployed, Subject)) = ToSet(plan.deployed) \cup {Subject}
<1>1. /\ Subject \in Objects
      /\ job.todo \in Seq(Objects)
      /\ plan.deployed \in Seq(Objects)
  BY SubjectIsObject DEF GateInvariant, Examining, TypeOK, Jobs, Subject
<1>2. QED
  BY <1>1, GrownAndShrunk DEF Examining, Subject

\* What a step of a call does to the plan's lists.
LEMMA PlanStep ==
  ASSUME GateInvariant, [Next]_vars, stage # "idle", stage' # "idle"
  PROVE  \/ Keep \/ Refuse \/ Waive
         \/ plan'.deployed = plan.deployed /\ plan'.refusals = plan.refusals
<1>1. \/ Keep \/ Refuse \/ Waive
      \/ plan' = plan
      \/ \E entries : plan' = [plan EXCEPT !.config = Overridden(@, entries)]
  BY DEF Next, vars, LoadSite, ResolveAgain, Call, Unknown, Checked,
         Schedule, Emit, Replicate, Complete, Return, Configure
<1>2. QED
  BY <1>1 DEF GateInvariant, PlanOK

\* Outside a call nothing is deployed or refused, and a call begins with that.
LEMMA CallBegins ==
  ASSUME GateInvariant, [Next]_vars, stage = "idle", stage' # "idle"
  PROVE  /\ stage' = "check" /\ plan' = EmptyPlan /\ object' = object
         /\ job'.todo = job'.batch
BY DEF GateInvariant, PlanOK, Next, vars, LoadSite, ResolveAgain, Call, Keep, Refuse,
       Waive, Examining, Unknown, Checked, Schedule, Emit, Replicate, Complete, Return

\* A stream is deployed only when the device can do what is left of it.
LEMMA AblePreserved ==
  GateInvariant /\ DeployedAble /\ [Next]_vars => DeployedAble'
<1> SUFFICES ASSUME GateInvariant, DeployedAble, [Next]_vars, stage' # "idle",
                    NEW o \in ToSet(plan'.deployed)
             PROVE  Able(o)'
  BY DEF DeployedAble
<1>1. CASE stage = "idle"
  <2>1. ToSet(plan'.deployed) = {}
    BY <1>1, CallBegins DEF EmptyPlan, ToSet
  <2>2. QED
    BY <2>1
<1>2. CASE stage # "idle"
  <2>1. ASSUME o \in ToSet(plan.deployed) PROVE Able(o)'
    <3>1. Able(o)
      BY <1>2, <2>1 DEF DeployedAble
    <3>2. o \in Objects
      BY <2>1 DEF GateInvariant, TypeOK, ToSet
    <3>3. QED
      BY <1>2, <3>1, <3>2, NeedsShrink, CallIsStable DEF Able
  <2>2. ASSUME Keep PROVE Able(o)'
    <3>1. o \in ToSet(plan.deployed) \/ o = Subject
      BY <2>2, ExaminedStream DEF Keep, GateInvariant, PlanOK
    <3>2. \A c \in Needs(object[Subject]) : Have(job.device, c) = "yes"
      BY <2>2 DEF Keep, Refusals, Check
    <3>3. object' = object
      BY <2>2 DEF Keep
    <3>4. ASSUME o = Subject PROVE Able(o)'
      BY <1>2, <3>2, <3>3, <3>4, CallIsStable DEF Able
    <3>5. QED
      BY <2>1, <3>1, <3>4
  <2>3. ASSUME Waive PROVE Able(o)'
    <3>1. o \in ToSet(plan.deployed) \/ o = Subject
      BY <2>3, ExaminedStream DEF Waive, GateInvariant, PlanOK
    <3>2. ASSUME o = Subject PROVE Able(o)'
      <4>1. o \in Objects /\ IsStream(object[o]) /\ Replicable(object[o])
        BY <2>3, <3>2, ExaminedStream, ObjectShape DEF Waive, GateInvariant
      <4>2. object'[o] = Degrade(object[o], Missing)
        BY <2>3, <3>2, <4>1 DEF Waive, Missing, GateInvariant, ObjectsOK
      <4>3. Needs(object'[o]) \subseteq Needs(object[o]) \ Missing
        BY <4>1, <4>2, DegradeRemovesNeeds
      <4>4. \A c \in Needs(object'[o]) : Have(job.device, c) = "yes"
        BY <3>2, <4>3, MissingIsLacked
      <4>5. QED
        BY <1>2, <4>4, CallIsStable DEF Able
    <3>3. QED
      BY <2>1, <3>1, <3>2
  <2>4. ASSUME Refuse PROVE Able(o)'
    BY <2>1, <2>4 DEF Refuse, GateInvariant, PlanOK
  <2>5. QED
    BY <1>2, <2>1, <2>2, <2>3, <2>4, PlanStep
<1>3. QED
  BY <1>1, <1>2

\* A refusal stays true as long as the call lasts.
LEMMA RefusalsPreserved ==
  GateInvariant /\ RefusalsHold /\ [Next]_vars => RefusalsHold'
<1> SUFFICES ASSUME GateInvariant, RefusalsHold, [Next]_vars, stage' # "idle",
                    NEW r \in plan'.refusals
             PROVE  ~Covered(r)' /\ \E o \in Objects : r \in Check(o, job.device)'
  BY DEF RefusalsHold
<1>1. CASE stage = "idle"
  BY <1>1, CallBegins DEF EmptyPlan
<1>2. CASE stage # "idle"
  <2>1. ~Covered(r) /\ \E o \in Objects : r \in Check(o, job.device)
    <3>1. CASE r \in plan.refusals
      BY <1>2, <3>1 DEF RefusalsHold
    <3>2. CASE r \notin plan.refusals
      <4>1. r \in plan.refusals \/ (Refuse /\ r \in Refusals /\ ~Covered(r))
        BY <1>2, PlanStep DEF Keep, Refuse, Waive, GateInvariant, PlanOK
      <4>2. QED
        BY <3>2, <4>1, ExaminedStream DEF Refuse, Refusals
    <3>3. QED
      BY <3>1, <3>2
  <2> PICK o \in Objects : r \in Check(o, job.device)
    BY <2>1
  <2>2. object'[o] = object[o]
    <3>1. ASSUME Waive, o = Subject PROVE FALSE
      <4>1. r \in Refusals
        BY <3>1 DEF Refusals
      <4>2. QED
        BY <2>1, <3>1, <4>1 DEF Waive
    <3>2. QED
      BY <1>2, <3>1, NeedsShrink DEF Waive, GateInvariant, ObjectsOK
  <2>3. r \in Check(o, job.device)'
    BY <1>2, <2>2, CallIsStable DEF Check
  <2>4. QED
    BY <1>2, <2>1, <2>3, CallIsStable
<1>3. QED
  BY <1>1, <1>2

\* Each examined stream is answered, and an answer is never taken back.
LEMMA AnswersPreserved ==
  GateInvariant /\ Answers /\ [Next]_vars => Answers'
<1> SUFFICES ASSUME GateInvariant, Answers, [Next]_vars PROVE Answers'
  OBVIOUS
<1>1. CASE stage = "idle"
  <2>1. CASE stage' = "idle"
    BY <2>1 DEF Answers
  <2>2. CASE stage' # "idle"
    BY <1>1, <2>2, CallBegins DEF Answers
  <2>3. QED
    BY <2>1, <2>2
<1>2. CASE stage # "idle"
  <2>1. CASE stage' = "idle"
    BY <2>1 DEF Answers
  <2>2. CASE stage' # "idle"
    <3>1. job'.batch = job.batch /\ ToSet(job.batch) \subseteq Objects
      <4>1. job.batch \in Seq(Objects)
        BY <1>2, ObjectsAssumption DEF GateInvariant, TypeOK, Jobs
      <4>2. QED
        BY <1>2, <2>2, <4>1, CallIsStable DEF ToSet
    <3>2. ASSUME NEW o \in Objects, Answered(o) PROVE Answered(o)'
      <4>1. object'[o].name = object[o].name
        BY <1>2, NeedsShrink
      <4>2. /\ ToSet(plan.deployed) \subseteq ToSet(plan'.deployed)
            /\ plan.refusals \subseteq plan'.refusals
        BY <1>2, <2>2, PlanStep, ExaminedStream DEF Keep, Refuse, Waive, GateInvariant, PlanOK
      <4>3. QED
        BY <3>2, <4>1, <4>2 DEF Answered
    <3>3. CASE stage' = "check"
      <4>1. stage = "check" /\ (Keep \/ Refuse \/ Waive \/ job' = job)
        <5>1. \/ Keep \/ Refuse \/ Waive
              \/ stage = "check" /\ job' = job
          BY <1>2, <3>3 DEF Next, vars, LoadSite, ResolveAgain, Call, Unknown, Checked,
                            Schedule, Emit, Replicate, Complete, Return
        <5>2. Keep \/ Refuse \/ Waive => stage = "check"
          BY DEF Keep, Refuse, Waive, Examining
        <5>3. QED
          BY <5>1, <5>2
      <4>2. ASSUME NEW o \in ToSet(job.batch), o \in ToSet(job.todo)
            PROVE  o \in ToSet(job'.todo) \/ Answered(o)'
        <5>1. ASSUME Keep \/ Refuse \/ Waive, o # Subject PROVE o \in ToSet(job'.todo)
          <6>1. job'.todo = Tail(job.todo)
            BY <1>2, <5>1 DEF Keep, Refuse, Waive, Advance, GateInvariant, TypeOK, Jobs
          <6>2. QED
            BY <4>2, <5>1, <6>1, ExaminedStream DEF Keep, Refuse, Waive
        <5>2. ASSUME Keep \/ Waive, o = Subject PROVE Answered(o)'
          BY <5>2, ExaminedStream DEF Keep, Waive, GateInvariant, PlanOK, Answered
        <5>3. ASSUME Refuse, o = Subject PROVE Answered(o)'
          <6>1. PICK r \in Refusals : ~Covered(r)
            BY <5>3 DEF Refuse
          <6>2. r \in plan'.refusals /\ object' = object
            BY <5>3, <6>1 DEF Refuse, GateInvariant, PlanOK
          <6>3. r.stream = object[o].name
            BY <5>3 DEF Refusals, Check
          <6>4. QED
            BY <6>2, <6>3 DEF Answered
        <5>4. QED
          BY <4>1, <4>2, <5>1, <5>2, <5>3
      <4>3. QED
        BY <3>1, <3>2, <3>3, <4>1, <4>2 DEF Answers
    <3>4. CASE stage' \in {"gates", "emit", "frer", "done"}
      <4>1. \/ stage \in {"gates", "emit", "frer", "done"}
            \/ stage = "check" /\ job.todo = << >>
        BY <1>2, <3>4 DEF Next, vars, LoadSite, ResolveAgain, Call, Keep, Refuse, Waive,
             Examining, Unknown, Checked, Schedule, Emit, Replicate, Complete, Return
      <4>2. ToSet(<< >>) = {}
        BY DEF ToSet
      <4>3. \A o \in ToSet(job.batch) : Answered(o)
        BY <4>1, <4>2 DEF Answers
      <4>4. QED
        BY <3>1, <3>2, <3>4, <4>3 DEF Answers
    <3>5. QED
      BY <3>3, <3>4 DEF Answers
  <2>3. QED
    BY <2>1, <2>2
<1>3. QED
  BY <1>1, <1>2

\* FRER is emitted for deployed streams only.
LEMMA FrerTodoPreserved ==
  GateInvariant /\ FrerTodo /\ [Next]_vars => FrerTodo'
<1> SUFFICES ASSUME GateInvariant, FrerTodo, [Next]_vars, stage' = "frer"
             PROVE  ToSet(job'.todo) \subseteq ToSet(plan'.deployed)
  BY DEF FrerTodo
<1>1. Emit \/ Replicate \/ UNCHANGED vars
  BY DEF Next, LoadSite, ResolveAgain, Call, Keep, Refuse, Waive,
         Examining, Unknown, Checked, Schedule, Complete, Return
<1>2. CASE Emit
  BY <1>2 DEF Emit, Configure, GateInvariant, PlanOK, TypeOK, Jobs
<1>3. CASE Replicate
  <2>1. job \in Jobs /\ job.todo \in Seq(Objects) /\ job.todo # << >>
    BY <1>3 DEF Replicate, GateInvariant, TypeOK, Jobs
  <2>2. job'.todo = Tail(job.todo)
    BY <1>3, <2>1 DEF Replicate, Advance, Jobs
  <2>3. plan'.deployed = plan.deployed
    BY <1>3 DEF Replicate, Configure, GateInvariant, PlanOK
  <2>4. QED
    BY <1>3, <2>1, <2>2, <2>3, GrownAndShrunk DEF FrerTodo, Replicate
<1>4. CASE UNCHANGED vars
  BY <1>4 DEF FrerTodo, vars
<1>5. QED
  BY <1>1, <1>2, <1>3, <1>4

\* Configuring overrides the entries given, and keeps the others.
LEMMA Configured ==
  ASSUME GateInvariant, NEW entries, Configure(entries)
  PROVE  /\ DOMAIN plan'.config = DOMAIN plan.config \cup DOMAIN entries
         /\ \A p \in DOMAIN entries : plan'.config[p] = entries[p]
         /\ \A p \in DOMAIN plan.config \ DOMAIN entries : plan'.config[p] = plan.config[p]
<1>1. plan'.config = Overridden(plan.config, entries)
  BY DEF Configure, GateInvariant, PlanOK
<1>2. QED
  BY <1>1 DEF Overridden

\* A deployed stream has only the features the device is known to have.
LEMMA DeployedFeatures ==
  ASSUME GateInvariant, DeployedAble, stage # "idle", NEW o \in ToSet(plan.deployed)
  PROVE  /\ object[o].tsn.shaper = "tas" => Have(job.device, "tas") = "yes"
         /\ object[o].tsn.shaper = "cbs" => Have(job.device, "cbs") = "yes"
         /\ object[o].tsn.redundancy # "none" => Have(job.device, "frer") = "yes"
<1>1. Replicable(object[o])
  BY ObjectShape DEF GateInvariant, TypeOK, ToSet
<1>2. /\ object[o].tsn.shaper = "tas" => "tas" \in Needs(object[o])
      /\ object[o].tsn.shaper = "cbs" => "cbs" \in Needs(object[o])
      /\ object[o].tsn.redundancy # "none" => "frer" \in Needs(object[o])
  BY <1>1, RequirementsAssumption DEF Needs, RequirementsOf, CapabilityFor, Replicable
<1>3. QED
  BY <1>2 DEF DeployedAble, Able

\* The gates are enabled only when a scheduled stream is deployed.
LEMMA GatesAreNeeded ==
  ASSUME GateInvariant, DeployedAble, stage # "idle", NEW gcl,
         gcl = GateControlList(Deployed, job.port), GateParameterTable(gcl).enabled
  PROVE  Have(job.device, "tas") = "yes"
<1>1. ASSUME Scheduled(Deployed) = {} PROVE FALSE
  <2>1. gcl = [enabled |-> FALSE]
    BY <1>1 DEF GateControlList
  <2>2. GateParameterTable(gcl) = gcl
    BY <2>1 DEF GateParameterTable
  <2>3. QED
    BY <2>1, <2>2
<1>2. PICK i \in DOMAIN plan.deployed : object[plan.deployed[i]].tsn.shaper = "tas"
  BY <1>1 DEF Scheduled, Deployed
<1>3. QED
  BY <1>2, DeployedFeatures DEF ToSet

\* Credit-based shapers are written only when a shaped stream is deployed.
LEMMA CreditsAreNeeded ==
  ASSUME GateInvariant, DeployedAble, stage # "idle", CbsaTable(Deployed) # << >>
  PROVE  Have(job.device, "cbs") = "yes"
<1> DEFINE shaped == { i \in DOMAIN Deployed : Deployed[i].tsn.shaper = "cbs" }
<1>1. ASSUME shaped = {} PROVE CbsaTable(Deployed) = << >>
  <2>1. CbsaTable(Deployed) =
          [ tc \in {} |-> { i \in shaped : Deployed[i].tsn.traffic_class = tc } ]
    BY <1>1 DEF CbsaTable
  <2>2. QED
    BY <2>1
<1>2. PICK i \in DOMAIN plan.deployed : object[plan.deployed[i]].tsn.shaper = "cbs"
  BY <1>1 DEF Deployed
<1>3. QED
  BY <1>2, DeployedFeatures DEF ToSet

\* Every stage configures the device within its abilities.
LEMMA ConfigPreserved ==
  GateInvariant /\ DeployedAble /\ FrerTodo /\ ConfigAble /\ [Next]_vars => ConfigAble'
<1> SUFFICES ASSUME GateInvariant, DeployedAble, FrerTodo, ConfigAble, [Next]_vars,
                    stage' \in {"emit", "frer", "done"}
             PROVE  ConfigAble'
  BY DEF ConfigAble
<1>1. stage # "idle" /\ stage' # "idle"
  BY DEF Next, vars, LoadSite, ResolveAgain, Call, Keep, Refuse, Waive, Examining,
         Unknown, Checked, Schedule, Emit, Replicate, Complete, Return
<1>2. \A c : Have(job.device, c)' = Have(job.device, c)
  BY <1>1, CallIsStable
<1>3. ASSUME Schedule PROVE ConfigAble'
  <2>1. plan.config = << >> /\ DOMAIN plan.config = {}
    BY <1>3 DEF Schedule, GateInvariant, PlanOK
  <2>2. CASE plan' = plan
    BY <2>1, <2>2 DEF ConfigAble, Path
  <2>3. ASSUME plan' # plan PROVE ConfigAble'
    <3> DEFINE gcl == GateControlList(Deployed, job.port)
               entries == Overridden(At(<<"gate-parameter-table">>, GateParameterTable(gcl)),
                                     At(<<"_gcl">>, gcl))
    <3>1. Configure(entries)
      BY <1>3, <2>3 DEF Schedule
    <3>2. /\ DOMAIN entries = {<<"gate-parameter-table">>, <<"_gcl">>}
          /\ entries[<<"gate-parameter-table">>] = GateParameterTable(gcl)
      BY DEF Overridden, At
    <3>3. GateParameterTable(gcl).enabled => Have(job.device, "tas") = "yes"
      BY <1>1, GatesAreNeeded
    <3> HIDE DEF entries, gcl
    <3>4. /\ DOMAIN plan'.config = {<<"gate-parameter-table">>, <<"_gcl">>}
          /\ plan'.config[<<"gate-parameter-table">>] = GateParameterTable(gcl)
      BY <2>1, <3>1, <3>2, Configured
    <3>5. QED
      BY <1>2, <3>3, <3>4 DEF ConfigAble, Path
  <2>4. QED
    BY <2>2, <2>3
<1>4. ASSUME Emit PROVE ConfigAble'
  <2> DEFINE cbsa == Written(<<"cbsa">>, CbsaTable(Deployed))
             sdu == Written(<<"queue-max-sdu-table">>, QueueMaxSdu(Deployed))
             preemption == IF Have(job.device, "preemption") = "yes"
                           THEN At(<<"frame-preemption-parameters">>, PreemptionTable(Deployed))
                           ELSE << >>
             entries == Overridden(cbsa, Overridden(sdu, preemption))
  <2>1. stage = "emit" /\ Configure(entries)
    BY <1>4 DEF Emit
  <2>2. /\ DOMAIN cbsa \subseteq {<<"cbsa">>}
        /\ DOMAIN cbsa # {} => Have(job.device, "cbs") = "yes"
    BY <1>1, CreditsAreNeeded DEF Written, At
  <2>3. DOMAIN sdu \subseteq {<<"queue-max-sdu-table">>}
    BY DEF Written, At
  <2>4. /\ DOMAIN preemption \subseteq {<<"frame-preemption-parameters">>}
        /\ DOMAIN preemption # {} => Have(job.device, "preemption") = "yes"
    BY DEF At
  <2> HIDE DEF cbsa, sdu, preemption
  <2>5. DOMAIN entries = DOMAIN cbsa \cup DOMAIN sdu \cup DOMAIN preemption
    BY DEF Overridden
  <2> HIDE DEF entries
  <2>6. /\ DOMAIN plan'.config = DOMAIN plan.config \cup DOMAIN entries
        /\ \A p \in DOMAIN plan.config \ DOMAIN entries : plan'.config[p] = plan.config[p]
    BY <2>1, Configured
  <2>7. ASSUME NEW p \in DOMAIN plan'.config
        PROVE  /\ p[1] = "gate-parameter-table" /\ plan'.config[p].enabled =>
                    Have(job.device, "tas") = "yes"
               /\ p[1] = "cbsa" => Have(job.device, "cbs") = "yes"
               /\ p[1] = "frame-preemption-parameters" => Have(job.device, "preemption") = "yes"
               /\ p[1] = "stream-split" => Have(job.device, "frer") = "yes"
    <3>1. CASE p \in DOMAIN entries
      BY <2>2, <2>3, <2>4, <2>5, <3>1
    <3>2. CASE p \notin DOMAIN entries
      BY <2>1, <2>6, <3>2 DEF ConfigAble, Path
    <3>3. QED
      BY <3>1, <3>2
  <2>8. QED
    BY <1>2, <2>7 DEF ConfigAble, Path
<1>5. ASSUME Replicate PROVE ConfigAble'
  <2>1. CASE plan' = plan
    BY <1>2, <1>5, <2>1 DEF ConfigAble, Path, Replicate
  <2>2. ASSUME plan' # plan PROVE ConfigAble'
    <3> DEFINE s == object[Subject]
               entries == FrerEntries(s, job.index)
    <3>1. s.tsn.redundancy # "none" /\ Configure(entries) /\ stage = "frer"
      BY <1>5, <2>2 DEF Replicate
    <3>2. Subject \in ToSet(plan.deployed)
      <4>1. job.todo \in Seq(Objects) /\ job.todo # << >>
        BY <1>5 DEF Replicate, GateInvariant, TypeOK, Jobs
      <4>2. QED
        BY <3>1, <4>1, GrownAndShrunk DEF FrerTodo, Subject
    <3>3. Have(job.device, "frer") = "yes"
      BY <1>1, <3>1, <3>2, DeployedFeatures
    <3>4. \A p \in DOMAIN entries :
            p[1] \notin {"gate-parameter-table", "cbsa", "frame-preemption-parameters"}
      BY DEF FrerEntries
    <3> HIDE DEF entries
    <3>5. /\ DOMAIN plan'.config = DOMAIN plan.config \cup DOMAIN entries
          /\ \A p \in DOMAIN plan.config \ DOMAIN entries : plan'.config[p] = plan.config[p]
      BY <3>1, Configured
    <3>6. QED
      BY <1>2, <3>1, <3>3, <3>4, <3>5 DEF ConfigAble, Path
  <2>3. QED
    BY <2>1, <2>2
<1>6. ASSUME Checked PROVE ConfigAble'
  BY <1>6 DEF Checked, GateInvariant, PlanOK, ConfigAble, Path
<1>7. ASSUME Complete PROVE ConfigAble'
  BY <1>2, <1>7 DEF Complete, ConfigAble, Path
<1>8. ASSUME UNCHANGED vars PROVE ConfigAble'
  BY <1>2, <1>8 DEF vars, ConfigAble, Path
<1>9. QED
  <2>1. Schedule \/ Emit \/ Replicate \/ Checked \/ Complete \/ UNCHANGED vars
    BY <1>1 DEF Next, LoadSite, ResolveAgain, Call, Keep, Refuse, Waive, Examining,
                Unknown, Return
  <2>2. QED
    BY <1>3, <1>4, <1>5, <1>6, <1>7, <1>8, <2>1

-----------------------------------------------------------------------------
(* The lists of FRER.                                                      *)

\* The lists an index is into.
IndexedNodes == {"stream-identity", "sequence-generation", "sequence-recovery"}

\* No stream is deployed twice, or is still to be examined or replicated once
\* it has been.
NoRepeats ==
  /\ stage # "idle" => IsInjective(plan.deployed)
  /\ stage \in {"check", "frer"} => IsInjective(job.todo)
  /\ stage = "check" => ToSet(job.todo) \cap ToSet(plan.deployed) = {}

\* The redundant streams emit_frer has been through.
Handled ==
  { o \in ToSet(plan.deployed) \ ToSet(job.todo) : object[o].tsn.redundancy # "none" }

\* Nothing is in the lists before emit_frer, and then the entries below the
\* running index are for the streams it has been through, one each.
ListsHold ==
  /\ stage \in {"check", "gates", "emit"} => job.index = 0
  /\ stage \in {"check", "gates", "emit"} => \A p \in DOMAIN plan.config : p[1] \notin IndexedNodes
  /\ stage \in {"frer", "done"} =>
       /\ Path("stream-identity") = { <<"stream-identity", n>> : n \in 0 .. job.index - 1 }
       /\ IsFiniteSet(Handled) /\ Cardinality(Handled) = job.index
       /\ \A o \in Handled : \E n \in 0 .. job.index - 1 : \A node \in IndexedNodes :
            /\ <<node, n>> \in DOMAIN plan.config
            /\ plan.config[<<node, n>>] = object[o].name
  /\ stage = "done" => job.todo = << >>

\* A sequence without repetitions, longer by a new element or without its head.
LEMMA DistinctElements ==
  ASSUME NEW s \in Seq(Objects), IsInjective(s), NEW o \in Objects
  PROVE  /\ o \notin ToSet(s) => IsInjective(Append(s, o))
         /\ s # << >> => IsInjective(Tail(s)) /\ Head(s) \notin ToSet(Tail(s))
<1>1. ASSUME o \notin ToSet(s) PROVE IsInjective(Append(s, o))
  <2>1. /\ Append(s, o) \in Seq(Objects)
        /\ Len(Append(s, o)) = Len(s) + 1
        /\ \A i \in 1 .. Len(s) : Append(s, o)[i] = s[i]
        /\ Append(s, o)[Len(s) + 1] = o
    BY AppendProperties
  <2>2. DOMAIN Append(s, o) = 1 .. Len(s) + 1 /\ DOMAIN s = 1 .. Len(s) /\ Len(s) \in Nat
    BY <2>1, LenProperties
  <2>3. QED
    BY <1>1, <2>1, <2>2 DEF ToSet, IsInjective
<1>2. ASSUME s # << >> PROVE IsInjective(Tail(s)) /\ Head(s) \notin ToSet(Tail(s))
  <2>1. /\ Tail(s) \in Seq(Objects)
        /\ Len(Tail(s)) = Len(s) - 1
        /\ \A i \in 1 .. Len(Tail(s)) : Tail(s)[i] = s[i + 1]
        /\ Head(s) = s[1]
    BY <1>2, HeadTailProperties
  <2>2. /\ DOMAIN s = 1 .. Len(s) /\ DOMAIN Tail(s) = 1 .. Len(s) - 1
        /\ Len(s) \in Nat /\ Len(s) >= 1
    BY <1>2, <2>1, LenProperties, EmptySeq
  <2>3. \A i, j \in 1 .. Len(s) : s[i] = s[j] => i = j
    BY <2>2 DEF IsInjective
  <2>4. \A i \in 1 .. Len(s) - 1 : Tail(s)[i] = s[i + 1] /\ i + 1 \in 1 .. Len(s)
    BY <2>1, <2>2
  <2>5. IsInjective(Tail(s))
    <3>1. ASSUME NEW i \in 1 .. Len(s) - 1, NEW j \in 1 .. Len(s) - 1, Tail(s)[i] = Tail(s)[j]
          PROVE  i = j
      <4>1. i + 1 = j + 1
        BY <2>3, <2>4, <3>1
      <4>2. QED
        BY <4>1
    <3>2. QED
      BY <2>2, <3>1 DEF IsInjective
  <2>6. ASSUME NEW i \in 1 .. Len(s) - 1, Tail(s)[i] = Head(s) PROVE FALSE
    <3>1. 1 \in 1 .. Len(s) /\ i + 1 = 1
      BY <2>1, <2>2, <2>3, <2>4, <2>6
    <3>2. QED
      BY <3>1
  <2>7. QED
    BY <2>2, <2>5, <2>6 DEF ToSet
<1>3. QED
  BY <1>1, <1>2

\* Checking and deploying a batch without repetitions repeats nothing.
LEMMA NoRepeatsPreserved ==
  ASSUME BatchesDistinct, GateInvariant, FrerTodo, NoRepeats, [Next]_vars
  PROVE  NoRepeats'
<1>1. plan.deployed \in Seq(Objects) /\ (stage # "idle" => job \in Jobs)
  BY DEF GateInvariant, TypeOK
<1>2. ASSUME stage = "idle", stage' # "idle" PROVE NoRepeats'
  <2>1. /\ stage' = "check" /\ job'.todo \in Batches
        /\ plan'.deployed = << >> /\ ToSet(plan'.deployed) = {}
    <3>1. stage' = "check" /\ plan' = EmptyPlan /\ job'.todo = job'.batch
      BY <1>2, CallBegins
    <3>2. job' \in Jobs
      BY <1>2, TypePreserved DEF TypeOK
    <3>3. QED
      BY <3>1, <3>2 DEF Jobs, EmptyPlan, ToSet
  <2>2. IsInjective(plan'.deployed)
    BY <2>1 DEF IsInjective
  <2>3. QED
    BY <2>1, <2>2 DEF NoRepeats, BatchesDistinct
<1>3. ASSUME Keep \/ Refuse \/ Waive PROVE NoRepeats'
  <2>1. Examining
    BY <1>3 DEF Keep, Refuse, Waive
  <2>2. /\ Subject \in Objects /\ job.todo \in Seq(Objects)
        /\ ToSet(job.todo) = {Subject} \cup ToSet(Tail(job.todo))
        /\ ToSet(Append(plan.deployed, Subject)) = ToSet(plan.deployed) \cup {Subject}
    BY <2>1, ExaminedStream
  <2>3. stage' = "check" /\ job'.todo = Tail(job.todo)
    BY <1>1, <1>3 DEF Keep, Refuse, Waive, Examining, Advance, Jobs
  <2>4. \/ plan'.deployed = plan.deployed
        \/ plan'.deployed = Append(plan.deployed, Subject)
    BY <1>3 DEF Keep, Refuse, Waive, GateInvariant, PlanOK
  <2>5. /\ IsInjective(plan.deployed) /\ IsInjective(job.todo)
        /\ ToSet(job.todo) \cap ToSet(plan.deployed) = {}
    BY <2>1 DEF NoRepeats, Examining
  <2>6. IsInjective(Tail(job.todo)) /\ Subject \notin ToSet(Tail(job.todo))
    BY <2>1, <2>2, <2>5, DistinctElements DEF Examining, Subject
  <2>7. Subject \notin ToSet(plan.deployed)
    BY <2>2, <2>5
  <2>8. IsInjective(plan'.deployed)
    BY <1>1, <2>2, <2>4, <2>5, <2>7, DistinctElements
  <2>9. ToSet(job'.todo) \cap ToSet(plan'.deployed) = {}
    <3>1. ToSet(job'.todo) = ToSet(Tail(job.todo))
      BY <2>3
    <3>2. /\ ToSet(Tail(job.todo)) \subseteq ToSet(job.todo)
          /\ ToSet(plan'.deployed) \subseteq ToSet(plan.deployed) \cup {Subject}
      BY <2>2, <2>4
    <3>3. QED
      BY <2>5, <2>6, <3>1, <3>2
  <2>10. QED
    BY <2>3, <2>6, <2>8, <2>9 DEF NoRepeats
<1>4. ASSUME Emit PROVE NoRepeats'
  <2>1. plan'.deployed = plan.deployed /\ job'.todo = plan.deployed
    BY <1>1, <1>4 DEF Emit, Configure, GateInvariant, PlanOK, Jobs
  <2>2. stage' = "frer" /\ IsInjective(plan.deployed)
    BY <1>4 DEF Emit, NoRepeats
  <2>3. QED
    BY <2>1, <2>2 DEF NoRepeats
<1>5. ASSUME Replicate PROVE NoRepeats'
  <2>1. job.todo \in Seq(Objects) /\ job.todo # << >> /\ stage = "frer" /\ stage' = "frer"
    BY <1>1, <1>5 DEF Replicate, Jobs
  <2>2. plan'.deployed = plan.deployed /\ job'.todo = Tail(job.todo)
    BY <1>1, <1>5 DEF Replicate, Advance, Configure, GateInvariant, PlanOK, Jobs
  <2>3. IsInjective(plan.deployed) /\ IsInjective(job.todo)
    BY <2>1 DEF NoRepeats
  <2>4. Head(job.todo) \in Objects
    BY <2>1, SubjectIsObject
  <2>5. IsInjective(Tail(job.todo))
    BY <2>1, <2>3, <2>4, DistinctElements
  <2>6. QED
    BY <2>1, <2>2, <2>3, <2>5 DEF NoRepeats
<1>6. ASSUME stage # "idle", stage' # "idle", ~Keep, ~Refuse, ~Waive, ~Emit, ~Replicate
      PROVE  NoRepeats'
  <2>1. /\ job' = job /\ plan'.deployed = plan.deployed
        /\ stage' = stage \/ stage' \notin {"check", "frer"}
    BY <1>6 DEF Next, vars, LoadSite, ResolveAgain, Call, Unknown, Checked, Schedule,
                Complete, Return, Configure, GateInvariant, PlanOK
  <2>2. QED
    BY <1>6, <2>1 DEF NoRepeats
<1>7. ASSUME stage' = "idle" PROVE NoRepeats'
  BY <1>7 DEF NoRepeats
<1>8. QED
  BY <1>2, <1>3, <1>4, <1>5, <1>6, <1>7

\* The running index numbers the redundant streams in turn.
LEMMA ListsPreserved ==
  ASSUME GateInvariant, FrerTodo, NoRepeats, ListsHold, [Next]_vars
  PROVE  ListsHold'
<1>1. plan.deployed \in Seq(Objects) /\ (stage # "idle" => job \in Jobs)
  BY DEF GateInvariant, TypeOK
<1>2. ASSUME Call PROVE ListsHold'
  <2>1. stage' = "check" /\ job'.index = 0 /\ plan'.config = << >>
    BY <1>2 DEF Call, GateInvariant, PlanOK, EmptyPlan
  <2>2. DOMAIN plan'.config = {}
    BY <2>1
  <2>3. QED
    BY <2>1, <2>2 DEF ListsHold
<1>3. ASSUME Keep \/ Refuse \/ Waive PROVE ListsHold'
  <2>1. /\ stage = "check" /\ stage' = "check" /\ job'.index = job.index
        /\ plan'.config = plan.config
    BY <1>1, <1>3 DEF Keep, Refuse, Waive, Examining, Advance, GateInvariant, PlanOK, Jobs
  <2>2. QED
    BY <2>1 DEF ListsHold
<1>4. ASSUME Checked PROVE ListsHold'
  <2>1. CASE stage' = "gates"
    BY <1>4, <2>1 DEF Checked, ListsHold
  <2>2. CASE stage' = "done"
    <3>1. plan.config = << >> /\ plan.deployed = << >> /\ job.index = 0 /\ job.todo = << >>
      BY <1>4, <2>2 DEF Checked, ListsHold, GateInvariant, PlanOK
    <3>2. UNCHANGED <<object, job, plan>>
      BY <1>4 DEF Checked
    <3>3. Handled' = {} /\ Path("stream-identity")' = {}
      BY <3>1, <3>2 DEF Handled, Path, ToSet
    <3>4. 0 .. job'.index - 1 = {}
      BY <3>1, <3>2
    <3>5. QED
      BY <2>2, <3>1, <3>2, <3>3, <3>4, FS_EmptySet DEF ListsHold
  <2>3. QED
    BY <1>4, <2>1, <2>2 DEF Checked
<1>5. ASSUME Schedule PROVE ListsHold'
  <2>1. DOMAIN plan.config = {} /\ job' = job /\ job.index = 0
    BY <1>5 DEF Schedule, GateInvariant, PlanOK, ListsHold
  <2>2. CASE stage' = "raised"
    BY <2>2 DEF ListsHold
  <2>3. CASE stage' = "emit" /\ plan' = plan
    BY <2>1, <2>3 DEF ListsHold
  <2>4. CASE stage' = "emit" /\ plan' # plan
    <3> DEFINE gcl == GateControlList(Deployed, job.port)
               entries == Overridden(At(<<"gate-parameter-table">>, GateParameterTable(gcl)),
                                     At(<<"_gcl">>, gcl))
    <3>1. Configure(entries)
      BY <1>5, <2>4 DEF Schedule
    <3>2. DOMAIN entries = {<<"gate-parameter-table">>, <<"_gcl">>}
      BY DEF Overridden, At
    <3> HIDE DEF entries
    <3>3. DOMAIN plan'.config = {<<"gate-parameter-table">>, <<"_gcl">>}
      BY <2>1, <3>1, <3>2, Configured
    <3>4. QED
      BY <2>1, <2>4, <3>3 DEF ListsHold, IndexedNodes
  <2>5. QED
    BY <1>5, <2>2, <2>3, <2>4 DEF Schedule
<1>6. ASSUME Emit PROVE ListsHold'
  <2> DEFINE cbsa == Written(<<"cbsa">>, CbsaTable(Deployed))
             sdu == Written(<<"queue-max-sdu-table">>, QueueMaxSdu(Deployed))
             preemption == IF Have(job.device, "preemption") = "yes"
                           THEN At(<<"frame-preemption-parameters">>, PreemptionTable(Deployed))
                           ELSE << >>
             entries == Overridden(cbsa, Overridden(sdu, preemption))
  <2>1. stage = "emit" /\ stage' = "frer" /\ object' = object /\ Configure(entries)
    BY <1>6 DEF Emit
  <2>2. /\ DOMAIN cbsa \subseteq {<<"cbsa">>}
        /\ DOMAIN sdu \subseteq {<<"queue-max-sdu-table">>}
        /\ DOMAIN preemption \subseteq {<<"frame-preemption-parameters">>}
    BY DEF Written, At
  <2> HIDE DEF cbsa, sdu, preemption
  <2>3. DOMAIN entries = DOMAIN cbsa \cup DOMAIN sdu \cup DOMAIN preemption
    BY DEF Overridden
  <2> HIDE DEF entries
  <2>4. DOMAIN plan'.config = DOMAIN plan.config \cup DOMAIN entries
    BY <2>1, Configured
  <2>5. \A p \in DOMAIN plan'.config : p[1] # "stream-identity"
    BY <2>1, <2>2, <2>3, <2>4 DEF ListsHold, IndexedNodes
  <2>6. /\ job'.index = 0 /\ job'.todo = plan.deployed
        /\ plan'.deployed = plan.deployed
    BY <1>1, <1>6, <2>1 DEF Emit, Configure, GateInvariant, PlanOK, Jobs, ListsHold
  <2>7. Handled' = {} /\ Path("stream-identity")' = {} /\ 0 .. job'.index - 1 = {}
    BY <2>5, <2>6 DEF Handled, Path
  <2>8. QED
    BY <2>1, <2>6, <2>7, FS_EmptySet DEF ListsHold
<1>7. ASSUME Replicate PROVE ListsHold'
  <2>1. /\ stage = "frer" /\ stage' = "frer" /\ object' = object
        /\ job.todo \in Seq(Objects) /\ job.todo # << >> /\ job.index \in Nat
    BY <1>1, <1>7 DEF Replicate, Jobs
  <2> PICK o \in Objects : o = Subject
    BY <2>1, SubjectIsObject DEF Subject
  <2>2. plan'.deployed = plan.deployed /\ job'.todo = Tail(job.todo)
    BY <1>1, <1>7 DEF Replicate, Advance, Configure, GateInvariant, PlanOK, Jobs
  <2>3. /\ ToSet(job.todo) = {o} \cup ToSet(job'.todo)
        /\ o \notin ToSet(job'.todo)
        /\ o \in ToSet(plan.deployed)
    BY <2>1, <2>2, GrownAndShrunk, DistinctElements DEF NoRepeats, FrerTodo, Subject
  <2>4. CASE object[o].tsn.redundancy = "none"
    <3>1. plan' = plan /\ job'.index = job.index
      BY <1>1, <1>7, <2>4 DEF Replicate, Advance, Jobs
    <3>2. Handled' = Handled
      BY <2>1, <2>2, <2>3, <2>4 DEF Handled
    <3>3. Path("stream-identity")' = Path("stream-identity")
      BY <3>1 DEF Path
    <3>4. QED
      BY <2>1, <3>1, <3>2, <3>3 DEF ListsHold
  <2>5. CASE object[o].tsn.redundancy # "none"
    <3> DEFINE entries == FrerEntries(object[o], job.index)
    <3>1. Configure(entries) /\ job'.index = job.index + 1
      BY <1>1, <1>7, <2>5 DEF Replicate, Jobs
    <3>2. /\ DOMAIN entries = { <<node, job.index>> : node \in IndexedNodes }
                                \cup {<<"stream-split">>, <<"sequence-identification">>}
          /\ \A p \in DOMAIN entries : entries[p] = object[o].name
      BY DEF FrerEntries, IndexedNodes
    <3> HIDE DEF entries
    <3>3. /\ DOMAIN plan'.config = DOMAIN plan.config \cup DOMAIN entries
          /\ \A p \in DOMAIN entries : plan'.config[p] = object[o].name
          /\ \A p \in DOMAIN plan.config \ DOMAIN entries : plan'.config[p] = plan.config[p]
      BY <3>1, <3>2, Configured
    <3>4. Handled' = Handled \cup {o} /\ o \notin Handled
      BY <2>1, <2>2, <2>3, <2>5 DEF Handled
    <3>5. IsFiniteSet(Handled') /\ Cardinality(Handled') = job.index + 1
      BY <2>1, <3>4, FS_AddElement DEF ListsHold
    <3>6. Path("stream-identity")' =
            Path("stream-identity") \cup {<<"stream-identity", job.index>>}
      BY <3>2, <3>3 DEF Path, IndexedNodes
    <3>7. Path("stream-identity")' = { <<"stream-identity", n>> : n \in 0 .. job'.index - 1 }
      <4>1. 0 .. job'.index - 1 = (0 .. job.index - 1) \cup {job.index}
        BY <2>1, <3>1
      <4>2. QED
        BY <2>1, <3>6, <4>1 DEF ListsHold
    <3>8. ASSUME NEW p \in Handled'
          PROVE  \E n \in 0 .. job'.index - 1 : \A node \in IndexedNodes :
                   /\ <<node, n>> \in DOMAIN plan'.config
                   /\ plan'.config[<<node, n>>] = object[p].name
      <4>1. CASE p = o
        <5>1. job.index \in 0 .. job'.index - 1
          BY <2>1, <3>1
        <5>2. QED
          BY <3>2, <3>3, <4>1, <5>1
      <4>2. CASE p \in Handled
        <5>1. PICK n \in 0 .. job.index - 1 : \A node \in IndexedNodes :
                /\ <<node, n>> \in DOMAIN plan.config
                /\ plan.config[<<node, n>>] = object[p].name
          BY <2>1, <4>2 DEF ListsHold
        <5>2. n \in 0 .. job'.index - 1 /\ n # job.index
          BY <2>1, <3>1
        <5>3. \A node \in IndexedNodes : <<node, n>> \notin DOMAIN entries
          BY <3>2, <5>2
        <5>4. QED
          BY <3>3, <5>1, <5>2, <5>3
      <4>3. QED
        BY <3>4, <4>1, <4>2
    <3>9. QED
      BY <2>1, <3>1, <3>5, <3>7, <3>8 DEF ListsHold
  <2>6. QED
    BY <2>4, <2>5
<1>8. ASSUME Complete PROVE ListsHold'
  BY <1>8 DEF Complete, ListsHold, Handled, Path
<1>9. ASSUME stage' \in {"idle", "raised"} PROVE ListsHold'
  BY <1>9 DEF ListsHold
<1>10. ASSUME UNCHANGED vars PROVE ListsHold'
  BY <1>10 DEF vars, ListsHold, Handled, Path
<1>11. QED
  <2>1. \/ Call \/ Keep \/ Refuse \/ Waive \/ Checked \/ Schedule \/ Emit \/ Replicate
        \/ Complete \/ stage' \in {"idle", "raised"} \/ UNCHANGED vars
    BY DEF Next, LoadSite, ResolveAgain, Unknown, Return
  <2>2. QED
    BY <1>2, <1>3, <1>4, <1>5, <1>6, <1>7, <1>8, <1>9, <1>10, <2>1

-----------------------------------------------------------------------------
(* The plan.                                                               *)

\* Everything that holds of a plan, whatever the caller hands to it.
PlanInvariant ==
  /\ GateInvariant
  /\ DeployedAble
  /\ RefusalsHold
  /\ Answers
  /\ FrerTodo
  /\ ConfigAble

\* The plan's invariant holds in every state.
THEOREM PlanCorrect == Spec => []PlanInvariant
<1>1. Init => PlanInvariant
  <2> SUFFICES ASSUME Init PROVE PlanInvariant
    OBVIOUS
  <2>1. GateInvariant
    BY InitGate
  <2>2. DeployedAble /\ RefusalsHold /\ Answers /\ FrerTodo /\ ConfigAble
    BY DEF Init, DeployedAble, RefusalsHold, Answers, FrerTodo, ConfigAble
  <2>3. QED
    BY <2>1, <2>2 DEF PlanInvariant
<1>2. PlanInvariant /\ [Next]_vars => PlanInvariant'
  <2> SUFFICES ASSUME PlanInvariant, [Next]_vars PROVE PlanInvariant'
    OBVIOUS
  <2>1. GateInvariant'
    BY TypePreserved, PlanPreserved, ObjectsPreserved DEF PlanInvariant, GateInvariant
  <2>2. DeployedAble' /\ RefusalsHold' /\ Answers'
    BY AblePreserved, RefusalsPreserved, AnswersPreserved DEF PlanInvariant
  <2>3. FrerTodo' /\ ConfigAble'
    BY FrerTodoPreserved, ConfigPreserved DEF PlanInvariant
  <2>4. QED
    BY <2>1, <2>2, <2>3 DEF PlanInvariant
<1>3. QED
  BY <1>1, <1>2, PTL DEF Spec

\* No stream is deployed on a device that is not known to do everything the
\* stream is still configured for.
THEOREM DeploymentsAble == Spec => []DeploysWithinAbility
<1>1. PlanInvariant => DeploysWithinAbility
  <2> SUFFICES ASSUME PlanInvariant, job # NoJob, NEW i \in DOMAIN plan.deployed,
                      NEW c \in Needs(object[plan.deployed[i]])
               PROVE  Have(job.device, c) = "yes"
    BY DEF DeploysWithinAbility
  <2>1. stage # "idle" /\ plan.deployed[i] \in ToSet(plan.deployed)
    BY DEF PlanInvariant, GateInvariant, TypeOK, ToSet
  <2>2. QED
    BY <2>1 DEF PlanInvariant, DeployedAble, Able
<1>2. QED
  BY PlanCorrect, <1>1, PTL

\* No finished plan configures a feature of 802.1Q or 802.1CB on a device that
\* is not known to have it.
THEOREM ConfigurationsAble == Spec => []ConfigWithinAbility
<1>1. PlanInvariant => ConfigWithinAbility
  BY DEF PlanInvariant, ConfigAble, ConfigWithinAbility
<1>2. QED
  BY PlanCorrect, <1>1, PTL

\* Where names tell streams apart, a finished plan deploys each stream it was
\* given or refuses it for something the device lacks, and never both.
THEOREM StreamsAnswered ==
  ASSUME NamesDistinct
  PROVE  Spec => []EveryStreamAnswered
<1>1. ASSUME PlanInvariant PROVE EveryStreamAnswered
  <2> SUFFICES ASSUME stage = "done", NEW i \in DOMAIN job.batch
               PROVE  LET o       == job.batch[i]
                          refused == { r \in plan.refusals : r.stream = object[o].name }
                      IN  /\ o \in ToSet(plan.deployed) <=> refused = {}
                          /\ \A r \in refused : /\ r.capability \in Needs(object[o])
                                                 /\ Have(job.device, r.capability) # "yes"
    BY DEF EveryStreamAnswered
  <2> USE <1>1 DEF PlanInvariant
  <2> PICK o \in Objects : o = job.batch[i] /\ o \in ToSet(job.batch)
    BY ObjectsAssumption DEF GateInvariant, TypeOK, Jobs, ToSet
  <2> DEFINE refused == { r \in plan.refusals : r.stream = object[o].name }
  <2>1. ASSUME NEW r \in refused
        PROVE  r.capability \in Needs(object[o]) /\ Have(job.device, r.capability) # "yes"
    <3>1. PICK p \in Objects : r \in Check(p, job.device)
      BY DEF RefusalsHold
    <3>2. /\ r.stream = object[p].name
          /\ r.capability \in Needs(object[p])
          /\ Have(job.device, r.capability) # "yes"
      BY <3>1 DEF Check
    <3>3. RequestOf[p].name = RequestOf[o].name
      BY <3>2, ObjectShape DEF GateInvariant
    <3>4. p = o
      BY <3>3 DEF NamesDistinct
    <3>5. QED
      BY <3>2, <3>4
  <2>2. ASSUME o \in ToSet(plan.deployed), NEW r \in refused PROVE FALSE
    BY <2>1, <2>2 DEF DeployedAble, Able
  <2>3. o \in ToSet(plan.deployed) \/ refused # {}
    BY DEF Answers, Answered
  <2>4. o \in ToSet(plan.deployed) <=> refused = {}
    BY <2>2, <2>3
  <2>5. QED
    BY <2>1, <2>4
<1>2. QED
  BY PlanCorrect, <1>1, PTL

\* Where no batch lists a stream twice, every redundant stream of a finished
\* plan has one identity, and sequence generation and recovery at its index.
THEOREM FrerListsMatch ==
  ASSUME BatchesDistinct
  PROVE  Spec => []FrerListsAgree
<1> DEFINE Lists == PlanInvariant /\ NoRepeats /\ ListsHold
<1>1. Init => Lists
  <2> SUFFICES ASSUME Init PROVE Lists
    OBVIOUS
  <2>1. NoRepeats /\ ListsHold
    BY DEF Init, NoRepeats, ListsHold
  <2>2. PlanInvariant
    <3>1. DeployedAble /\ RefusalsHold /\ Answers /\ FrerTodo /\ ConfigAble
      BY DEF Init, DeployedAble, RefusalsHold, Answers, FrerTodo, ConfigAble
    <3>2. QED
      BY <3>1, InitGate DEF PlanInvariant
  <2>3. QED
    BY <2>1, <2>2
<1>2. ASSUME PlanInvariant, NoRepeats, ListsHold, [Next]_vars
      PROVE  NoRepeats' /\ ListsHold'
  BY <1>2, NoRepeatsPreserved, ListsPreserved DEF PlanInvariant
<1>3. ASSUME PlanInvariant, ListsHold PROVE FrerListsAgree
  <2> SUFFICES ASSUME stage = "done" PROVE FrerListsAgree
    BY DEF FrerListsAgree
  <2> DEFINE redundant == { o \in ToSet(plan.deployed) : object[o].tsn.redundancy # "none" }
  <2>1. redundant = Handled
    BY <1>3 DEF ListsHold, Handled, ToSet
  <2>2. job.index \in Nat
    BY <1>3 DEF PlanInvariant, GateInvariant, TypeOK, Jobs
  <2>3. Cardinality(Handled) = job.index
    BY <1>3 DEF ListsHold
  <2>4. Cardinality(Path("stream-identity")) = job.index
    <3> DEFINE entry == [ n \in 0 .. job.index - 1 |-> <<"stream-identity", n>> ]
    <3>1. Path("stream-identity") = { <<"stream-identity", n>> : n \in 0 .. job.index - 1 }
      BY <1>3 DEF ListsHold
    <3>2. entry \in Bijection(0 .. job.index - 1, Path("stream-identity"))
      BY <3>1 DEF Bijection, Injection, Surjection, IsInjective
    <3> HIDE DEF entry
    <3>3. IsFiniteSet(0 .. job.index - 1) /\ Cardinality(0 .. job.index - 1) = job.index
      <4>1. 0 \in Int /\ job.index - 1 \in Int
        BY <2>2
      <4>2. /\ IsFiniteSet(0 .. job.index - 1)
            /\ Cardinality(0 .. job.index - 1) =
                 IF 0 > job.index - 1 THEN 0 ELSE (job.index - 1) - 0 + 1
        BY <4>1, FS_Interval
      <4>3. QED
        BY <2>2, <4>2
    <3>4. QED
      BY <3>2, <3>3, FS_Bijection DEF ExistsBijection
  <2>5. \A o \in Handled : \E n \in 0 .. Cardinality(Handled) - 1 :
          \A node \in {"stream-identity", "sequence-generation", "sequence-recovery"} :
            /\ <<node, n>> \in DOMAIN plan.config
            /\ plan.config[<<node, n>>] = object[o].name
    BY <1>3, <2>3 DEF ListsHold, IndexedNodes
  <2>6. QED
    BY <2>1, <2>3, <2>4, <2>5 DEF FrerListsAgree
<1>4. QED
  BY <1>1, <1>2, <1>3, PlanCorrect, PTL DEF Spec

-----------------------------------------------------------------------------
(* The promise.                                                            *)

\* What a stream needs, by the setting that needs it.
LEMMA NeedsOf ==
  ASSUME NEW s, Replicable(s)
  PROVE  /\ "tas" \in Needs(s) <=> s.tsn.shaper = "tas"
         /\ "cbs" \in Needs(s) <=> s.tsn.shaper = "cbs"
         /\ "preemption" \in Needs(s) <=> s.tsn.preemption = "express"
         /\ "frer" \in Needs(s) <=> s.tsn.redundancy # "none"
         /\ Needs(s) \subseteq {"tas", "cbs", "preemption", "frer"}
<1>1. ASSUME NEW q \in RequirementsOf(s)
      PROVE  \/ q = "tas" /\ q = s.tsn.shaper /\ CapabilityFor(q) = "tas"
             \/ q = "cbs" /\ q = s.tsn.shaper /\ CapabilityFor(q) = "cbs"
             \/ q = "express" /\ q = s.tsn.preemption /\ CapabilityFor(q) = "preemption"
             \/ s.tsn.redundancy # "none" /\ CapabilityFor(q) = "frer"
  BY RequirementsAssumption DEF RequirementsOf, CapabilityFor, Replicable
<1>2. ASSUME NEW c \in Needs(s)
      PROVE  \/ c = "tas" /\ s.tsn.shaper = "tas"
             \/ c = "cbs" /\ s.tsn.shaper = "cbs"
             \/ c = "preemption" /\ s.tsn.preemption = "express"
             \/ c = "frer" /\ s.tsn.redundancy # "none"
  <2>1. PICK q \in RequirementsOf(s) : c = CapabilityFor(q)
    BY DEF Needs
  <2>2. QED
    BY <1>1, <2>1
<1>3. s.tsn.shaper \in {"tas", "cbs"} => s.tsn.shaper \in Needs(s)
  BY RequirementsAssumption DEF Needs, RequirementsOf, CapabilityFor
<1>4. s.tsn.preemption = "express" => "preemption" \in Needs(s)
  BY RequirementsAssumption DEF Needs, RequirementsOf, CapabilityFor
<1>5. s.tsn.redundancy # "none" => "frer" \in Needs(s)
  BY DEF Replicable, Needs, RequirementsOf, CapabilityFor
<1>6. QED
  BY <1>2, <1>3, <1>4, <1>5

\* A stream has lost nothing but what it demanded.
LostDemanded == \A o \in Objects : Lost(o) \subseteq Needs(Fresh(o))

\* What a stream still needs is what it demanded, less what it has lost.
LEMMA NeedsRemain ==
  ASSUME GateInvariant, LostDemanded, NEW o \in Objects
  PROVE  /\ Needs(object[o]) = Needs(Fresh(o)) \ Lost(o)
         /\ object[o].tsn.degraded = Lost(o)
<1> DEFINE now == object[o]
           fresh == Fresh(o)
<1>1. IsWithout(now, fresh, Lost(o)) /\ Replicable(now) /\ Replicable(fresh)
  BY ObjectShape, FreshIsStream, RequirementsAssumption DEF GateInvariant, Replicable
<1>2. fresh.tsn.degraded = {}
  BY FreshIsStream
<1>3. Lost(o) \subseteq Needs(fresh)
  BY DEF LostDemanded
<1> HIDE DEF now, fresh
<1>4. now.tsn.degraded = Lost(o)
  BY <1>1, <1>2 DEF IsWithout
<1>5. Needs(now) \subseteq Needs(fresh) \ Lost(o)
  BY <1>1, NeedsOf DEF IsWithout
<1>6. Needs(fresh) \ Lost(o) \subseteq Needs(now)
  BY <1>1, <1>3, NeedsOf DEF IsWithout
<1>7. QED
  BY <1>4, <1>5, <1>6 DEF now, fresh

\* Waivers take what is needed, and a stream resolved again has lost nothing.
LEMMA LostDemandedPreserved ==
  GateInvariant /\ LostDemanded /\ [Next]_vars => LostDemanded'
<1> SUFFICES ASSUME GateInvariant, LostDemanded, [Next]_vars, NEW o \in Objects
             PROVE  Lost(o)' \subseteq Needs(Fresh(o))
  BY DEF LostDemanded
<1>1. CASE waivers' \subseteq waivers
  BY <1>1 DEF LostDemanded, Lost
<1>2. CASE Waive
  <2>1. waivers' = waivers \cup { <<Subject, r.capability, job.device>> : r \in Refusals }
    BY <1>2 DEF Waive
  <2>2. ASSUME NEW c \in Lost(o)' PROVE c \in Lost(o) \/ (o = Subject /\ c \in Missing)
    <3>1. PICK w \in waivers' : w[1] = o /\ w[2] = c
      BY DEF Lost
    <3>2. CASE w \in waivers
      BY <3>1, <3>2 DEF Lost
    <3>3. CASE \E r \in Refusals : w = <<Subject, r.capability, job.device>>
      BY <3>1, <3>3 DEF Missing
    <3>4. QED
      BY <2>1, <3>2, <3>3
  <2>3. o = Subject => Missing \subseteq Needs(Fresh(o))
    BY MissingIsLacked, NeedsRemain
  <2>4. QED
    BY <2>2, <2>3 DEF LostDemanded
<1>3. QED
  BY <1>1, <1>2, StepOnObjects DEF ResolveAgain

\* A call goes through its batch from the front, unless the device is unknown;
\* it configures a device only if something is deployed on it.
CallOpens ==
  /\ stage = "check" => ToSet(job.todo) \subseteq ToSet(job.batch)
  /\ stage \in {"check", "raised"} =>
       \/ job.todo = << >> \/ Known(job.device)
       \/ job.todo = job.batch /\ plan.deployed = << >>
  /\ stage = "raised" => job.todo = << >> \/ ~Known(job.device)
  /\ stage \in {"gates", "emit", "done"} => job.todo = << >>
  /\ stage \in {"gates", "emit", "frer"} => plan.deployed # << >>
  /\ stage # "idle" => plan.deployed = << >> \/ Known(job.device)

\* Every step of a call keeps to that.
LEMMA CallOpensPreserved ==
  GateInvariant /\ CallOpens /\ [Next]_vars => CallOpens'
<1> SUFFICES ASSUME GateInvariant, CallOpens, [Next]_vars PROVE CallOpens'
  OBVIOUS
<1>1. ASSUME LoadSite \/ Return \/ \E o \in Objects : ResolveAgain(o) PROVE CallOpens'
  BY <1>1 DEF LoadSite, Return, ResolveAgain, CallOpens
<1>2. ASSUME Call PROVE CallOpens'
  <2>1. plan.deployed = << >>
    BY <1>2 DEF Call, GateInvariant, PlanOK, EmptyPlan
  <2>2. job'.todo = job'.batch /\ stage' = "check" /\ plan' = plan
    BY <1>2 DEF Call
  <2>3. QED
    BY <2>1, <2>2 DEF CallOpens
<1>3. ASSUME Keep \/ Refuse \/ Waive PROVE CallOpens'
  <2>1. stage = "check" /\ stage' = "check" /\ Known(job.device) /\ site' = site /\ Examining
    BY <1>3 DEF Keep, Refuse, Waive, Examining
  <2>2. /\ job'.todo = Tail(job.todo) /\ job'.batch = job.batch /\ job'.device = job.device
    BY <1>3, <2>1 DEF Keep, Refuse, Waive, Advance, GateInvariant, TypeOK, Jobs
  <2>3. ToSet(job'.todo) \subseteq ToSet(job.todo)
    BY <2>1, <2>2, ExaminedStream
  <2>4. Known(job.device)'
    BY <2>1, <2>2 DEF Known
  <2>5. QED
    BY <2>1, <2>2, <2>3, <2>4 DEF CallOpens
<1>4. ASSUME Unknown \/ Checked \/ Schedule \/ Complete \/ UNCHANGED vars PROVE CallOpens'
  <2>1. /\ job' = job /\ site' = site /\ plan'.deployed = plan.deployed
    BY <1>4 DEF Unknown, Checked, Schedule, Complete, vars, Configure, GateInvariant, PlanOK
  <2>2. \/ Unknown \/ Checked \/ Complete \/ stage' = stage
        \/ stage = "gates" /\ stage' \in {"emit", "raised"}
    BY <1>4 DEF Schedule, vars
  <2>3. QED
    BY <2>1, <2>2 DEF CallOpens, Unknown, Checked, Complete, Known
<1>5. ASSUME Emit PROVE CallOpens'
  <2>1. stage = "emit" /\ stage' = "frer"
    BY <1>5 DEF Emit
  <2>2. plan'.deployed = plan.deployed
    BY <1>5 DEF Emit, Configure, GateInvariant, PlanOK
  <2>3. Known(job.device)' <=> Known(job.device)
    BY <1>5, <2>1, CallIsStable DEF Emit, Known
  <2>4. QED
    BY <2>1, <2>2, <2>3 DEF CallOpens
<1>6. ASSUME Replicate PROVE CallOpens'
  <2>1. stage = "frer" /\ stage' = "frer"
    BY <1>6 DEF Replicate
  <2>2. plan'.deployed = plan.deployed
    BY <1>6 DEF Replicate, Configure, GateInvariant, PlanOK
  <2>3. Known(job.device)' <=> Known(job.device)
    BY <1>6, <2>1, CallIsStable DEF Replicate, Known
  <2>4. QED
    BY <2>1, <2>2, <2>3 DEF CallOpens
<1>7. QED
  BY <1>1, <1>2, <1>3, <1>4, <1>5, <1>6 DEF Next

\* What the deployed streams and the device ask to be configured.
WantsGates   == \E o \in ToSet(plan.deployed) : object[o].tsn.shaper = "tas"
WantsCredits == \E o \in ToSet(plan.deployed) : object[o].tsn.shaper = "cbs"
Preempts     == plan.deployed # << >> /\ Have(job.device, "preemption") = "yes"
Replicated   == { o \in ToSet(plan.deployed) : object[o].tsn.redundancy # "none" }

\* What is configured so far.
GatesOn      == \E p \in DOMAIN plan.config :
                  p[1] = "gate-parameter-table" /\ plan.config[p].enabled
CreditsOn    == \E p \in DOMAIN plan.config : p[1] = "cbsa"
PreemptionOn == \E p \in DOMAIN plan.config : p[1] = "frame-preemption-parameters"
SplitOn      == \E p \in DOMAIN plan.config : p[1] = "stream-split"

\* The gates are configured by the first stage, the shapers and preemption by
\* the second, replication stream by stream by the third.
ConfigFollows ==
  /\ stage = "emit" => DOMAIN plan.config \subseteq {<<"gate-parameter-table">>, <<"_gcl">>}
  /\ stage \in {"emit", "frer", "done"} => (GatesOn <=> job.schedule /\ WantsGates)
  /\ stage \in {"frer", "done"} =>
       /\ CreditsOn <=> WantsCredits
       /\ PreemptionOn <=> Preempts
       /\ SplitOn => Replicated # {}
       /\ Replicated \subseteq ToSet(job.todo) \/ SplitOn

\* The gates are enabled if a scheduled stream is deployed.
LEMMA GatesFollow ==
  GateParameterTable(GateControlList(Deployed, job.port)).enabled <=> WantsGates
<1> DEFINE gcl == GateControlList(Deployed, job.port)
<1>1. Scheduled(Deployed) = {} <=> ~WantsGates
  BY DEF Scheduled, Deployed, ToSet, WantsGates
<1>2. CASE Scheduled(Deployed) = {}
  <2>1. gcl = [enabled |-> FALSE]
    BY <1>2 DEF GateControlList
  <2>2. ~GateParameterTable(gcl).enabled
    BY <2>1 DEF GateParameterTable
  <2>3. QED
    BY <1>1, <1>2, <2>2
<1>3. CASE Scheduled(Deployed) # {}
  <2> DEFINE on == [ enabled |-> TRUE, cycle |-> 1000 * Cycle(Deployed),
                     entries |-> Entries(Deployed, job.port) ]
  <2>1. gcl = on
    BY <1>3 DEF GateControlList
  <2>2. on.enabled /\ [on EXCEPT !.entries = Merge(@)].enabled
    OBVIOUS
  <2> HIDE DEF on, gcl
  <2>3. GateParameterTable(gcl).enabled
    BY <2>1, <2>2 DEF GateParameterTable
  <2>4. QED
    BY <1>1, <1>3, <2>3 DEF gcl
<1>4. QED
  BY <1>2, <1>3

\* Credit-based shapers are written if a shaped stream is deployed.
LEMMA CreditsFollow == CbsaTable(Deployed) = << >> <=> ~WantsCredits
<1> DEFINE shaped == { i \in DOMAIN Deployed : Deployed[i].tsn.shaper = "cbs" }
<1>1. shaped = {} <=> ~WantsCredits
  BY DEF Deployed, ToSet, WantsCredits
<1>2. DOMAIN CbsaTable(Deployed) = { Deployed[i].tsn.traffic_class : i \in shaped }
  BY DEF CbsaTable
<1>3. ASSUME shaped = {} PROVE CbsaTable(Deployed) = << >>
  <2>1. CbsaTable(Deployed) =
          [ tc \in {} |-> { i \in shaped : Deployed[i].tsn.traffic_class = tc } ]
    BY <1>3 DEF CbsaTable
  <2>2. QED
    BY <2>1
<1>4. shaped # {} => DOMAIN CbsaTable(Deployed) # {}
  BY <1>2
<1>5. DOMAIN << >> = {}
  OBVIOUS
<1>6. QED
  BY <1>1, <1>3, <1>4, <1>5

\* Each stage configures what is wanted, and leaves the rest as it is.
LEMMA ConfigFollowsPreserved ==
  GateInvariant /\ CallOpens /\ FrerTodo /\ ConfigFollows /\ [Next]_vars => ConfigFollows'
<1> SUFFICES ASSUME GateInvariant, CallOpens, FrerTodo, ConfigFollows, [Next]_vars,
                    stage' \in {"emit", "frer", "done"}
             PROVE  ConfigFollows'
  BY DEF ConfigFollows
<1>1. \/ Schedule \/ Emit \/ Replicate \/ Complete \/ UNCHANGED vars
      \/ Checked /\ plan.deployed = << >>
  BY DEF Next, LoadSite, ResolveAgain, Call, Keep, Refuse, Waive, Examining, Unknown,
         Checked, Return
<1>2. stage # "idle" /\ stage' # "idle"
  BY <1>1 DEF Schedule, Emit, Replicate, Complete, Checked, vars
<1>3. plan'.deployed = plan.deployed /\ object' = object
  BY <1>1 DEF Schedule, Emit, Replicate, Complete, Checked, vars, Configure,
              GateInvariant, PlanOK
<1>4. job'.schedule = job.schedule
  <2>1. job \in Jobs
    BY <1>2 DEF GateInvariant, TypeOK
  <2>2. QED
    BY <1>1, <2>1 DEF Schedule, Emit, Replicate, Complete, Checked, Advance, vars, Jobs
<1>5. /\ WantsGates' <=> WantsGates
      /\ WantsCredits' <=> WantsCredits
      /\ Replicated' = Replicated
  BY <1>3 DEF WantsGates, WantsCredits, Replicated
<1>6. Preempts' <=> Preempts
  <2>1. Have(job.device, "preemption")' = Have(job.device, "preemption")
    BY <1>2, CallIsStable
  <2>2. QED
    BY <1>3, <2>1 DEF Preempts
<1>7. ASSUME Schedule PROVE ConfigFollows'
  <2>1. stage' = "emit"
    BY <1>7 DEF Schedule
  <2>2. plan.config = << >> /\ DOMAIN plan.config = {}
    BY <1>7 DEF Schedule, GateInvariant, PlanOK
  <2>3. CASE ~job.schedule
    <3>1. plan' = plan
      BY <1>7, <2>3 DEF Schedule
    <3>2. DOMAIN plan'.config = {} /\ ~GatesOn'
      BY <2>2, <3>1 DEF GatesOn
    <3>3. QED
      BY <1>4, <2>1, <2>3, <3>2 DEF ConfigFollows
  <2>4. CASE job.schedule
    <3> DEFINE gcl == GateControlList(Deployed, job.port)
               entries == Overridden(At(<<"gate-parameter-table">>, GateParameterTable(gcl)),
                                     At(<<"_gcl">>, gcl))
    <3>1. Configure(entries)
      BY <1>7, <2>1, <2>4 DEF Schedule
    <3>2. /\ DOMAIN entries = {<<"gate-parameter-table">>, <<"_gcl">>}
          /\ entries[<<"gate-parameter-table">>] = GateParameterTable(gcl)
      BY DEF Overridden, At
    <3>3. GateParameterTable(gcl).enabled <=> WantsGates
      BY GatesFollow
    <3> HIDE DEF entries, gcl
    <3>4. /\ DOMAIN plan'.config = {<<"gate-parameter-table">>, <<"_gcl">>}
          /\ plan'.config[<<"gate-parameter-table">>] = GateParameterTable(gcl)
      BY <2>2, <3>1, <3>2, Configured
    <3>5. GatesOn' <=> WantsGates
      BY <3>3, <3>4 DEF GatesOn
    <3>6. QED
      BY <1>4, <1>5, <2>1, <2>4, <3>4, <3>5 DEF ConfigFollows
  <2>5. QED
    BY <2>3, <2>4
<1>8. ASSUME Emit PROVE ConfigFollows'
  <2> DEFINE cbsa == Written(<<"cbsa">>, CbsaTable(Deployed))
             sdu == Written(<<"queue-max-sdu-table">>, QueueMaxSdu(Deployed))
             preemption == IF Have(job.device, "preemption") = "yes"
                           THEN At(<<"frame-preemption-parameters">>, PreemptionTable(Deployed))
                           ELSE << >>
             entries == Overridden(cbsa, Overridden(sdu, preemption))
  <2>1. stage = "emit" /\ stage' = "frer" /\ Configure(entries)
    BY <1>8 DEF Emit
  <2>2. DOMAIN cbsa = IF WantsCredits THEN {<<"cbsa">>} ELSE {}
    <3>1. DOMAIN << >> = {}
      OBVIOUS
    <3>2. CASE WantsCredits
      BY <3>2, CreditsFollow DEF Written, At
    <3>3. CASE ~WantsCredits
      BY <3>1, <3>3, CreditsFollow DEF Written
    <3>4. QED
      BY <3>2, <3>3
  <2>3. DOMAIN sdu \subseteq {<<"queue-max-sdu-table">>}
    BY DEF Written, At
  <2>4. plan.deployed # << >>
    BY <2>1 DEF CallOpens
  <2>5. DOMAIN preemption = IF Preempts THEN {<<"frame-preemption-parameters">>} ELSE {}
    BY <2>4 DEF At, Preempts
  <2> HIDE DEF cbsa, sdu, preemption
  <2>6. DOMAIN entries = DOMAIN cbsa \cup DOMAIN sdu \cup DOMAIN preemption
    BY DEF Overridden
  <2> HIDE DEF entries
  <2>7. /\ DOMAIN plan'.config = DOMAIN plan.config \cup DOMAIN entries
        /\ \A p \in DOMAIN plan.config \ DOMAIN entries : plan'.config[p] = plan.config[p]
    BY <2>1, Configured
  <2>8. DOMAIN plan.config \subseteq {<<"gate-parameter-table">>, <<"_gcl">>}
    BY <2>1 DEF ConfigFollows
  <2>9. GatesOn' <=> GatesOn
    <3>1. ASSUME NEW p \in DOMAIN plan'.config, p[1] = "gate-parameter-table"
          PROVE  p \in DOMAIN plan.config \ DOMAIN entries
      BY <2>2, <2>3, <2>5, <2>6, <2>7, <2>8, <3>1
    <3>2. QED
      BY <2>7, <3>1 DEF GatesOn
  <2>10. CreditsOn' <=> WantsCredits
    <3>1. ASSUME WantsCredits PROVE CreditsOn'
      <4>1. <<"cbsa">> \in DOMAIN plan'.config
        BY <2>2, <2>6, <2>7, <3>1
      <4>2. QED
        BY <4>1 DEF CreditsOn
    <3>2. ASSUME ~WantsCredits, NEW p \in DOMAIN plan'.config PROVE p[1] # "cbsa"
      BY <2>2, <2>3, <2>5, <2>6, <2>7, <2>8, <3>2
    <3>3. QED
      BY <3>1, <3>2 DEF CreditsOn
  <2>11. PreemptionOn' <=> Preempts
    <3>1. ASSUME Preempts PROVE PreemptionOn'
      <4>1. <<"frame-preemption-parameters">> \in DOMAIN plan'.config
        BY <2>5, <2>6, <2>7, <3>1
      <4>2. QED
        BY <4>1 DEF PreemptionOn
    <3>2. ASSUME ~Preempts, NEW p \in DOMAIN plan'.config
          PROVE  p[1] # "frame-preemption-parameters"
      BY <2>2, <2>3, <2>5, <2>6, <2>7, <2>8, <3>2
    <3>3. QED
      BY <3>1, <3>2 DEF PreemptionOn
  <2>12. ~SplitOn'
    BY <2>2, <2>3, <2>5, <2>6, <2>7, <2>8 DEF SplitOn
  <2>13. job'.todo = plan.deployed
    BY <1>8 DEF Emit, GateInvariant, TypeOK, Jobs
  <2>14. Replicated' \subseteq ToSet(job.todo)'
    BY <1>5, <2>13 DEF Replicated
  <2>15. GatesOn <=> job.schedule /\ WantsGates
    BY <2>1 DEF ConfigFollows
  <2>16. GatesOn' <=> job'.schedule /\ WantsGates'
    BY <1>4, <1>5, <2>9, <2>15
  <2>17. (CreditsOn' <=> WantsCredits') /\ (PreemptionOn' <=> Preempts')
    BY <1>5, <1>6, <2>10, <2>11
  <2>18. QED
    BY <2>1, <2>12, <2>14, <2>16, <2>17 DEF ConfigFollows
<1>9. ASSUME Replicate PROVE ConfigFollows'
  <2>1. stage = "frer" /\ stage' = "frer"
    BY <1>9 DEF Replicate
  <2>2. /\ Subject \in ToSet(plan.deployed)
        /\ ToSet(job.todo) = {Subject} \cup ToSet(job.todo)'
    <3>1. job.todo \in Seq(Objects) /\ job.todo # << >> /\ job \in Jobs
      BY <1>9 DEF Replicate, GateInvariant, TypeOK, Jobs
    <3>2. job'.todo = Tail(job.todo)
      BY <1>9, <3>1 DEF Replicate, Advance, Jobs
    <3>3. ToSet(job.todo) = {Subject} \cup ToSet(Tail(job.todo))
      BY <3>1, GrownAndShrunk, HeadTailProperties DEF Subject
    <3>4. QED
      BY <2>1, <3>2, <3>3 DEF FrerTodo
  <2>3. /\ GatesOn <=> job.schedule /\ WantsGates
        /\ CreditsOn <=> WantsCredits
        /\ PreemptionOn <=> Preempts
        /\ SplitOn => Replicated # {}
        /\ Replicated \subseteq ToSet(job.todo) \/ SplitOn
    BY <2>1 DEF ConfigFollows
  <2>4. CASE object[Subject].tsn.redundancy = "none"
    <3>1. plan' = plan
      BY <1>9, <2>4 DEF Replicate
    <3>2. /\ GatesOn' <=> GatesOn
          /\ CreditsOn' <=> CreditsOn
          /\ PreemptionOn' <=> PreemptionOn
          /\ SplitOn' <=> SplitOn
      BY <3>1 DEF GatesOn, CreditsOn, PreemptionOn, SplitOn
    <3>3. Subject \notin Replicated
      BY <2>4 DEF Replicated
    <3>4. Replicated' \subseteq ToSet(job.todo)' \/ SplitOn'
      BY <1>5, <2>2, <2>3, <3>2, <3>3
    <3>5. QED
      BY <1>4, <1>5, <1>6, <2>1, <2>3, <3>2, <3>4 DEF ConfigFollows
  <2>5. CASE object[Subject].tsn.redundancy # "none"
    <3> DEFINE entries == FrerEntries(object[Subject], job.index)
    <3>1. Configure(entries)
      BY <1>9, <2>5 DEF Replicate
    <3>2. /\ <<"stream-split">> \in DOMAIN entries
          /\ \A p \in DOMAIN entries :
               p[1] \notin {"gate-parameter-table", "cbsa", "frame-preemption-parameters"}
      BY DEF FrerEntries
    <3> HIDE DEF entries
    <3>3. /\ DOMAIN plan'.config = DOMAIN plan.config \cup DOMAIN entries
          /\ \A p \in DOMAIN plan.config \ DOMAIN entries : plan'.config[p] = plan.config[p]
      BY <3>1, Configured
    <3>4. /\ GatesOn' <=> GatesOn
          /\ CreditsOn' <=> CreditsOn
          /\ PreemptionOn' <=> PreemptionOn
      BY <3>2, <3>3 DEF GatesOn, CreditsOn, PreemptionOn
    <3>5. SplitOn'
      BY <3>2, <3>3 DEF SplitOn
    <3>6. Replicated # {}
      BY <2>2, <2>5 DEF Replicated
    <3>7. QED
      BY <1>4, <1>5, <1>6, <2>1, <2>3, <3>4, <3>5, <3>6 DEF ConfigFollows
  <2>6. QED
    BY <2>4, <2>5
<1>10. ASSUME Checked, plan.deployed = << >> PROVE ConfigFollows'
  <2>1. stage' = "done" /\ DOMAIN plan'.config = {}
    BY <1>10 DEF Checked, GateInvariant, PlanOK
  <2>2. ToSet(plan.deployed) = {}
    BY <1>10 DEF ToSet
  <2>3. ~WantsGates' /\ ~WantsCredits' /\ ~Preempts' /\ Replicated' = {}
    BY <1>3, <1>10, <2>2 DEF WantsGates, WantsCredits, Preempts, Replicated
  <2>4. ~GatesOn' /\ ~CreditsOn' /\ ~PreemptionOn' /\ ~SplitOn'
    BY <2>1 DEF GatesOn, CreditsOn, PreemptionOn, SplitOn
  <2>5. QED
    BY <2>1, <2>3, <2>4 DEF ConfigFollows
<1>11. ASSUME Complete \/ UNCHANGED vars PROVE ConfigFollows'
  <2>1. stage' = stage \/ (stage = "frer" /\ stage' = "done")
    BY <1>11 DEF Complete, vars
  <2>2. plan' = plan /\ job' = job
    BY <1>11 DEF Complete, vars
  <2>3. /\ GatesOn' <=> GatesOn
        /\ CreditsOn' <=> CreditsOn
        /\ PreemptionOn' <=> PreemptionOn
        /\ SplitOn' <=> SplitOn
    BY <2>2 DEF GatesOn, CreditsOn, PreemptionOn, SplitOn
  <2>4. ToSet(job.todo)' = ToSet(job.todo)
    BY <2>2
  <2>5. QED
    BY <1>5, <1>6, <2>1, <2>2, <2>3, <2>4 DEF ConfigFollows
<1>12. QED
  BY <1>1, <1>7, <1>8, <1>9, <1>10, <1>11

-----------------------------------------------------------------------------
(* The steps.                                                              *)

\* What the promise rests on.
PromiseInvariant ==
  /\ PlanInvariant
  /\ LostDemanded
  /\ CallOpens
  /\ ConfigFollows

\* It holds in every state.
LEMMA PromiseHolds == Spec => []PromiseInvariant
<1>1. Init => LostDemanded /\ CallOpens /\ ConfigFollows
  <2> SUFFICES ASSUME Init PROVE LostDemanded /\ CallOpens /\ ConfigFollows
    OBVIOUS
  <2>1. LostDemanded
    BY DEF Init, LostDemanded, Lost
  <2>2. stage = "idle"
    BY DEF Init
  <2>3. QED
    BY <2>1, <2>2 DEF CallOpens, ConfigFollows
<1>2. PlanInvariant /\ LostDemanded /\ CallOpens /\ ConfigFollows /\ [Next]_vars
        => LostDemanded' /\ CallOpens' /\ ConfigFollows'
  BY LostDemandedPreserved, CallOpensPreserved, ConfigFollowsPreserved DEF PlanInvariant
<1>3. QED
  BY <1>1, <1>2, PlanCorrect, PTL DEF Spec, PromiseInvariant

\* The stream under examination is open, or was deployed the last time the batch
\* listed it; what it needs is what the promise says it needs.
LEMMA SubjectOpen ==
  ASSUME PromiseInvariant, Examining, NEW o \in Objects, o = Subject
  PROVE  /\ AnswerTo(o) = IF o \in ToSet(plan.deployed) THEN "deployed" ELSE "open"
         /\ Promise!Needed(o) = Needs(object[o])
         /\ Promise!Missing(o) = Missing
         /\ o \in ToSet(plan.deployed) => Refusals = {}
<1> USE DEF PromiseInvariant, PlanInvariant
<1>1. AnswerTo(o) = IF o \in ToSet(plan.deployed) THEN "deployed" ELSE "open"
  BY ExaminedStream DEF Examining, AnswerTo
<1>2. Promise!Needed(o) = Needs(object[o])
  BY NeedsRemain DEF Promise!Needed, Taken
<1>3. Offered.able = { c \in Capabilities : Have(job.device, c) = "yes" }
  BY DEF Examining, Offered, Offer
<1>4. Needs(object[o]) \subseteq Capabilities
  BY ObjectShape, NeedsAreCapabilities DEF GateInvariant
<1>5. Promise!Missing(o) = Missing
  BY <1>2, <1>3, <1>4, MissingIsLacked DEF Promise!Missing
<1>6. ASSUME o \in ToSet(plan.deployed) PROVE Refusals = {}
  BY <1>6 DEF DeployedAble, Able, Examining, Refusals, Check
<1>7. QED
  BY <1>1, <1>2, <1>5, <1>6

\* A call's offer does not change while it lasts.
LEMMA OfferStable ==
  ASSUME GateInvariant, [Next]_vars, stage # "idle", stage' # "idle"
  PROVE  Offered' = Offered
<1>1. job \in Jobs
  BY DEF GateInvariant, TypeOK
<1>2. site' = site
  BY DEF Next, vars, LoadSite, ResolveAgain, Call, Keep, Refuse, Waive, Unknown, Checked,
         Schedule, Emit, Replicate, Complete, Return
<1>3. job'.schedule = job.schedule
  <2>1. \/ job' = job
        \/ \E todo : job' = [job EXCEPT !.todo = todo]
        \/ \E todo, index : job' = [job EXCEPT !.todo = todo, !.index = index]
    BY DEF Next, vars, LoadSite, ResolveAgain, Call, Keep, Refuse, Waive, Unknown, Checked,
           Schedule, Emit, Replicate, Complete, Return, Advance
  <2>2. QED
    BY <1>1, <2>1 DEF Jobs
<1>4. job'.device = job.device /\ job'.waivers = job.waivers
  BY CallIsStable
<1>5. Offer' = Offer
  BY <1>2, <1>3, <1>4 DEF Offer, Known, Have, ClassOf
<1>6. QED
  BY <1>5 DEF Offered

\* The gate finds a stream's refusals covered when what it misses is waived.
LEMMA CoveredIsWaived ==
  ASSUME PromiseInvariant, Examining, NEW o \in Objects, o = Subject
  PROVE  /\ (\A r \in Refusals : Covered(r)) <=> Missing \subseteq Promise!Waived(o)
         /\ Refusals = {} <=> Missing = {}
<1> USE DEF PromiseInvariant, PlanInvariant
<1>1. object[o].name = RequestOf[o].name
  BY ObjectShape DEF GateInvariant
<1>2. Missing \subseteq Capabilities
  <2>1. Needs(object[o]) \subseteq Capabilities
    BY ObjectShape, NeedsAreCapabilities DEF GateInvariant
  <2>2. QED
    BY <2>1, MissingIsLacked
<1>3. Offered.waived = { e \in Objects \X Capabilities :
                           \E w \in job.waivers : /\ w.capability = e[2]
                                                  /\ w.device \in {"*", job.device}
                                                  /\ w.stream \in {"*", RequestOf[e[1]].name} }
  BY DEF Examining, Offered, Offer
<1>4. ASSUME NEW c \in Capabilities
      PROVE  c \in Promise!Waived(o) <=>
               \E w \in job.waivers : /\ w.capability = c
                                      /\ w.device \in {"*", job.device}
                                      /\ w.stream \in {"*", RequestOf[o].name}
  BY <1>3 DEF Promise!Waived
<1>5. ASSUME NEW r \in Refusals
      PROVE  Covered(r) <=> r.capability \in Promise!Waived(o)
  <2>1. r.stream = RequestOf[o].name /\ r.device = job.device
    BY <1>1 DEF Refusals, Check
  <2>2. r.capability \in Capabilities
    BY <1>2 DEF Missing
  <2>3. QED
    BY <1>4, <2>1, <2>2 DEF Covered, Matches
<1>6. QED
  BY <1>5 DEF Missing

\* What a decision does to the answers.
LEMMA AnswersAfter ==
  ASSUME PromiseInvariant, Keep \/ Waive \/ Refuse, NEW o \in Objects, o = Subject
  PROVE  /\ Keep \/ Waive => Answer' = [Answer EXCEPT ![o] = "deployed"]
         /\ Refuse /\ o \notin ToSet(plan.deployed) =>
              \/ Answer' = Answer
              \/ Answer' = [Answer EXCEPT ![o] = "refused"]
<1> USE DEF PromiseInvariant, PlanInvariant
<1>1. /\ Examining /\ stage = "check" /\ stage' = "check"
      /\ job'.todo = Tail(job.todo) /\ job'.batch = job.batch
  BY DEF Keep, Waive, Refuse, Examining, Advance, GateInvariant, TypeOK, Jobs
<1>2. /\ ToSet(job.todo) = {o} \cup ToSet(job'.todo)
      /\ ToSet(job'.batch) = ToSet(job.batch)
  BY <1>1, ExaminedStream
<1>3. ASSUME Keep \/ Waive PROVE Answer' = [Answer EXCEPT ![o] = "deployed"]
  <2>1. plan'.deployed = Append(plan.deployed, o)
    BY <1>3 DEF Keep, Waive, GateInvariant, PlanOK
  <2>2. ToSet(plan'.deployed) = ToSet(plan.deployed) \cup {o}
    BY <1>1, <2>1, ExaminedStream
  <2>3. ASSUME NEW p \in Objects
        PROVE  AnswerTo(p)' = IF p = o THEN "deployed" ELSE AnswerTo(p)
    BY <1>1, <1>2, <2>2 DEF AnswerTo
  <2>4. QED
    BY <2>3 DEF Answer
<1>4. ASSUME Refuse, o \notin ToSet(plan.deployed)
      PROVE  \/ Answer' = Answer
             \/ Answer' = [Answer EXCEPT ![o] = "refused"]
  <2>1. plan'.deployed = plan.deployed
    BY <1>4 DEF Refuse, GateInvariant, PlanOK
  <2>2. o \in ToSet(job.batch)
    BY <1>1, <1>2 DEF CallOpens
  <2>3. ASSUME NEW p \in Objects
        PROVE  AnswerTo(p)' = IF p = o /\ o \notin ToSet(job'.todo) THEN "refused"
                              ELSE AnswerTo(p)
    BY <1>1, <1>2, <1>4, <2>1, <2>2 DEF AnswerTo
  <2>4. QED
    BY <2>3 DEF Answer
<1>5. QED
  BY <1>3, <1>4

\* Examining a stream decides about it, or nothing new about it.
LEMMA ExamineImplements ==
  ASSUME PromiseInvariant, [Next]_vars, Keep \/ Refuse \/ Waive
  PROVE  [Promise!Next]_(Promise!promiseVars)
<1> USE DEF PromiseInvariant, PlanInvariant
<1>1. /\ Examining /\ stage = "check" /\ stage' = "check"
  BY DEF Keep, Refuse, Waive, Examining
<1> PICK o \in Objects : o = Subject
  BY <1>1, ExaminedStream
<1>2. /\ Offered' = Offered /\ Phase = "open" /\ Phase' = "open"
      /\ Delivered' = Delivered
  BY <1>1, OfferStable DEF Phase, Delivered
<1>3. Answer[o] = IF o \in ToSet(plan.deployed) THEN "deployed" ELSE "open"
  BY <1>1, SubjectOpen DEF Answer
<1>4. Promise!Missing(o) = Missing
  BY <1>1, SubjectOpen
<1>5. /\ (\A r \in Refusals : Covered(r)) <=> Missing \subseteq Promise!Waived(o)
      /\ Refusals = {} <=> Missing = {}
  BY <1>1, CoveredIsWaived
<1>6. ASSUME Keep PROVE [Promise!Next]_(Promise!promiseVars)
  <2>1. Taken' = Taken
    BY <1>6 DEF Keep, Taken
  <2>2. Answer' = [Answer EXCEPT ![o] = "deployed"]
    BY <1>6, AnswersAfter
  <2>3. CASE o \in ToSet(plan.deployed)
    <3>1. Answer' = Answer
      BY <1>3, <2>2, <2>3 DEF Answer
    <3>2. QED
      BY <1>2, <2>1, <3>1 DEF Promise!promiseVars
  <2>4. CASE o \notin ToSet(plan.deployed)
    <3>1. Promise!Decide(o, "deployed")
      BY <1>2, <1>3, <2>2, <2>4 DEF Promise!Decide
    <3>2. Promise!Carry(o)
      BY <1>4, <1>5, <1>6, <2>1, <3>1 DEF Keep, Promise!Carry
    <3>3. QED
      BY <3>2 DEF Promise!Next
  <2>5. QED
    BY <2>3, <2>4
<1>7. ASSUME Waive PROVE [Promise!Next]_(Promise!promiseVars)
  <2>1. Answer' = [Answer EXCEPT ![o] = "deployed"]
    BY <1>7, AnswersAfter
  <2>2. o \notin ToSet(plan.deployed)
    BY <1>1, <1>7, SubjectOpen DEF Waive
  <2>3. Promise!Decide(o, "deployed")
    BY <1>2, <1>3, <2>1, <2>2 DEF Promise!Decide
  <2>4. Taken' = [Taken EXCEPT ![o] = @ \cup Missing]
    <3>1. object' = [object EXCEPT ![o] = Degrade(object[o], Missing)]
      BY <1>7 DEF Waive, Missing
    <3>2. IsWithout(Degrade(object[o], Missing), object[o], Missing)
      BY ObjectShape, DegradeFields DEF GateInvariant
    <3>3. Degrade(object[o], Missing).tsn.degraded = object[o].tsn.degraded \cup Missing
      BY <3>2 DEF IsWithout
    <3>4. DOMAIN object = Objects
      BY DEF GateInvariant, TypeOK
    <3>5. ASSUME NEW p \in Objects
          PROVE  object'[p].tsn.degraded =
                   IF p = o THEN object[o].tsn.degraded \cup Missing
                   ELSE object[p].tsn.degraded
      BY <3>1, <3>3, <3>4
    <3>6. QED
      BY <3>5 DEF Taken
  <2>5. Promise!Degrade(o)
    BY <1>4, <1>5, <1>7, <2>3, <2>4 DEF Waive, Promise!Degrade
  <2>6. QED
    BY <2>5 DEF Promise!Next
<1>8. ASSUME Refuse PROVE [Promise!Next]_(Promise!promiseVars)
  <2>1. Taken' = Taken
    BY <1>8 DEF Refuse, Taken
  <2>2. o \notin ToSet(plan.deployed)
    BY <1>1, <1>8, SubjectOpen DEF Refuse
  <2>3. CASE Answer' = Answer
    BY <1>2, <2>1, <2>3 DEF Promise!promiseVars
  <2>4. CASE Answer' = [Answer EXCEPT ![o] = "refused"]
    <3>1. Promise!Decide(o, "refused")
      BY <1>2, <1>3, <2>2, <2>4 DEF Promise!Decide
    <3>2. Promise!Refuse(o)
      BY <1>4, <1>5, <1>8, <2>1, <3>1 DEF Refuse, Promise!Refuse
    <3>3. QED
      BY <3>2 DEF Promise!Next
  <2>5. QED
    BY <1>8, <2>2, <2>3, <2>4, AnswersAfter
<1>9. QED
  BY <1>6, <1>7, <1>8

\* Streams are resolved again between calls, and a call is submitted between
\* calls.
LEMMA CallerImplements ==
  ASSUME PromiseInvariant, [Next]_vars,
         LoadSite \/ Call \/ Return \/ \E o \in Objects : ResolveAgain(o)
  PROVE  [Promise!Next]_(Promise!promiseVars)
<1> USE DEF PromiseInvariant, PlanInvariant
<1>1. ASSUME LoadSite PROVE [Promise!Next]_(Promise!promiseVars)
  <2>1. stage = "idle" /\ stage' = "idle" /\ object' = object
    BY <1>1 DEF LoadSite
  <2>2. Answer' = Answer
    BY <2>1 DEF Answer, AnswerTo
  <2>3. QED
    BY <2>1, <2>2 DEF Promise!promiseVars, Taken, Phase, Offered, Delivered
<1>2. ASSUME NEW o \in Objects, ResolveAgain(o) PROVE [Promise!Next]_(Promise!promiseVars)
  <2>1. stage = "idle" /\ stage' = "idle"
    BY <1>2 DEF ResolveAgain
  <2>2. Answer' = Answer
    BY <2>1 DEF Answer, AnswerTo
  <2>3. Taken' = [Taken EXCEPT ![o] = {}]
    <3>1. Fresh(o).tsn.degraded = {}
      BY FreshIsStream
    <3>2. DOMAIN object = Objects /\ object' = [object EXCEPT ![o] = Fresh(o)]
      BY <1>2 DEF ResolveAgain, GateInvariant, TypeOK
    <3>3. \A p \in Objects : object'[p].tsn.degraded = IF p = o THEN {} ELSE object[p].tsn.degraded
      BY <3>1, <3>2
    <3>4. QED
      BY <3>3 DEF Taken
  <2>4. Promise!Resolve(o)
    BY <2>1, <2>2, <2>3 DEF Promise!Resolve, Phase, Offered, Delivered
  <2>5. QED
    BY <2>4 DEF Promise!Next
<1>3. ASSUME Call PROVE [Promise!Next]_(Promise!promiseVars)
  <2>1. /\ stage = "idle" /\ stage' = "check" /\ object' = object /\ job' \in Jobs
        /\ plan'.deployed = << >>
    <3>1. job' \in Jobs
      BY <1>3, TypePreserved DEF Call, TypeOK
    <3>2. QED
      BY <1>3, <3>1 DEF Call, GateInvariant, PlanOK, EmptyPlan
  <2>2. ToSet(plan'.deployed) = {}
    BY <2>1 DEF ToSet
  <2>3. job'.todo = job'.batch
    BY <1>3 DEF Call
  <2>4. Answer' \in [Objects -> {"none", "open"}]
    BY <2>1, <2>2, <2>3 DEF Answer, AnswerTo
  <2>5. Offered' \in Promise!Calls
    <3>1. job'.schedule \in BOOLEAN
      BY <2>1 DEF Jobs
    <3>2. QED
      BY <2>1, <3>1 DEF Offered, Offer, Promise!Calls
  <2>6. Promise!Submit
    BY <2>1, <2>4, <2>5 DEF Promise!Submit, Phase, Taken, Delivered
  <2>7. QED
    BY <2>6 DEF Promise!Next
<1>4. ASSUME Return PROVE [Promise!Next]_(Promise!promiseVars)
  <2>1. stage \in {"done", "raised"} /\ stage' = "idle" /\ object' = object
    BY <1>4 DEF Return
  <2>2. Answer' = [o \in Objects |-> "none"]
    BY <2>1 DEF Answer, AnswerTo
  <2>3. Promise!Collect
    BY <2>1, <2>2 DEF Promise!Collect, Promise!Nothing, Phase, Taken, Delivered
  <2>4. QED
    BY <2>3 DEF Promise!Next
<1>5. QED
  BY <1>1, <1>2, <1>3, <1>4

\* The answers are the plan's and the batch's, whatever the stage.
LEMMA AnswersFollow ==
  ASSUME stage # "idle", stage' # "idle", plan'.deployed = plan.deployed,
         job'.batch = job.batch,
         \/ job'.todo = job.todo
         \/ ToSet(job.todo) \cup ToSet(job'.todo) \subseteq ToSet(plan.deployed)
  PROVE  Answer' = Answer
<1>1. ASSUME NEW o \in Objects PROVE AnswerTo(o)' = AnswerTo(o)
  BY DEF AnswerTo
<1>2. QED
  BY <1>1 DEF Answer

\* The stages of the configuration show nothing before the last.
LEMMA StagesStutter ==
  ASSUME PromiseInvariant, [Next]_vars,
         \/ Emit \/ Replicate
         \/ Checked /\ stage' = "gates"
         \/ Schedule /\ stage' = "emit"
  PROVE  [Promise!Next]_(Promise!promiseVars)
<1> USE DEF PromiseInvariant, PlanInvariant
<1>1. /\ stage \in {"check", "gates", "emit", "frer"}
      /\ stage' \in {"gates", "emit", "frer"}
      /\ object' = object
  BY DEF Emit, Replicate, Checked, Schedule
<1>2. plan'.deployed = plan.deployed
  BY DEF Emit, Replicate, Checked, Schedule, Configure, GateInvariant, PlanOK
<1>3. job'.batch = job.batch /\ Offered' = Offered
  BY <1>1, CallIsStable, OfferStable
<1>4. Answer' = Answer
  <2>1. ASSUME Checked \/ Schedule PROVE job'.todo = job.todo
    BY <2>1 DEF Checked, Schedule
  <2>2. ASSUME Emit
        PROVE  ToSet(job.todo) \cup ToSet(job'.todo) \subseteq ToSet(plan.deployed)
    <3>1. job'.todo = plan.deployed
      BY <2>2 DEF Emit, GateInvariant, TypeOK, Jobs
    <3>2. job.todo = << >>
      BY <2>2 DEF Emit, CallOpens
    <3>3. ToSet(job.todo) = {}
      BY <3>2 DEF ToSet
    <3>4. QED
      BY <3>1, <3>3
  <2>3. ASSUME Replicate
        PROVE  ToSet(job.todo) \cup ToSet(job'.todo) \subseteq ToSet(plan.deployed)
    <3>1. stage = "frer" /\ job.todo # << >> /\ job \in Jobs /\ job.todo \in Seq(Objects)
      BY <2>3 DEF Replicate, GateInvariant, TypeOK, Jobs
    <3>2. job'.todo = Tail(job.todo)
      BY <2>3, <3>1 DEF Replicate, Advance, Jobs
    <3>3. ToSet(job.todo) = {Head(job.todo)} \cup ToSet(Tail(job.todo))
      BY <3>1, HeadTailProperties, GrownAndShrunk
    <3>4. QED
      BY <3>1, <3>2, <3>3 DEF FrerTodo
  <2>4. QED
    BY <1>1, <1>2, <1>3, <2>1, <2>2, <2>3, AnswersFollow
<1>5. QED
  BY <1>1, <1>3, <1>4 DEF Promise!promiseVars, Taken, Phase, Delivered

\* A call raises before its first decision, or after its last.
LEMMA RaiseImplements ==
  ASSUME PromiseInvariant, [Next]_vars, Unknown \/ (Schedule /\ stage' = "raised")
  PROVE  [Promise!Next]_(Promise!promiseVars)
<1> USE DEF PromiseInvariant, PlanInvariant
<1>1. /\ stage \in {"check", "gates"} /\ stage' = "raised"
      /\ object' = object /\ job' = job
  BY DEF Unknown, Schedule
<1>2. plan'.deployed = plan.deployed
  BY DEF Unknown, Schedule, Configure, GateInvariant, PlanOK
<1>3. Offered' = Offered /\ Answer' = Answer
  BY <1>1, <1>2, OfferStable, AnswersFollow
<1>4. \/ Promise!Undecided = {}
      \/ \A o \in Objects : Answer[o] \in {"none", "open"}
  <2>1. CASE Unknown
    <3>1. job.todo = job.batch /\ plan.deployed = << >>
      BY <2>1 DEF Unknown, CallOpens
    <3>2. ToSet(plan.deployed) = {}
      BY <3>1 DEF ToSet
    <3>3. QED
      BY <3>1, <3>2 DEF Answer, AnswerTo
  <2>2. CASE Schedule
    <3>1. job.todo = << >>
      BY <2>2 DEF Schedule, CallOpens
    <3>2. ToSet(job.todo) = {}
      BY <3>1 DEF ToSet
    <3>3. QED
      BY <3>2 DEF Answer, AnswerTo, Promise!Undecided
  <2>3. QED
    BY <2>1, <2>2
<1>5. Promise!Fail
  BY <1>1, <1>3, <1>4 DEF Promise!Fail, Phase, Taken, Delivered
<1>6. QED
  BY <1>5 DEF Promise!Next

\* What the deployed streams demand, setting by setting.
LEMMA DemandsOfDeployed ==
  ASSUME PromiseInvariant, NEW needed,
         needed = UNION { Needs(object[o]) : o \in ToSet(plan.deployed) }
  PROVE  /\ "tas" \in needed <=> WantsGates
         /\ "cbs" \in needed <=> WantsCredits
         /\ "frer" \in needed <=> Replicated # {}
         /\ needed \subseteq {"tas", "cbs", "preemption", "frer"}
         /\ needed \subseteq Capabilities
         /\ stage # "idle" => \A c \in needed : Have(job.device, c) = "yes"
<1> USE DEF PromiseInvariant, PlanInvariant
<1>1. ToSet(plan.deployed) \subseteq Objects
  BY DEF GateInvariant, TypeOK, ToSet
<1>2. \A o \in ToSet(plan.deployed) :
        /\ Replicable(object[o])
        /\ Needs(object[o]) \subseteq Capabilities
        /\ Needs(object[o]) \subseteq {"tas", "cbs", "preemption", "frer"}
        /\ "tas" \in Needs(object[o]) <=> object[o].tsn.shaper = "tas"
        /\ "cbs" \in Needs(object[o]) <=> object[o].tsn.shaper = "cbs"
        /\ "frer" \in Needs(object[o]) <=> object[o].tsn.redundancy # "none"
  BY <1>1, ObjectShape, NeedsOf, NeedsAreCapabilities DEF GateInvariant
<1>3. "tas" \in needed <=> WantsGates
  BY <1>2 DEF WantsGates
<1>4. "cbs" \in needed <=> WantsCredits
  BY <1>2 DEF WantsCredits
<1>5. "frer" \in needed <=> Replicated # {}
  BY <1>2 DEF Replicated
<1>6. needed \subseteq Capabilities /\ needed \subseteq {"tas", "cbs", "preemption", "frer"}
  BY <1>2
<1>7. stage # "idle" => \A c \in needed : Have(job.device, c) = "yes"
  BY DEF DeployedAble, Able
<1>8. QED
  BY <1>3, <1>4, <1>5, <1>6, <1>7

\* A finished plan configures what its streams demand, and no more than that and
\* the port's preemption.
LEMMA DeliverImplements ==
  ASSUME PromiseInvariant, [Next]_vars, stage' = "done", Checked \/ Complete
  PROVE  [Promise!Next]_(Promise!promiseVars)
<1> USE DEF PromiseInvariant, PlanInvariant
<1>1. /\ stage \in {"check", "frer"} /\ job.todo = << >> /\ object' = object
      /\ site' = site /\ job' = job /\ plan' = plan
  BY DEF Checked, Complete
<1>2. Offered' = Offered /\ Answer' = Answer
  BY <1>1, OfferStable, AnswersFollow
<1>3. ToSet(job.todo) = {}
  BY <1>1 DEF ToSet
<1>4. /\ GatesOn <=> job.schedule /\ WantsGates
      /\ CreditsOn <=> WantsCredits
      /\ PreemptionOn <=> Preempts
      /\ SplitOn <=> Replicated # {}
  <2>1. ConfigFollows'
    BY ConfigFollowsPreserved
  <2>2. /\ GatesOn' <=> GatesOn
        /\ CreditsOn' <=> CreditsOn
        /\ PreemptionOn' <=> PreemptionOn
        /\ SplitOn' <=> SplitOn
    BY <1>1 DEF GatesOn, CreditsOn, PreemptionOn, SplitOn
  <2>3. /\ WantsGates' <=> WantsGates
        /\ WantsCredits' <=> WantsCredits
        /\ Replicated' = Replicated
    BY <1>1 DEF WantsGates, WantsCredits, Replicated
  <2>4. Preempts' <=> Preempts
    BY <1>1, CallIsStable DEF Preempts
  <2>5. ToSet(job.todo)' = {} /\ job'.schedule = job.schedule
    BY <1>1, <1>3
  <2>6. QED
    BY <2>1, <2>2, <2>3, <2>4, <2>5 DEF ConfigFollows
<1>5. Delivered' = ConfiguredFor
  BY <1>1 DEF Delivered, ConfiguredFor, Path
<1>6. /\ "tas" \in ConfiguredFor <=> GatesOn
      /\ "cbs" \in ConfiguredFor <=> CreditsOn
      /\ "preemption" \in ConfiguredFor <=> PreemptionOn
      /\ "frer" \in ConfiguredFor <=> SplitOn
      /\ ConfiguredFor \subseteq {"tas", "cbs", "preemption", "frer"}
  BY DEF ConfiguredFor, Path, GatesOn, CreditsOn, PreemptionOn, SplitOn
<1>7. ASSUME NEW o \in Objects
      PROVE  /\ Answer[o] # "open"
             /\ Answer[o] = "deployed" <=> o \in ToSet(plan.deployed)
  BY <1>1, <1>3 DEF Answer, AnswerTo
<1>8. Promise!Undecided = {}
  BY <1>7 DEF Promise!Undecided
<1>9. Promise!Deployed = ToSet(plan.deployed)
  BY <1>7 DEF Promise!Deployed, GateInvariant, TypeOK, ToSet
<1> DEFINE needed == UNION { Needs(object[o]) : o \in ToSet(plan.deployed) }
<1>10. UNION { Promise!Needed(o) : o \in Promise!Deployed } = needed
  <2>1. ASSUME NEW o \in ToSet(plan.deployed) PROVE Promise!Needed(o) = Needs(object[o])
    <3>1. o \in Objects
      BY DEF GateInvariant, TypeOK, ToSet
    <3>2. QED
      BY <3>1, NeedsRemain DEF Promise!Needed, Taken
  <2>2. QED
    BY <1>9, <2>1
<1>11. /\ "tas" \in needed <=> WantsGates
       /\ "cbs" \in needed <=> WantsCredits
       /\ "frer" \in needed <=> Replicated # {}
       /\ needed \subseteq {"tas", "cbs", "preemption", "frer"}
       /\ needed \subseteq Capabilities
       /\ \A c \in needed : Have(job.device, c) = "yes"
  BY <1>1, DemandsOfDeployed
<1>12. needed # {} => plan.deployed # << >>
  <2>1. plan.deployed = << >> => ToSet(plan.deployed) = {}
    BY DEF ToSet
  <2>2. QED
    BY <2>1
<1> HIDE DEF needed
<1>13. "preemption" \in needed => Preempts
  BY <1>11, <1>12 DEF Preempts
<1> DEFINE demanded == needed \ (IF Offered.gated THEN {} ELSE {"tas"})
<1>14. Offered.gated = job.schedule
  BY <1>1 DEF Offered, Offer
<1>15. /\ "tas" \in demanded <=> job.schedule /\ WantsGates
       /\ "cbs" \in demanded <=> WantsCredits
       /\ "frer" \in demanded <=> Replicated # {}
       /\ "preemption" \in demanded => Preempts
       /\ demanded \subseteq {"tas", "cbs", "preemption", "frer"}
       /\ demanded \subseteq needed
  BY <1>11, <1>13, <1>14
<1> HIDE DEF demanded
<1>16. demanded \subseteq ConfiguredFor /\ ConfiguredFor \subseteq demanded \cup {"preemption"}
  BY <1>4, <1>6, <1>15
<1>17. "preemption" \in ConfiguredFor => Preempts
  BY <1>4, <1>6
<1>18. ConfiguredFor # {} => plan.deployed # << >>
  BY <1>12, <1>15, <1>16, <1>17 DEF Preempts
<1>19. ConfiguredFor \subseteq Offered.able
  <2>1. Offered.able = { c \in Capabilities : Known(job.device) /\ Have(job.device, c) = "yes" }
    BY <1>1 DEF Offered, Offer
  <2>2. ConfiguredFor # {} => Known(job.device)
    BY <1>1, <1>18 DEF CallOpens
  <2>3. "preemption" \in Capabilities
    BY RequirementsAssumption DEF Capabilities
  <2>4. ASSUME NEW c \in ConfiguredFor PROVE c \in Capabilities /\ Have(job.device, c) = "yes"
    <3>1. CASE c = "preemption"
      BY <1>17, <2>3, <3>1 DEF Preempts
    <3>2. CASE c \in needed
      BY <1>11, <3>2
    <3>3. QED
      BY <1>15, <1>16, <3>1, <3>2
  <2>5. QED
    BY <2>1, <2>2, <2>4
<1>20. Promise!Deployed = {} => ConfiguredFor = {}
  <2>1. ASSUME plan.deployed # << >> PROVE ToSet(plan.deployed) # {}
    <3>1. plan.deployed \in Seq(Objects)
      BY DEF GateInvariant, TypeOK
    <3>2. QED
      BY <2>1, <3>1, GrownAndShrunk, SubjectIsObject
  <2>2. QED
    BY <1>9, <1>18, <2>1
<1>21. Promise!Deliver
  <2>1. Phase = "open" /\ Phase' = "delivered" /\ Taken' = Taken
    BY <1>1 DEF Phase, Taken
  <2>2. (UNION { Promise!Needed(o) : o \in Promise!Deployed })
          \ (IF Offered.gated THEN {} ELSE {"tas"}) = demanded
    BY <1>10 DEF demanded
  <2>3. QED
    BY <1>2, <1>5, <1>8, <1>16, <1>19, <1>20, <2>1, <2>2 DEF Promise!Deliver
<1>22. QED
  BY <1>21 DEF Promise!Next

\* Whatever calls came before and however a call ends, its streams are carried
\* intact, carried without what was waived, or refused and left alone, and what
\* is carried is what is configured.
THEOREM ImplementsDeployment == Spec => DeploymentSpec
<1>1. Init => Promise!Init
  <2> SUFFICES ASSUME Init PROVE Promise!Init
    OBVIOUS
  <2>1. stage = "idle" /\ object = [o \in Objects |-> Fresh(o)]
    BY DEF Init
  <2>2. Taken = [o \in Objects |-> {}]
    BY <2>1, FreshIsStream DEF Taken
  <2>3. Answer = [o \in Objects |-> "none"]
    BY <2>1 DEF Answer, AnswerTo
  <2>4. QED
    BY <2>1, <2>2, <2>3 DEF Promise!Init, Promise!Nothing, Phase, Delivered
<1>2. PromiseInvariant /\ [Next]_vars => [Promise!Next]_(Promise!promiseVars)
  <2> SUFFICES ASSUME PromiseInvariant, [Next]_vars
               PROVE  [Promise!Next]_(Promise!promiseVars)
    OBVIOUS
  <2>1. CASE UNCHANGED vars
    BY <2>1 DEF vars, Promise!promiseVars, Taken, Phase, Offered, Offer, Answer, AnswerTo,
                Delivered, ConfiguredFor, Path, Known, Have, ClassOf
  <2>2. CASE LoadSite \/ Call \/ Return \/ \E o \in Objects : ResolveAgain(o)
    BY <2>2, CallerImplements
  <2>3. CASE Keep \/ Refuse \/ Waive
    BY <2>3, ExamineImplements
  <2>4. CASE Checked \/ Complete
    <3>1. stage' = "done" \/ (Checked /\ stage' = "gates")
      BY <2>4 DEF Checked, Complete
    <3>2. QED
      BY <2>4, <3>1, DeliverImplements, StagesStutter
  <2>5. CASE Unknown \/ Schedule
    <3>1. \/ Unknown \/ (Schedule /\ stage' = "raised")
          \/ Schedule /\ stage' = "emit"
      BY <2>5 DEF Schedule
    <3>2. QED
      BY <3>1, RaiseImplements, StagesStutter
  <2>6. CASE Emit \/ Replicate
    BY <2>6, StagesStutter
  <2>7. QED
    BY <2>1, <2>2, <2>3, <2>4, <2>5, <2>6 DEF Next
<1>3. QED
  BY <1>1, <1>2, PromiseHolds, PTL DEF Spec, DeploymentSpec, Promise!Spec
=============================================================================
