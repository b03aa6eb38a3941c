---------------------------- MODULE CapabilityGate ----------------------------
(***************************************************************************)
(* middleware/core/deploy.py: CapabilityGate turns resolved streams into   *)
(* the configuration of one device, or refuses them.                       *)
(*                                                                         *)
(* A resolved stream is a mutable object.  A plan call that a waiver       *)
(* covers rewrites the objects it was given, and the caller may give the   *)
(* same objects to the next call, for the same device or for another: so   *)
(* the objects are state that outlives a call.  A call is a sequence of    *)
(* steps, one per stream checked and one per stage of the configuration,   *)
(* because it may raise after some of them.                                *)
(***************************************************************************)
EXTENDS GateSchedule

CONSTANTS
  Objects,          \* the resolved streams the callers hold
  RequestOf,        \* object -> the request it was resolved from
  Devices,          \* capability class -> capability -> "yes", "no", "unknown"
  RequirementMap,   \* requirement -> capability
  SiteNames,        \* device names of site files
  SiteFiles,        \* site files: sequences of <<device name, class>>
  Batches,          \* the lists of streams that are planned together
  WaiverSets,       \* the lists of waivers a call is given, as sets
  PortRates,        \* Mb/s
  NoJob

\* Callers plan streams the registry has resolved.
ASSUME ObjectsAssumption ==
  /\ \A o \in Objects : Resolvable(RequestOf[o])
  /\ Batches \subseteq Seq(Objects)

\* _degrade knows four capabilities by name, and requirement_map
\* (devices/device-classes.yaml) maps to these whatever a resolved stream may
\* require; the one redundancy of the profile is FRER.
ASSUME RequirementsAssumption ==
  /\ {"tas", "cbs", "express"} \subseteq DOMAIN RequirementMap
  /\ RequirementMap["tas"] = "tas"
  /\ RequirementMap["cbs"] = "cbs"
  /\ RequirementMap["express"] = "preemption"
  /\ \A o \in Objects :
       LET q == RedundancyOf(RequestOf[o])
       IN  q # "none" => q \in DOMAIN RequirementMap /\ RequirementMap[q] = "frer"

\* The devices a site file names, in order, and the class it gives each.
ASSUME SiteFilesAssumption == SiteFiles \subseteq Seq(SiteNames \X STRING)

DeviceNames == (DOMAIN Devices) \cup SiteNames

\* What a call is about, and how far it is.
Jobs ==
  [ device : DeviceNames, batch : Batches, todo : Seq(Objects), waivers : WaiverSets,
    port : PortRates, schedule : BOOLEAN, index : Nat ]

ASSUME NoJobAssumption == NoJob \notin Jobs

VARIABLES
  site,     \* CapabilityGate.site: the device names attached, and their classes
  object,   \* object -> the resolved stream as it is now
  stage,    \* where the call is
  job,      \* the call's arguments, and the streams it has yet to go through
  plan,     \* the DeploymentPlan under construction
  waivers   \* history: <<object, capability, device>> for every rewrite of it

vars == <<site, object, stage, job, plan, waivers>>

-----------------------------------------------------------------------------
(* The gate.                                                               *)

Fresh(o) == Resolve(RequestOf[o])

Known(device) == device \in DOMAIN Devices \cup DOMAIN site

\* A class name is its own class, even if a site device has the same name.
ClassOf(device) == IF device \in DOMAIN Devices THEN device ELSE site[device]

CapabilityFor(requirement) ==
  IF requirement \in DOMAIN RequirementMap THEN RequirementMap[requirement] ELSE requirement

\* Mutant: a shaper is not something a device has to have.
RequirementsButShaper(s) ==
  { q \in {s.tsn.redundancy} : q # "none" } \cup { q \in {s.tsn.preemption} : q = "express" }

RequirementsOf(s) ==
  { q \in {s.tsn.redundancy} : q # "none" }
    \cup { q \in {s.tsn.shaper} : q \in {"tas", "cbs"} }
    \cup { q \in {s.tsn.preemption} : q = "express" }

\* What the class asked for that the stream still asks for, as capabilities.
Needs(s) == { CapabilityFor(q) : q \in RequirementsOf(s) }

Have(device, capability) ==
  LET caps == Devices[ClassOf(device)]
  IN  IF capability \in DOMAIN caps THEN caps[capability] ELSE "unknown"

\* check: one refusal per capability that is missing or not measured.
Check(o, device) ==
  { [stream |-> object[o].name, device |-> device, capability |-> c,
     measured |-> Have(device, c) = "no"] :
      c \in { c \in Needs(object[o]) : Have(device, c) # "yes" } }

Matches(w, refusal) ==
  /\ w.stream \in {"*", refusal.stream}
  /\ w.device \in {"*", refusal.device}
  /\ w.capability = refusal.capability

Covered(refusal) == \E w \in job.waivers : Matches(w, refusal)

\* Mutant: a waived capability is recorded but stays configured.
DegradeInName(s, capabilities) == [s EXCEPT !.tsn.degraded = @ \cup capabilities]

\* Mutant: the loss is not recorded.
DegradeQuietly(s, capabilities) ==
  [s EXCEPT !.tsn.redundancy = IF "frer" \in capabilities THEN "none" ELSE @,
            !.tsn.preemption = IF "preemption" \in capabilities THEN "not_supported" ELSE @,
            !.tsn.shaper = IF capabilities \cap {"tas", "cbs"} # {} THEN "strict_priority"
                           ELSE @]

\* What is left of a stream's tsn settings without the capabilities, and the
\* record of what is gone.
Reduced(tsn, capabilities) ==
  [tsn EXCEPT
     !.redundancy = IF "frer" \in capabilities THEN "none" ELSE @,
     !.preemption = IF "preemption" \in capabilities THEN "not_supported" ELSE @,
     !.shaper     = IF capabilities \cap {"tas", "cbs"} # {} THEN "strict_priority" ELSE @,
     !.degraded   = @ \cup capabilities]

\* _degrade, for each of the capabilities the device lacks.
Degrade(s, capabilities) == [s EXCEPT !.tsn = Reduced(s.tsn, capabilities)]

\* Mutant: the classes a file names are taken as they come.
AttachedUnchecked(file) == DOMAIN file

\* load_site attaches the devices of a file one by one, up to the first whose
\* class is unknown, which raises KeyError.
Attached(file) ==
  { i \in DOMAIN file : \A j \in 1 .. i : file[j][2] \in DOMAIN Devices }

-----------------------------------------------------------------------------
(* The call.                                                               *)

EmptyPlan ==
  [ deployed |-> << >>, refusals |-> {}, waived |-> {}, config |-> << >> ]

Init ==
  /\ site = << >>
  /\ object = [o \in Objects |-> Fresh(o)]
  /\ stage = "idle"
  /\ job = NoJob
  /\ plan = EmptyPlan
  /\ waivers = {}

LoadSite ==
  /\ stage = "idle"
  /\ \E file \in SiteFiles :
       site' = Overridden(site,
                 [ n \in { file[i][1] : i \in Attached(file) } |->
                     (CHOOSE e \in { file[i] : i \in Attached(file) } : e[1] = n)[2] ])
  /\ UNCHANGED <<object, stage, job, plan, waivers>>

\* The caller resolves a request again, and has a stream nobody degraded.
ResolveAgain(o) ==
  /\ stage = "idle"
  /\ object' = [object EXCEPT ![o] = Fresh(o)]
  /\ waivers' = { w \in waivers : w[1] # o }
  /\ UNCHANGED <<site, stage, job, plan>>

\* plan(streams, device, port_mbps, registry, waivers); schedule says whether a
\* registry is given.
Call ==
  /\ stage = "idle"
  /\ stage' = "check"
  /\ \E device \in DeviceNames, batch \in Batches, ws \in WaiverSets,
        port \in PortRates, schedule \in BOOLEAN :
       job' = [ device |-> device, batch |-> batch, todo |-> batch, waivers |-> ws,
                port |-> port, schedule |-> schedule, index |-> 0 ]
  /\ UNCHANGED <<site, object, plan, waivers>>

\* The stream under examination, and what is wrong with it.
Subject  == Head(job.todo)
Refusals == Check(Subject, job.device)

Examining == stage = "check" /\ job.todo # << >> /\ Known(job.device)

Advance == job' = [job EXCEPT !.todo = Tail(@)]

Keep ==
  /\ Examining
  /\ Refusals = {}
  /\ plan' = [plan EXCEPT !.deployed = Append(@, Subject)]
  /\ Advance
  /\ UNCHANGED <<site, object, stage, waivers>>

\* Mutant: what is waived is rewritten before the rest is found missing.
RefuseAfterDegrading ==
  /\ Examining
  /\ \E r \in Refusals : ~Covered(r)
  /\ plan' = [plan EXCEPT !.refusals = @ \cup { r \in Refusals : ~Covered(r) }]
  /\ object' = [object EXCEPT ![Subject] =
                  Degrade(@, { r.capability : r \in { r \in Refusals : Covered(r) } })]
  /\ Advance
  /\ UNCHANGED <<site, stage, waivers>>

\* One refusal no waiver covers, and the stream is left out, untouched.
Refuse ==
  /\ Examining
  /\ \E r \in Refusals : ~Covered(r)
  /\ plan' = [plan EXCEPT !.refusals = @ \cup { r \in Refusals : ~Covered(r) }]
  /\ Advance
  /\ UNCHANGED <<site, object, stage, waivers>>

\* Mutant: a stream that needed a waiver is rewritten and forgotten.
WaiveOnly ==
  /\ Examining
  /\ Refusals # {} /\ \A r \in Refusals : Covered(r)
  /\ object' = [object EXCEPT ![Subject] =
                  Degrade(@, { r.capability : r \in Refusals })]
  /\ plan' = [plan EXCEPT !.waived = @ \cup Refusals]
  /\ waivers' = waivers \cup { <<Subject, r.capability, job.device>> : r \in Refusals }
  /\ Advance
  /\ UNCHANGED <<site, stage>>

\* Every refusal is covered: the stream loses what is missing and is deployed.
Waive ==
  /\ Examining
  /\ Refusals # {} /\ \A r \in Refusals : Covered(r)
  /\ object' = [object EXCEPT ![Subject] =
                  Degrade(@, { r.capability : r \in Refusals })]
  /\ plan' = [plan EXCEPT !.waived = @ \cup Refusals,
                          !.deployed = Append(@, Subject)]
  /\ waivers' = waivers \cup { <<Subject, r.capability, job.device>> : r \in Refusals }
  /\ Advance
  /\ UNCHANGED <<site, stage>>

\* The first stream checked against a device nobody knows: KeyError.
Unknown ==
  /\ stage = "check" /\ job.todo # << >> /\ ~Known(job.device)
  /\ stage' = "raised"
  /\ UNCHANGED <<site, object, job, plan, waivers>>

Checked ==
  /\ stage = "check" /\ job.todo = << >>
  /\ stage' = IF plan.deployed = << >> THEN "done" ELSE "gates"
  /\ UNCHANGED <<site, object, job, plan, waivers>>

Deployed == [ i \in DOMAIN plan.deployed |-> object[plan.deployed[i]] ]

\* plan.config.update(entries)
Configure(entries) == plan' = [plan EXCEPT !.config = Overridden(@, entries)]

\* A configuration path (the node, and the key of a list entry) and its value.
At(path, value) == [ p \in {path} |-> value ]

\* The gate control list, or AdmissionError if the windows do not fit.
Schedule ==
  /\ stage = "gates"
  /\ \/ ~job.schedule /\ stage' = "emit" /\ UNCHANGED plan
     \/ /\ job.schedule
        /\ WindowsFit(Deployed, job.port)
        /\ stage' = "emit"
        /\ LET gcl == GateControlList(Deployed, job.port)
           IN  Configure(Overridden(At(<<"gate-parameter-table">>, GateParameterTable(gcl)),
                                    At(<<"_gcl">>, gcl)))
     \/ /\ job.schedule
        /\ ~WindowsFit(Deployed, job.port)
        /\ stage' = "raised"
        /\ UNCHANGED plan
  /\ UNCHANGED <<site, object, job, waivers>>

\* A table with no rows is not written.
Written(path, table) == IF table = << >> THEN << >> ELSE At(path, table)

\* Credit-based shapers, maximum SDUs, and preemption where the device has it.
Emit ==
  /\ stage = "emit"
  /\ stage' = "frer"
  /\ Configure(
       Overridden(Written(<<"cbsa">>, CbsaTable(Deployed)),
         Overridden(Written(<<"queue-max-sdu-table">>, QueueMaxSdu(Deployed)),
           IF Have(job.device, "preemption") = "yes"
           THEN At(<<"frame-preemption-parameters">>, PreemptionTable(Deployed))
           ELSE << >>)))
  /\ job' = [job EXCEPT !.todo = plan.deployed]
  /\ UNCHANGED <<site, object, waivers>>

\* emit_frer for one stream.  Identification, generation and recovery are
\* lists keyed by a running index; split and sequence identification are
\* keyed by the port, and a plan has one port.
FrerEntries(s, index) ==
  [ p \in { <<"stream-identity", index>>, <<"sequence-generation", index>>,
            <<"sequence-recovery", index>>, <<"stream-split">>,
            <<"sequence-identification">> } |-> s.name ]

\* Mutant: the running index does not run.
ReplicateAtOneIndex ==
  LET s == object[Subject]
  IN  /\ stage = "frer" /\ job.todo # << >>
      /\ IF s.tsn.redundancy # "none" THEN Configure(FrerEntries(s, job.index))
         ELSE UNCHANGED plan
      /\ Advance
      /\ UNCHANGED <<site, object, stage, waivers>>

Replicate ==
  LET s == object[Subject]
  IN  /\ stage = "frer" /\ job.todo # << >>
      /\ \/ /\ s.tsn.redundancy = "none"
            /\ Advance
            /\ UNCHANGED plan
         \/ /\ s.tsn.redundancy # "none"
            /\ Configure(FrerEntries(s, job.index))
            /\ job' = [job EXCEPT !.todo = Tail(@), !.index = @ + 1]
      /\ UNCHANGED <<site, object, stage, waivers>>

Complete ==
  /\ stage = "frer" /\ job.todo = << >>
  /\ stage' = "done"
  /\ UNCHANGED <<site, object, job, plan, waivers>>

\* The caller has the plan, or the exception.
Return ==
  /\ stage \in {"done", "raised"}
  /\ stage' = "idle"
  /\ job' = NoJob
  /\ plan' = EmptyPlan
  /\ UNCHANGED <<site, object, waivers>>

Next ==
  \/ LoadSite \/ (\E o \in Objects : ResolveAgain(o)) \/ Call
  \/ Keep \/ Refuse \/ Waive \/ Unknown \/ Checked
  \/ Schedule \/ Emit \/ Replicate \/ Complete \/ Return

Spec == Init /\ [][Next]_vars

-----------------------------------------------------------------------------
(* Properties.                                                             *)

Capabilities == { RequirementMap[q] : q \in DOMAIN RequirementMap }

\* What a caller may be expected to see to: a refusal names its stream, and a
\* stream listed twice is replicated twice.
NamesDistinct ==
  \A o, p \in Objects : RequestOf[o].name = RequestOf[p].name => o = p

BatchesDistinct == \A b \in Batches : IsInjective(b)

\* Every variable holds what the code can put there.
TypeOK ==
  /\ DOMAIN site \subseteq SiteNames
  /\ \A n \in DOMAIN site : site[n] \in DOMAIN Devices
  /\ DOMAIN object = Objects
  /\ stage \in {"idle", "check", "gates", "emit", "frer", "done", "raised"}
  /\ IF stage = "idle" THEN job = NoJob ELSE job \in Jobs
  /\ plan.deployed \in Seq(Objects)
  /\ waivers \subseteq Objects \X Capabilities \X DeviceNames

\* No stream is deployed on a device that cannot do, or is not known to do,
\* everything the stream is still configured for: the platform's one hard rule
\* (deploy.py:3-6).
DeploysWithinAbility ==
  job # NoJob =>
    \A i \in DOMAIN plan.deployed :
      \A c \in Needs(object[plan.deployed[i]]) : Have(job.device, c) = "yes"

Path(name) == { p \in DOMAIN plan.config : p[1] = name }

\* No finished plan configures gates, credit-based shapers, preemption or
\* replication on a device that is not known to have them: a feature is removed,
\* "not left in place to be ignored by the hardware" (deploy.py:174-177).
ConfigWithinAbility ==
  stage = "done" =>
    /\ \A p \in Path("gate-parameter-table") :
         plan.config[p].enabled => Have(job.device, "tas") = "yes"
    /\ Path("cbsa") # {} => Have(job.device, "cbs") = "yes"
    /\ Path("frame-preemption-parameters") # {} => Have(job.device, "preemption") = "yes"
    /\ Path("stream-split") # {} => Have(job.device, "frer") = "yes"

\* A stream differs from what its request resolves to in exactly the
\* capabilities that were waived for it, each recorded in the stream, over all
\* the plans it took part in (deploy.py:134-147, Waiver).
LossesAreWaived ==
  \A o \in Objects :
    LET lost  == { w[2] : w \in { w \in waivers : w[1] = o } }
        fresh == Fresh(o).tsn
        now   == object[o].tsn
    IN  /\ now.degraded = lost
        /\ now.redundancy = IF "frer" \in lost THEN "none" ELSE fresh.redundancy
        /\ now.preemption = IF "preemption" \in lost THEN "not_supported" ELSE fresh.preemption
        /\ now.shaper = IF lost \cap {"tas", "cbs"} # {} THEN "strict_priority"
                        ELSE fresh.shaper
        /\ [object[o] EXCEPT !.tsn = fresh] = Fresh(o)

\* Checking a stream rewrites it only if it is then deployed, and only by what
\* a waiver for it and for this device names ("refusal must not mutate the
\* stream", tests/unit/test_qos_mapping.py:259).
RefusalTouchesNothing ==
  [][\A o \in Objects :
       LET lost == object'[o].tsn.degraded \ object[o].tsn.degraded
       IN  stage = "check" /\ object'[o] # object[o] =>
             /\ plan'.deployed = Append(plan.deployed, o)
             /\ plan'.refusals = plan.refusals
             /\ \A c \in lost :
                  \E w \in job.waivers : /\ w.capability = c
                                         /\ w.device \in {"*", job.device}
                                         /\ w.stream \in {"*", object[o].name}]_vars

\* A finished plan accounts for every stream it was asked to plan: it is
\* deployed, or refused for something the device lacks, and never both
\* (deploy.py:170-194).
EveryStreamAnswered ==
  stage = "done" =>
    \A i \in DOMAIN job.batch :
      LET o       == job.batch[i]
          refused == { r \in plan.refusals : r.stream = object[o].name }
      IN  /\ o \in ToSet(plan.deployed) <=> refused = {}
          /\ \A r \in refused : /\ r.capability \in Needs(object[o])
                                 /\ Have(job.device, r.capability) # "yes"

\* Every redundant stream of a finished plan has one identity, and the sequence
\* generation and recovery at its index are for the same stream; no other
\* stream has any (deploy.py:214-224).
FrerListsAgree ==
  stage = "done" =>
    LET redundant == { o \in ToSet(plan.deployed) : object[o].tsn.redundancy # "none" }
        at(node, n) == IF <<node, n>> \in DOMAIN plan.config
                       THEN plan.config[<<node, n>>] ELSE NoJob
    IN  /\ Cardinality(Path("stream-identity")) = Cardinality(redundant)
        /\ \A o \in redundant :
             \E n \in 0 .. Cardinality(redundant) - 1 :
               \A node \in {"stream-identity", "sequence-generation", "sequence-recovery"} :
                 at(node, n) = object[o].name

\* Every redundant stream of a finished plan is split at the port: "the node
\* that actually makes a stream redundant" (emit_frer.py:117-118).
SplitPerRedundantStream ==
  stage = "done" =>
    \A o \in ToSet(plan.deployed) :
      object[o].tsn.redundancy # "none" =>
        \E p \in Path("stream-split") : plan.config[p] = object[o].name
-----------------------------------------------------------------------------
(* The gate keeps the promise of Deployment.                               *)

\* What the plan configures the device for.
ConfiguredFor ==
  { c \in {"tas"} : \E p \in Path("gate-parameter-table") : plan.config[p].enabled }
    \cup { c \in {"cbs"} : Path("cbsa") # {} }
    \cup { c \in {"preemption"} : Path("frame-preemption-parameters") # {} }
    \cup { c \in {"frer"} : Path("stream-split") # {} }

\* An object that a call lists again is open until it is deployed or the list
\* has no more of it.
AnswerTo(o) ==
  IF stage = "idle" THEN "none"
  ELSE IF o \in ToSet(plan.deployed) THEN "deployed"
  ELSE IF o \in ToSet(job.todo) THEN "open"
  ELSE IF o \in ToSet(job.batch) THEN "refused" ELSE "none"

\* What the device is known to do, and what each stream may go without on it.
Offer ==
  [ able   |-> { c \in Capabilities : Known(job.device) /\ Have(job.device, c) = "yes" },
    waived |-> { e \in Objects \X Capabilities :
                   \E w \in job.waivers : /\ w.capability = e[2]
                                          /\ w.device \in {"*", job.device}
                                          /\ w.stream \in {"*", RequestOf[e[1]].name} },
    gated  |-> job.schedule ]

Taken     == [ o \in Objects |-> object[o].tsn.degraded ]
Phase     == IF stage \in {"check", "gates", "emit", "frer"} THEN "open"
             ELSE IF stage = "done" THEN "delivered"
             ELSE IF stage = "raised" THEN "failed" ELSE "idle"
Offered   == IF stage = "idle" THEN NoJob ELSE Offer
Answer    == [ o \in Objects |-> AnswerTo(o) ]
Delivered == IF stage = "done" THEN ConfiguredFor ELSE {}

Promise == INSTANCE Deployment WITH
  Streams <- Objects, Demands <- [ o \in Objects |-> Needs(Fresh(o)) ],
  taken <- Taken, phase <- Phase, call <- Offered, answer <- Answer, features <- Delivered

\* Every stream of a call is carried intact, carried without what was waived, or
\* refused and left alone, and what is carried is configured, whatever calls
\* came before and however the call ends (deploy.py:170-177).
DeploymentSpec == Promise!Spec
=============================================================================
