------------------------- MODULE NetworkServiceProofs -------------------------
(***************************************************************************)
(* Theorems about NetworkService, for any threads, requests, classes and   *)
(* links that satisfy its assumptions.                                     *)
(***************************************************************************)
EXTENDS NetworkService, DataTheorems

-----------------------------------------------------------------------------
(* Loads.                                                                  *)

\* A registry drawn from finitely many requests is finite.
LEMMA StreamsFinite == IsFiniteSet(Streams)
<1>1. IsFiniteSet(DOMAIN Derived)
  <2>1. DOMAIN Derived \in SUBSET Requests
    BY DEF Derived
  <2>2. QED
    BY <2>1, FS_Subset, UnitsAssumption
<1>2. Derived \in Surjection(DOMAIN Derived, Streams)
  BY DEF Derived, Streams, Surjection
<1>3. QED
  BY <1>1, <1>2, FS_Surjection

\* Fewer streams are never a greater load.
LEMMA LoadMonotone ==
  ASSUME NEW S, IsFiniteSet(S), NEW T \in SUBSET S
  PROVE  /\ Load(S) \in Nat
         /\ Load(T) \in Nat
         /\ Load(T) <= Load(S)
<1> DEFINE UnitsOf(X) == { u \in X \X (1 .. MaxUnits) : u[2] <= Charge(u[1]) }
<1>1. IsFiniteSet(S \X (1 .. MaxUnits))
  <2>1. MaxUnits \in Int
    BY UnitsAssumption
  <2>2. IsFiniteSet(1 .. MaxUnits)
    BY <2>1, FS_Interval
  <2>3. QED
    BY <2>2, FS_Product
<1>2. IsFiniteSet(UnitsOf(S))
  BY <1>1, FS_Subset
<1>3. UnitsOf(T) \in SUBSET UnitsOf(S)
  OBVIOUS
<1>4. /\ IsFiniteSet(UnitsOf(T))
      /\ Cardinality(UnitsOf(T)) <= Cardinality(UnitsOf(S))
  BY <1>2, <1>3, FS_Subset
<1>5. Cardinality(UnitsOf(S)) \in Nat /\ Cardinality(UnitsOf(T)) \in Nat
  BY <1>2, <1>4, FS_CardinalityType
<1>6. QED
  BY <1>4, <1>5 DEF Load

\* A set of streams a link admits stays admitted when some of them leave.
LEMMA AdmitMonotone ==
  ASSUME NEW l \in DOMAIN Links, NEW S, IsFiniteSet(S), NEW T \in SUBSET S, Admit(S, l)
  PROVE  Admit(T, l)
<1>1. Load(S) \in Nat /\ Load(T) \in Nat /\ Load(T) <= Load(S)
  BY LoadMonotone
<1>2. Capacity(l) \in Nat
  BY UnitsAssumption
<1>3. 100 * Load(S) <= 75 * Capacity(l)
  BY DEF Admit
<1>4. 100 * Load(T) <= 75 * Capacity(l)
  BY <1>1, <1>2, <1>3
<1>5. QED
  BY <1>4 DEF Admit

\* An empty link is within its ceiling.
LEMMA AdmitNothing == ASSUME NEW l \in DOMAIN Links PROVE Admit({}, l)
<1>1. Load({}) = 0
  <2>1. { u \in {} \X (1 .. MaxUnits) : u[2] <= Charge(u[1]) } = {}
    OBVIOUS
  <2>2. QED
    BY <2>1, FS_EmptySet DEF Load
<1>2. Capacity(l) \in Nat
  BY UnitsAssumption
<1>3. QED
  BY <1>1, <1>2 DEF Admit
-----------------------------------------------------------------------------
(* The registry invariant.                                                 *)

\* The service starts with an empty registry and idle threads.
LEMMA InitRegistry == Init => RegistryInvariant
<1> SUFFICES ASSUME Init PROVE RegistryInvariant
  OBVIOUS
<1>1. TypeOK
  BY DEF Init, TypeOK, WriterPCs, ReaderPCs, Threads
<1>2. LocalsOK
  BY DEF Init, LocalsOK, Critical, Threads
<1>3. JudgementHolds
  BY DEF Init, JudgementHolds, Threads
<1>4. NoOversubscription
  <2>1. \A l : OnLink(streams, l) = {}
    BY DEF Init, OnLink
  <2>2. QED
    BY <2>1, AdmitNothing DEF NoOversubscription
<1>5. QED
  BY <1>1, <1>2, <1>3, <1>4 DEF RegistryInvariant

\* What a request resolves to is one of Streams, and is shown as such.
LEMMA CarriedStream ==
  ASSUME NEW t \in Writers, Carries(t) PROVE built[t] \in Streams
BY DEF Carries, Streams

\* A body _build cannot resolve is refused or raises.
LEMMA FaultVerdict ==
  ASSUME NEW body \in Requests, body \notin DOMAIN Derived
  PROVE  Fault[body] \in Verdicts
BY DEF Fault, Verdicts

\* A call of each kind has the field its handler reads.
LEMMA CallFields ==
  ASSUME NEW c \in Calls
  PROVE  /\ c.op \in {"register", "unregister", "get"}
         /\ c.op = "register" => c.body \in Requests
         /\ c.op # "register" => c.name \in Names
BY DEF Calls

\* No step stores a value of another kind.
LEMMA TypePreserved == TypeOK /\ LocalsOK /\ [Next]_vars => TypeOK'
<1> SUFFICES ASSUME TypeOK, LocalsOK, [Next]_vars PROVE TypeOK'
  OBVIOUS
<1> USE DEF TypeOK, Goto, SetReply, Threads, WriterPCs, ReaderPCs
<1>1. ASSUME NEW t \in Writers, Invoke(t) PROVE TypeOK'
  <2>1. PICK c \in Calls : /\ pc' = [pc EXCEPT ![t] = EntryPoint(c)]
                           /\ call' = [call EXCEPT ![t] = c]
    BY <1>1 DEF Invoke
  <2>2. EntryPoint(c) \in {"build", "acquire", "get"}
    BY CallFields DEF EntryPoint
  <2>3. UNCHANGED <<streams, lock, built, reply>>
    BY <1>1 DEF Invoke
  <2>4. QED
    BY <2>1, <2>2, <2>3, ThreadsAssumption
<1>2. ASSUME NEW t \in Writers, Acquire(t) PROVE TypeOK'
  BY <1>2, ThreadsAssumption DEF Acquire
<1>3. ASSUME NEW t \in Writers, Build(t) PROVE TypeOK'
  <2>1. call[t] \in Calls /\ call[t].body \in Requests
    <3>1. pc[t] = "build"
      BY <1>3 DEF Build
    <3>2. QED
      BY <3>1, CallFields DEF LocalsOK
  <2>2. CASE call[t].body \in DOMAIN Derived
    <3>1. Derived[call[t].body] \in Streams
      BY <2>2 DEF Streams
    <3>2. QED
      BY <1>3, <2>2, <3>1, ThreadsAssumption DEF Build
  <2>3. CASE call[t].body \notin DOMAIN Derived
    <3>1. [verdict |-> Fault[call[t].body], shown |-> {}] \in Replies
      BY <2>1, <2>3, FaultVerdict DEF Replies
    <3>2. QED
      BY <1>3, <2>3, <3>1, ThreadsAssumption DEF Build
  <2>4. QED
    BY <2>2, <2>3
<1>4. ASSUME NEW t \in Writers, Lookup(t) PROVE TypeOK'
  <2>1. [verdict |-> "duplicate", shown |-> {}] \in Replies
    BY DEF Replies, Verdicts
  <2>2. reply' \in [Writers -> Replies \cup {NoReply}]
    BY <1>4, <2>1 DEF Lookup
  <2>3. PICK to \in {"release", "judge"} : pc' = [pc EXCEPT ![t] = to]
    BY <1>4 DEF Lookup
  <2>4. UNCHANGED <<streams, lock, call, built>>
    BY <1>4 DEF Lookup
  <2>5. QED
    BY <2>2, <2>3, <2>4, ThreadsAssumption
<1>5. ASSUME NEW t \in Writers, Judge(t) PROVE TypeOK'
  <2>1. [verdict |-> "over_ceiling", shown |-> {}] \in Replies
    BY DEF Replies, Verdicts
  <2>2. reply' \in [Writers -> Replies \cup {NoReply}]
    BY <1>5, <2>1 DEF Judge
  <2>3. PICK to \in {"insert", "release"} : pc' = [pc EXCEPT ![t] = to]
    BY <1>5 DEF Judge
  <2>4. UNCHANGED <<streams, lock, call, built>>
    BY <1>5 DEF Judge
  <2>5. QED
    BY <2>2, <2>3, <2>4, ThreadsAssumption
<1>6. ASSUME NEW t \in Writers, Insert(t) PROVE TypeOK'
  <2>1. built[t] \in Streams
    BY <1>6, CarriedStream DEF Insert, LocalsOK
  <2>2. [verdict |-> "registered", shown |-> {built[t]}] \in Replies
    BY <2>1 DEF Replies, Verdicts
  <2>3. QED
    BY <1>6, <2>1, <2>2, ThreadsAssumption DEF Insert, Holding
<1>7. ASSUME NEW t \in Writers, Pop(t) PROVE TypeOK'
  <2>1. \A v \in {"removed", "absent"} : [verdict |-> v, shown |-> {}] \in Replies
    BY DEF Replies, Verdicts
  <2>2. QED
    BY <1>7, <2>1, ThreadsAssumption DEF Pop
<1>8. ASSUME NEW t \in Writers, Release(t) PROVE TypeOK'
  BY <1>8, ThreadsAssumption DEF Release
<1>9. ASSUME NEW t \in Writers, Get(t) PROVE TypeOK'
  <2>1. \A v \in {"found", "not_found"}, S \in SUBSET Streams :
          [verdict |-> v, shown |-> S] \in Replies
    BY DEF Replies, Verdicts
  <2>2. Holding(call[t].name) \in SUBSET Streams
    BY DEF Holding
  <2>3. QED
    BY <1>9, <2>1, <2>2, ThreadsAssumption DEF Get
<1>10. ASSUME NEW t \in Writers, Return(t) PROVE TypeOK'
  BY <1>10, ThreadsAssumption DEF Return
<1>11. ASSUME NEW t \in Readers, BeginScan(t) \/ Walk(t) PROVE TypeOK'
  BY <1>11, ThreadsAssumption DEF BeginScan, Walk, Yield, Exhaust, Abort, EndScan, writerVars
<1>12. CASE UNCHANGED vars
  BY <1>12 DEF vars
<1>13. QED
  BY <1>1, <1>2, <1>3, <1>4, <1>5, <1>6, <1>7, <1>8, <1>9, <1>10, <1>11, <1>12
     DEF Next, Serve

\* A reader's step touches nothing a writer relies on.
LEMMA ReaderStep ==
  ASSUME TypeOK, NEW r \in Readers, BeginScan(r) \/ Walk(r)
  PROVE  /\ UNCHANGED <<streams, entries, lock, call, built, reply>>
         /\ \A t \in Writers : pc'[t] = pc[t]
BY ThreadsAssumption
   DEF TypeOK, Threads, Goto, BeginScan, Walk, Yield, Exhaust, Abort, EndScan, writerVars

\* What a thread carries stays what its next step relies on, and nobody is
\* inside the with block but the holder of the lock.
LEMMA LocalsPreserved == TypeOK /\ LocalsOK /\ [Next]_vars => LocalsOK'
<1> SUFFICES ASSUME TypeOK, LocalsOK, [Next]_vars PROVE LocalsOK'
  OBVIOUS
<1> USE DEF Goto, SetReply, Threads, Critical
<1> DEFINE Typed == /\ pc \in [Threads -> WriterPCs \cup ReaderPCs]
                    /\ call \in [Writers -> Calls \cup {NoCall}]
                    /\ built \in [Writers -> Streams \cup {NoStream}]
                    /\ reply \in [Writers -> Replies \cup {NoReply}]
<1>0. Typed
  BY DEF TypeOK
<1>1. ASSUME NEW t \in Writers, Invoke(t) PROVE LocalsOK'
  <2>1. PICK c \in Calls : /\ pc[t] = "idle"
                           /\ pc' = [pc EXCEPT ![t] = EntryPoint(c)]
                           /\ call' = [call EXCEPT ![t] = c]
    BY <1>1 DEF Invoke
  <2>2. \/ c.op = "register" /\ EntryPoint(c) = "build"
        \/ c.op = "unregister" /\ EntryPoint(c) = "acquire"
        \/ c.op = "get" /\ EntryPoint(c) = "get"
    BY CallFields DEF EntryPoint
  <2>3. UNCHANGED <<streams, lock, built, reply>>
    BY <1>1 DEF Invoke
  <2>4. QED
    BY <1>0, <2>1, <2>2, <2>3 DEF LocalsOK, Carries, Holding
<1>2. ASSUME NEW t \in Writers, Acquire(t) PROVE LocalsOK'
  BY <1>0, <1>2, ThreadsAssumption DEF Acquire, LocalsOK, Carries, Holding
<1>3. ASSUME NEW t \in Writers, Build(t) PROVE LocalsOK'
  <2>1. CASE call[t].body \in DOMAIN Derived
    BY <1>0, <1>3, <2>1 DEF Build, LocalsOK, Carries, Holding
  <2>2. CASE call[t].body \notin DOMAIN Derived
    <3>1. call[t].body \in Requests
      BY <1>3, CallFields DEF Build, LocalsOK
    <3>2. [verdict |-> Fault[call[t].body], shown |-> {}] # NoReply
      BY <2>2, <3>1, FaultVerdict, ThreadsAssumption DEF Replies
    <3>3. QED
      BY <1>0, <1>3, <2>2, <3>2 DEF Build, LocalsOK, Carries, Holding
  <2>3. QED
    BY <2>1, <2>2
<1>4. ASSUME NEW t \in Writers, Lookup(t) PROVE LocalsOK'
  <2>1. [verdict |-> "duplicate", shown |-> {}] # NoReply
    BY ThreadsAssumption DEF Replies, Verdicts
  <2>2. QED
    BY <1>0, <1>4, <2>1 DEF Lookup, LocalsOK, Carries, Holding
<1>5. ASSUME NEW t \in Writers, Judge(t) PROVE LocalsOK'
  <2>1. [verdict |-> "over_ceiling", shown |-> {}] # NoReply
    BY ThreadsAssumption DEF Replies, Verdicts
  <2>2. QED
    BY <1>0, <1>5, <2>1 DEF Judge, LocalsOK, Carries, Holding
<1>6. ASSUME NEW t \in Writers, Insert(t) PROVE LocalsOK'
  <2>1. [verdict |-> "registered", shown |-> {built[t]}] # NoReply
    <3>1. built[t] \in Streams
      BY <1>6, CarriedStream DEF Insert, LocalsOK
    <3>2. QED
      BY <3>1, ThreadsAssumption DEF Replies, Verdicts
  <2>2. \A u \in Writers \ {t} : pc[u] \notin Critical
    BY <1>6 DEF Insert, LocalsOK
  <2>3. QED
    BY <1>0, <1>6, <2>1, <2>2 DEF Insert, LocalsOK, Carries, Holding
<1>7. ASSUME NEW t \in Writers, Pop(t) PROVE LocalsOK'
  <2>1. \A v \in {"removed", "absent"} : [verdict |-> v, shown |-> {}] # NoReply
    BY ThreadsAssumption DEF Replies, Verdicts
  <2>2. \A u \in Writers \ {t} : pc[u] \notin Critical
    BY <1>7 DEF Pop, LocalsOK
  <2>3. QED
    BY <1>0, <1>7, <2>1, <2>2 DEF Pop, LocalsOK, Carries, Holding
<1>8. ASSUME NEW t \in Writers, Release(t) PROVE LocalsOK'
  BY <1>0, <1>8 DEF Release, LocalsOK, Carries, Holding
<1>9. ASSUME NEW t \in Writers, Get(t) PROVE LocalsOK'
  <2>1. \A v \in {"found", "not_found"}, S \in SUBSET Streams :
          [verdict |-> v, shown |-> S] # NoReply
    BY ThreadsAssumption DEF Replies, Verdicts
  <2>2. Holding(call[t].name) \in SUBSET Streams
    BY DEF Holding, TypeOK
  <2>3. QED
    BY <1>0, <1>9, <2>1, <2>2 DEF Get, LocalsOK, Carries, Holding
<1>10. ASSUME NEW t \in Writers, Return(t) PROVE LocalsOK'
  BY <1>0, <1>10 DEF Return, LocalsOK, Carries, Holding
<1>11. ASSUME NEW t \in Readers, BeginScan(t) \/ Walk(t) PROVE LocalsOK'
  BY <1>11, ReaderStep DEF LocalsOK, Carries, Holding
<1>12. CASE UNCHANGED vars
  BY <1>12 DEF vars, LocalsOK, Carries, Holding
<1>13. QED
  BY <1>1, <1>2, <1>3, <1>4, <1>5, <1>6, <1>7, <1>8, <1>9, <1>10, <1>11, <1>12
     DEF Next, Serve

\* While one thread is inside the with block no other is, so nothing it
\* judged is changed before it acts.
LEMMA JudgementPreserved ==
  TypeOK /\ LocalsOK /\ JudgementHolds /\ [Next]_vars => JudgementHolds'
<1> SUFFICES ASSUME TypeOK, LocalsOK, JudgementHolds, [Next]_vars,
                    NEW u \in Writers, pc'[u] = "insert"
             PROVE  (Holding(built[u].name) = {} /\ Fits(built[u]))'
  BY DEF JudgementHolds
<1> USE DEF Goto, SetReply, Threads
<1> DEFINE Goal == (Holding(built[u].name) = {} /\ Fits(built[u]))'
<1>0. pc \in [Threads -> WriterPCs \cup ReaderPCs] /\ built \in [Writers -> Streams \cup {NoStream}]
  BY DEF TypeOK
<1>1. CASE pc[u] = "insert" /\ UNCHANGED <<streams, built>>
  BY <1>1 DEF JudgementHolds, Holding, Fits
<1>2. ASSUME NEW t \in Writers, Invoke(t) PROVE Goal
  <2>1. pc[u] = "insert"
    BY <1>0, <1>2, CallFields DEF Invoke, EntryPoint
  <2>2. QED
    BY <1>1, <1>2, <2>1 DEF Invoke
<1>3. ASSUME NEW t \in Writers, Acquire(t) PROVE Goal
  BY <1>0, <1>1, <1>3 DEF Acquire
<1>4. ASSUME NEW t \in Writers, Build(t) PROVE Goal
  BY <1>0, <1>4 DEF Build, JudgementHolds, Holding, Fits
<1>5. ASSUME NEW t \in Writers, Lookup(t) PROVE Goal
  BY <1>0, <1>1, <1>5 DEF Lookup
<1>6. ASSUME NEW t \in Writers, Judge(t) PROVE Goal
  <2>1. CASE t = u
    <3>1. Holding(built[u].name) = {} /\ Fits(built[u])
      BY <1>0, <1>6, <2>1 DEF Judge, LocalsOK
    <3>2. QED
      BY <1>6, <3>1 DEF Judge, Holding, Fits
  <2>2. CASE t # u
    BY <1>0, <1>1, <1>6, <2>2 DEF Judge
  <2>3. QED
    BY <2>1, <2>2
<1>7. ASSUME NEW t \in Writers, Insert(t) \/ Pop(t) PROVE Goal
  <2>1. pc[t] \in Critical /\ pc'[t] = "release" /\ lock = t
    BY <1>0, <1>7 DEF Insert, Pop, LocalsOK, Critical
  <2>2. u # t /\ pc[u] = "insert"
    BY <1>0, <1>7, <2>1 DEF Insert, Pop
  <2>3. QED
    BY <2>1, <2>2 DEF LocalsOK, Critical
<1>8. ASSUME NEW t \in Writers, Release(t) PROVE Goal
  BY <1>0, <1>1, <1>8 DEF Release
<1>9. ASSUME NEW t \in Writers, Get(t) PROVE Goal
  BY <1>0, <1>1, <1>9 DEF Get
<1>10. ASSUME NEW t \in Writers, Return(t) PROVE Goal
  BY <1>0, <1>10 DEF Return, JudgementHolds, Holding, Fits
<1>11. ASSUME NEW t \in Readers, BeginScan(t) \/ Walk(t) PROVE Goal
  BY <1>1, <1>11, ReaderStep
<1>12. CASE UNCHANGED vars
  BY <1>1, <1>12 DEF vars
<1>13. QED
  BY <1>2, <1>3, <1>4, <1>5, <1>6, <1>7, <1>8, <1>9, <1>10, <1>11, <1>12
     DEF Next, Serve

\* Only Insert and Pop change the registry.
LEMMA RegistryChanges ==
  ASSUME TypeOK, [Next]_vars, streams' # streams
  PROVE  \E t \in Writers : Insert(t) \/ Pop(t)
<1>1. ASSUME NEW t \in Writers, Invoke(t) \/ Acquire(t) PROVE FALSE
  BY <1>1 DEF Invoke, Acquire
<1>2. ASSUME NEW t \in Writers,
             Build(t) \/ Lookup(t) \/ Judge(t) \/ Release(t) \/ Get(t) \/ Return(t)
      PROVE  FALSE
  BY <1>2 DEF Build, Lookup, Judge, Release, Get, Return
<1>3. ASSUME NEW t \in Readers, BeginScan(t) \/ Walk(t) PROVE FALSE
  BY <1>3, ReaderStep
<1>4. QED
  BY <1>1, <1>2, <1>3 DEF Next, Serve, vars

\* An insertion was judged against exactly the streams it joins, and a removal
\* only lowers a load.
LEMMA CeilingPreserved ==
  TypeOK /\ LocalsOK /\ JudgementHolds /\ NoOversubscription /\ [Next]_vars
    => NoOversubscription'
<1> SUFFICES ASSUME TypeOK, LocalsOK, JudgementHolds, NoOversubscription, [Next]_vars,
                    NEW l \in DOMAIN Links
             PROVE  Admit(OnLink(streams', l), l)
  BY DEF NoOversubscription
<1>0. Admit(OnLink(streams, l), l)
  BY DEF NoOversubscription
<1>1. ASSUME NEW t \in Writers, Insert(t) PROVE Admit(OnLink(streams', l), l)
  <2>1. pc[t] = "insert"
    BY <1>1 DEF Insert, Goto
  <2>2. Holding(built[t].name) = {} /\ Fits(built[t])
    BY <2>1 DEF JudgementHolds
  <2>3. streams' = streams \cup {built[t]}
    BY <1>1, <2>2 DEF Insert
  <2>4. CASE built[t].link = l
    <3>1. OnLink(streams', l) = OnLink(streams, l) \cup {built[t]}
      BY <2>3, <2>4 DEF OnLink
    <3>2. QED
      BY <2>2, <2>4, <3>1 DEF Fits
  <2>5. CASE built[t].link # l
    <3>1. OnLink(streams', l) = OnLink(streams, l)
      BY <2>3, <2>5 DEF OnLink
    <3>2. QED
      BY <1>0, <3>1
  <2>6. QED
    BY <2>4, <2>5
<1>2. ASSUME NEW t \in Writers, Pop(t) PROVE Admit(OnLink(streams', l), l)
  <2>1. streams' \in SUBSET streams
    BY <1>2 DEF Pop
  <2>2. OnLink(streams', l) \in SUBSET OnLink(streams, l)
    BY <2>1 DEF OnLink
  <2>3. IsFiniteSet(OnLink(streams, l))
    <3>1. OnLink(streams, l) \in SUBSET Streams
      BY DEF OnLink, TypeOK
    <3>2. QED
      BY <3>1, StreamsFinite, FS_Subset
  <2>4. QED
    BY <1>0, <2>2, <2>3, AdmitMonotone
<1>3. QED
  BY <1>0, <1>1, <1>2, RegistryChanges

-----------------------------------------------------------------------------
(* What holds in every behaviour.                                          *)

\* The registry invariant is inductive: whatever the handler threads do, the
\* links stay within their ceilings and the threads act on fresh judgements.
THEOREM RegistryCorrect == Spec => []RegistryInvariant
<1>1. Init => RegistryInvariant
  BY InitRegistry
<1>2. RegistryInvariant /\ [Next]_vars => RegistryInvariant'
  BY TypePreserved, LocalsPreserved, JudgementPreserved, CeilingPreserved
     DEF RegistryInvariant
<1>3. QED
  BY <1>1, <1>2, PTL DEF Spec

\* No interleaving of register and unregister puts more on a link than the
\* admission ceiling.
THEOREM NeverOversubscribed == Spec => []NoOversubscription
<1>1. RegistryInvariant => NoOversubscription
  BY DEF RegistryInvariant
<1>2. QED
  BY <1>1, RegistryCorrect, PTL

\* The registry and the threads' locals keep their types.
THEOREM TypeCorrect == Spec => []TypeOK
<1>1. RegistryInvariant => TypeOK
  BY DEF RegistryInvariant
<1>2. QED
  BY <1>1, RegistryCorrect, PTL

\* A registered stream is removed by unregister of its name and by nothing
\* else; register never replaces a stream.
THEOREM RemovedOnlyByName == Spec => LeavesOnlyByName
<1> DEFINE Step == \A s \in streams : s \notin streams' =>
                     \E t \in Writers : pc[t] = "pop" /\ call[t].name = s.name
<1>1. RegistryInvariant /\ [Next]_vars => [Step]_vars
  <2> SUFFICES ASSUME RegistryInvariant, [Next]_vars,
                      NEW s \in streams, s \notin streams'
               PROVE  \E t \in Writers : pc[t] = "pop" /\ call[t].name = s.name
    OBVIOUS
  <2>1. PICK t \in Writers : Insert(t) \/ Pop(t)
    BY RegistryChanges DEF RegistryInvariant
  <2>2. CASE Insert(t)
    <3>1. Holding(built[t].name) = {}
      BY <2>2 DEF Insert, Goto, RegistryInvariant, JudgementHolds
    <3>2. QED
      BY <2>2, <3>1 DEF Insert
  <2>3. CASE Pop(t)
    BY <2>3 DEF Pop, Goto, Holding
  <2>4. QED
    BY <2>1, <2>2, <2>3
<1>2. QED
  BY <1>1, RegistryCorrect, PTL DEF Spec, LeavesOnlyByName

-----------------------------------------------------------------------------
(* The promise of admission.                                               *)

\* A refusal for the ceiling is still deserved when the lock is given back.
RefusalHolds ==
  \A t \in Writers :
    pc[t] = "release" /\ reply[t] # NoReply /\ reply[t].verdict = "over_ceiling" =>
      ~Fits(built[t])

\* Between the judgement and the release nobody changes the link.
LEMMA RefusalPreserved ==
  RegistryInvariant /\ RefusalHolds /\ [Next]_vars => RefusalHolds'
<1> SUFFICES ASSUME RegistryInvariant, RefusalHolds, [Next]_vars,
                    NEW u \in Writers, pc'[u] = "release", reply'[u] # NoReply,
                    reply'[u].verdict = "over_ceiling"
             PROVE  ~Fits(built[u])'
  BY DEF RefusalHolds
<1> USE DEF Goto, SetReply, Threads
<1>0. /\ pc \in [Threads -> WriterPCs \cup ReaderPCs]
      /\ built \in [Writers -> Streams \cup {NoStream}]
      /\ reply \in [Writers -> Replies \cup {NoReply}]
  BY DEF RegistryInvariant, TypeOK
<1>1. CASE pc[u] = "release" /\ reply'[u] = reply[u] /\ UNCHANGED <<streams, built>>
  BY <1>1 DEF RefusalHolds, Fits
<1>2. ASSUME NEW t \in Writers, Invoke(t) PROVE ~Fits(built[u])'
  <2>1. pc[u] = "release"
    BY <1>0, <1>2, CallFields DEF Invoke, EntryPoint
  <2>2. QED
    BY <1>1, <1>2, <2>1 DEF Invoke
<1>3. ASSUME NEW t \in Writers, Acquire(t) \/ Release(t) PROVE ~Fits(built[u])'
  BY <1>0, <1>1, <1>3 DEF Acquire, Release
<1>4. ASSUME NEW t \in Writers, Build(t) \/ Return(t) \/ Get(t) PROVE ~Fits(built[u])'
  <2>1. pc[t] # "release" /\ pc'[t] # "release" /\ UNCHANGED streams
    BY <1>0, <1>4 DEF Build, Return, Get
  <2>2. t # u /\ pc'[u] = pc[u] /\ reply'[u] = reply[u] /\ built'[u] = built[u]
    BY <1>0, <1>4, <2>1 DEF Build, Return, Get
  <2>3. QED
    BY <2>1, <2>2 DEF RefusalHolds, Fits
<1>5. ASSUME NEW t \in Writers, Lookup(t) PROVE ~Fits(built[u])'
  BY <1>0, <1>1, <1>5 DEF Lookup
<1>6. ASSUME NEW t \in Writers, Judge(t) PROVE ~Fits(built[u])'
  <2>1. CASE t = u
    BY <1>0, <1>6, <2>1 DEF Judge, Fits
  <2>2. CASE t # u
    BY <1>0, <1>1, <1>6, <2>2 DEF Judge
  <2>3. QED
    BY <2>1, <2>2
<1>7. ASSUME NEW t \in Writers, Insert(t) \/ Pop(t) PROVE ~Fits(built[u])'
  <2>1. pc[t] \in Critical \ {"release"} /\ lock = t
    BY <1>0, <1>7 DEF Insert, Pop, RegistryInvariant, LocalsOK, Critical
  <2>2. CASE t = u
    BY <1>0, <1>7, <2>2 DEF Insert, Pop
  <2>3. CASE t # u
    <3>1. pc[u] = "release"
      BY <1>0, <1>7, <2>3 DEF Insert, Pop
    <3>2. QED
      BY <2>1, <2>3, <3>1 DEF RegistryInvariant, LocalsOK, Critical
  <2>4. QED
    BY <2>2, <2>3
<1>8. ASSUME NEW t \in Readers, BeginScan(t) \/ Walk(t) PROVE ~Fits(built[u])'
  BY <1>1, <1>8, ReaderStep DEF RegistryInvariant
<1>9. CASE UNCHANGED vars
  BY <1>1, <1>9 DEF vars
<1>10. QED
  BY <1>2, <1>3, <1>4, <1>5, <1>6, <1>7, <1>8, <1>9 DEF Next, Serve

\* A set that admission judged favourably leaves room for each of its streams
\* beside any of the others.
LEMMA PromisedFits ==
  ASSUME NEW p \in Promised, NEW s,
         s \in { Derived[b] : b \in p[1] }, s.link = p[2],
         OnLink(streams, p[2]) \subseteq { Derived[b] : b \in p[1] }
  PROVE  Fits(s)
<1> DEFINE judged == { Derived[b] : b \in p[1] }
<1>1. /\ p[1] \in SUBSET DOMAIN Derived /\ p[2] \in DOMAIN Links
      /\ Admit(judged, p[2])
  BY DEF Promised, Admission
<1>2. IsFiniteSet(judged)
  <2>1. judged \in SUBSET Streams
    BY <1>1 DEF Streams
  <2>2. QED
    BY <2>1, StreamsFinite, FS_Subset
<1>3. OnLink(streams, p[2]) \cup {s} \in SUBSET judged
  OBVIOUS
<1> HIDE DEF judged
<1>4. Admit(OnLink(streams, p[2]) \cup {s}, p[2])
  BY <1>1, <1>2, <1>3, AdmitMonotone
<1>5. QED
  BY <1>4 DEF Fits

\* The answer of admission is kept by register, whichever streams of the judged
\* set came before and whatever the other threads do meanwhile.
THEOREM PromiseKept == Spec => []AdmissionIsAPromise
<1>1. Init => RefusalHolds
  BY DEF Init, RefusalHolds, Threads
<1>2. RegistryInvariant /\ RefusalHolds /\ [Next]_vars => RefusalHolds'
  BY RefusalPreserved
<1>3. RefusalHolds => AdmissionIsAPromise
  BY PromisedFits DEF RefusalHolds, AdmissionIsAPromise
<1>4. QED
  BY <1>1, <1>2, <1>3, RegistryCorrect, PTL DEF Spec

-----------------------------------------------------------------------------
(* The service implements the ledger.                                      *)

\* The ledger judges a link the way the service does.
LEMMA SameJudgement ==
  ASSUME NEW S, NEW l PROVE Ledger!Admit(S, l) = Admit(S, l)
<1>1. \A s : Ledger!Charge(s) = Charge(s)
  BY DEF Ledger!Charge, Ledger!Copies, Ledger!Units, Charge, Copies, Units
<1>2. Ledger!Load(S) = Load(S)
  <2> DEFINE U == { u \in S \X (1 .. MaxUnits) : u[2] <= Charge(u[1]) }
  <2>1. { u \in S \X (1 .. MaxUnits) : u[2] <= Ledger!Charge(u[1]) } = U
    BY <1>1
  <2>2. Ledger!Cardinality(U) = Cardinality(U)
    BY DEF Ledger!Cardinality, Cardinality
  <2>3. QED
    BY <2>1, <2>2 DEF Ledger!Load, Load
<1>3. Ledger!Capacity(l) = Capacity(l)
  BY DEF Ledger!Capacity, Capacity
<1>4. QED
  BY <1>2, <1>3 DEF Ledger!Admit, Admit

\* The ledger takes the same calls.
LEMMA SameCalls == Ledger!Calls = Calls
BY DEF Ledger!Calls, Ledger!Names, Calls, Names

\* A call that has not been answered may be answered now.
LEMMA AnswerStep ==
  ASSUME TypeOK, LocalsOK, NEW t \in Writers, NEW v, NEW S,
         pc[t] \notin {"release", "return"}, SetReply(t, v, S), UNCHANGED call
  PROVE  Ledger!Answer(t, v, S)
<1>1. reply[t] = NoReply
  BY DEF LocalsOK
<1>2. QED
  BY <1>1 DEF SetReply, Ledger!Answer

\* A step of a writer is a step of the ledger, or leaves it alone: the call
\* takes effect where its reply is decided.
LEMMA WriterImplements ==
  ASSUME RegistryInvariant, NEW t \in Writers, Invoke(t) \/ Acquire(t) \/ Serve(t)
  PROVE  [Ledger!Next]_(Ledger!ledgerVars)
<1> DEFINE Step == \/ Ledger!Submit(t) \/ Ledger!Reject(t) \/ Ledger!Reserve(t)
                   \/ Ledger!Release(t) \/ Ledger!Inspect(t) \/ Ledger!Collect(t)
           Stutter == UNCHANGED <<streams, call, reply>>
<1>0. TypeOK /\ LocalsOK /\ JudgementHolds
  BY DEF RegistryInvariant
<1>a. SUFFICES Step \/ Stutter
  BY DEF Ledger!Next, Ledger!ledgerVars
<1>1. CASE Invoke(t)
  <2>1. call[t] = NoCall
    BY <1>0, <1>1 DEF Invoke, Goto, LocalsOK
  <2>2. Ledger!Submit(t)
    BY <1>1, <2>1, SameCalls DEF Invoke, Ledger!Submit
  <2>3. QED
    BY <2>2
<1>2. CASE Acquire(t) \/ Release(t)
  BY <1>2 DEF Acquire, Release
<1>3. CASE Build(t)
  <2>1. CASE call[t].body \in DOMAIN Derived
    BY <1>3, <2>1 DEF Build
  <2>2. CASE call[t].body \notin DOMAIN Derived
    <3>1. call[t] \in Calls /\ call[t].op = "register"
      BY <1>0, <1>3 DEF Build, Goto, LocalsOK
    <3>2. call[t].body \in DOMAIN Fault
      BY <2>2, <3>1, CallFields DEF Fault
    <3>3. Ledger!Answer(t, Fault[call[t].body], {})
      BY <1>0, <1>3, <2>2, AnswerStep DEF Build, Goto
    <3>4. Ledger!Reject(t)
      BY <1>3, <3>1, <3>2, <3>3, SameCalls DEF Build, Ledger!Reject
    <3>5. QED
      BY <3>4
  <2>3. QED
    BY <2>1, <2>2
<1>4. ASSUME pc[t] \in {"lookup", "judge", "insert"}
      PROVE  /\ call[t] \in Ledger!Calls /\ call[t].op = "register"
             /\ call[t].body \in DOMAIN Derived
             /\ built[t] = Derived[call[t].body]
  BY <1>0, <1>4, SameCalls DEF LocalsOK, Carries
<1>5. Ledger!Admit(Ledger!OnLink(streams, built[t].link) \cup {built[t]}, built[t].link)
        = Fits(built[t])
  BY SameJudgement DEF Fits, Ledger!OnLink, OnLink
<1>6. Ledger!Held(built[t].name) <=> Holding(built[t].name) # {}
  BY DEF Ledger!Held, Ledger!HolderOf, Holding
<1>7. CASE Lookup(t)
  <2>1. CASE Holding(built[t].name) = {}
    BY <1>7, <2>1 DEF Lookup
  <2>2. CASE Holding(built[t].name) # {}
    <3>1. Ledger!Answer(t, "duplicate", {})
      BY <1>0, <1>7, <2>2, AnswerStep DEF Lookup, Goto
    <3>2. Ledger!Reserve(t)
      BY <1>4, <1>6, <1>7, <2>2, <3>1 DEF Lookup, Goto, Ledger!Reserve
    <3>3. QED
      BY <3>2
  <2>3. QED
    BY <2>1, <2>2
<1>8. CASE Judge(t)
  <2>1. CASE Fits(built[t])
    BY <1>8, <2>1 DEF Judge
  <2>2. CASE ~Fits(built[t])
    <3>1. Ledger!Answer(t, "over_ceiling", {})
      BY <1>0, <1>8, <2>2, AnswerStep DEF Judge, Goto
    <3>2. Holding(built[t].name) = {}
      BY <1>0, <1>8 DEF Judge, Goto, LocalsOK
    <3>3. Ledger!Reserve(t)
      BY <1>4, <1>5, <1>6, <1>8, <2>2, <3>1, <3>2 DEF Judge, Goto, Ledger!Reserve
    <3>4. QED
      BY <3>3
  <2>3. QED
    BY <2>1, <2>2
<1>9. CASE Insert(t)
  <2>1. Holding(built[t].name) = {} /\ Fits(built[t])
    BY <1>0, <1>9 DEF Insert, Goto, JudgementHolds
  <2>2. Ledger!Answer(t, "registered", {built[t]})
    BY <1>0, <1>9, AnswerStep DEF Insert, Goto
  <2>3. streams' = streams \cup {built[t]}
    BY <1>9, <2>1 DEF Insert
  <2>4. Ledger!Reserve(t)
    BY <1>4, <1>5, <1>6, <1>9, <2>1, <2>2, <2>3 DEF Insert, Goto, Ledger!Reserve
  <2>5. QED
    BY <2>4
<1>10. ASSUME pc[t] \in {"pop", "get"}
       PROVE  call[t] \in Ledger!Calls
  BY <1>0, <1>10, SameCalls DEF LocalsOK
<1>11. CASE Pop(t)
  <2> DEFINE gone == Holding(call[t].name)
  <2>1. pc[t] = "pop" /\ call[t].op = "unregister"
    BY <1>0, <1>11 DEF Pop, Goto, LocalsOK
  <2>2. Ledger!Answer(t, IF gone # {} THEN "removed" ELSE "absent", {})
    BY <1>0, <1>11, <2>1, AnswerStep DEF Pop
  <2>3. streams' = { s \in streams : s.name # call[t].name }
    BY <1>11 DEF Pop, Holding
  <2>4. Ledger!Held(call[t].name) <=> gone # {}
    BY DEF Ledger!Held, Ledger!HolderOf, Holding
  <2>5. Ledger!Release(t)
    BY <1>10, <2>1, <2>2, <2>3, <2>4 DEF Ledger!Release
  <2>6. QED
    BY <2>5
<1>12. CASE Get(t)
  <2> DEFINE found == Holding(call[t].name)
  <2>1. pc[t] = "get" /\ call[t].op = "get"
    BY <1>0, <1>12 DEF Get, Goto, LocalsOK
  <2>2. Ledger!Answer(t, IF found # {} THEN "found" ELSE "not_found", found)
    BY <1>0, <1>12, <2>1, AnswerStep DEF Get
  <2>3. found = Ledger!HolderOf(call[t].name) /\ (Ledger!Held(call[t].name) <=> found # {})
    BY DEF Ledger!Held, Ledger!HolderOf, Holding
  <2>4. Ledger!Inspect(t)
    BY <1>10, <1>12, <2>1, <2>2, <2>3 DEF Get, Ledger!Inspect
  <2>5. QED
    BY <2>4
<1>13. CASE Return(t)
  <2>1. reply[t] # NoReply
    BY <1>0, <1>13 DEF Return, Goto, LocalsOK
  <2>2. Ledger!Collect(t)
    BY <1>13, <2>1 DEF Return, Ledger!Collect
  <2>3. QED
    BY <2>2
<1>14. QED
  BY <1>1, <1>2, <1>3, <1>7, <1>8, <1>9, <1>11, <1>12, <1>13 DEF Serve

\* Every call of the stream API takes effect at one instant, inside the with
\* block, and is answered as a ledger of reservations would answer it.
THEOREM ImplementsLedger == Spec => LedgerSpec
<1>1. Init => Ledger!Init
  BY DEF Init, Ledger!Init
<1>2. RegistryInvariant /\ [Next]_vars => [Ledger!Next]_(Ledger!ledgerVars)
  <2> SUFFICES ASSUME RegistryInvariant, [Next]_vars
               PROVE  [Ledger!Next]_(Ledger!ledgerVars)
    OBVIOUS
  <2>1. ASSUME NEW t \in Readers, BeginScan(t) \/ Walk(t)
        PROVE  [Ledger!Next]_(Ledger!ledgerVars)
    BY <2>1, ReaderStep DEF RegistryInvariant, Ledger!ledgerVars
  <2>2. CASE UNCHANGED vars
    BY <2>2 DEF vars, Ledger!ledgerVars
  <2>3. QED
    BY <2>1, <2>2, WriterImplements DEF Next
<1>3. QED
  BY <1>1, <1>2, RegistryCorrect, PTL DEF Spec, LedgerSpec, Ledger!Spec

-----------------------------------------------------------------------------
(* Scans: what a reader without the lock has seen of a dict that changes   *)
(* under it.                                                               *)

\* The entry table lists the registry, each stream once, and holes.
TableListsRegistry ==
  /\ entries \in Seq(Streams \cup {Hole})
  /\ \A i \in DOMAIN entries : entries[i] # Hole => entries[i] \in streams
  /\ \A s \in streams : \E i \in DOMAIN entries : entries[i] = s
  /\ \A i, j \in DOMAIN entries : entries[i] = entries[j] /\ entries[i] # Hole => i = j

\* What a scan has of the table it walks.  A stream that stayed registered
\* since the scan began is seen at most once, because where it was seen is
\* behind the scan's position; and as long as the table is not rebuilt,
\* nothing behind that position is unseen.
Consistent(s) ==
  /\ s \in Scans
  /\ s.stable \subseteq streams
  /\ Len(s.seen) <= s.size
  /\ \A k \in DOMAIN s.seen :
       s.seen[k] \in s.stable =>
         /\ \E i \in DOMAIN entries : i <= s.pos /\ entries[i] = s.seen[k]
         /\ \A m \in DOMAIN s.seen : s.seen[m] = s.seen[k] => m = k
  /\ ~s.rebuilt =>
       /\ s.pos <= Len(entries)
       /\ \A i \in DOMAIN entries :
            i <= s.pos /\ entries[i] # Hole => \E k \in DOMAIN s.seen : s.seen[k] = entries[i]

\* The inductive invariant behind the theorems about scans.
ScanInvariant ==
  /\ TableListsRegistry
  /\ scan \in [Readers -> Scans \cup {NoScan}]
  /\ \A r \in Readers : /\ pc[r] \in {"scan", "listed"} => scan[r] # NoScan
                        /\ scan[r] # NoScan => Consistent(scan[r])

-----------------------------------------------------------------------------
(* Rebuilding the table.                                                   *)

\* Packed takes the entries one by one.
LEMMA PackedSteps ==
  ASSUME entries \in Seq(Streams \cup {Hole})
  PROVE  /\ Packed[0] = << >>
         /\ \A k \in 1 .. Len(entries) :
              Packed[k] = IF entries[k] = Hole THEN Packed[k - 1]
                          ELSE Append(Packed[k - 1], entries[k])
<1> DEFINE X == Seq(Streams \cup {Hole})
           Body(g) == [n \in 0 .. Len(entries) |->
                         IF n = 0 THEN << >>
                         ELSE IF entries[n] = Hole THEN g[n - 1] ELSE Append(g[n - 1], entries[n])]
           step == [k \in 1 .. Len(entries) |->
                      [x \in X |-> IF entries[k] = Hole THEN x ELSE Append(x, entries[k])]]
<1>1. PICK n \in Nat : n = Len(entries) /\ \A k \in 1 .. n : entries[k] \in Streams \cup {Hole}
  OBVIOUS
<1>2. ASSUME NEW k \in 1 .. n, NEW x \in X
      PROVE  /\ step[k][x] = IF entries[k] = Hole THEN x ELSE Append(x, entries[k])
             /\ step[k][x] \in X
  BY <1>1
<1>3. PICK g \in [0 .. n -> X] : g[0] = << >> /\ \A k \in 1 .. n : g[k] = step[k][g[k - 1]]
  <2>1. << >> \in X
    OBVIOUS
  <2>2. \A k \in 1 .. n, x \in X : step[k][x] \in X
    <3> HIDE DEF X, step
    <3> QED BY <1>2
  <2>3. Stepping(X, << >>, n, step)
    <3> HIDE DEF X, step
    <3> QED BY <2>1, <2>2 DEF Stepping
  <2>4. \E g \in [0 .. n -> X] : Stepped(g, << >>, n, step)
    <3> HIDE DEF X, step
    <3> QED BY <2>3, StepsExist
  <2> HIDE DEF X, step
  <2> QED BY <2>4 DEF Stepped
<1>4. g = Body(g)
  <2>1. ASSUME NEW k \in 0 .. n PROVE g[k] = Body(g)[k]
    <3>1. CASE k = 0
      BY <1>1, <1>3, <3>1
    <3>2. CASE k # 0
      <4>1. k \in 1 .. n /\ k - 1 \in 0 .. n /\ g[k - 1] \in X
        BY <3>2, <1>3
      <4>2. g[k] = IF entries[k] = Hole THEN g[k - 1] ELSE Append(g[k - 1], entries[k])
        <5> HIDE DEF X, step
        <5> QED BY <1>2, <1>3, <4>1
      <4>3. Body(g)[k] = IF entries[k] = Hole THEN g[k - 1] ELSE Append(g[k - 1], entries[k])
        BY <1>1, <3>2
      <4> HIDE DEF Body
      <4> QED BY <4>2, <4>3
    <3>3. QED
      BY <3>1, <3>2
  <2>2. g = [k \in 0 .. n |-> g[k]] /\ Body(g) = [k \in 0 .. n |-> Body(g)[k]]
    BY <1>1, <1>3
  <2> HIDE DEF Body, X
  <2> QED BY <2>1, <2>2
<1>5. Packed = CHOOSE h : h = Body(h)
  BY DEF Packed
<1>6. Packed = Body(Packed)
  <2> HIDE DEF Body
  <2> QED BY <1>4, <1>5
<1>7. Body(Packed)[0] = << >>
  BY <1>1
<1>8. ASSUME NEW k \in 1 .. n
      PROVE  Body(Packed)[k] = IF entries[k] = Hole THEN Packed[k - 1]
                               ELSE Append(Packed[k - 1], entries[k])
  BY <1>1
<1>9. QED
  <2> HIDE DEF Body
  <2> QED BY <1>1, <1>6, <1>7, <1>8

\* p lists what is not a hole among the first n entries, each once and no
\* further down the table than before.
Packs(p, n) ==
  /\ p \in Seq(Streams)
  /\ \A i \in 1 .. n : entries[i] # Hole => \E j \in DOMAIN p : j <= i /\ p[j] = entries[i]
  /\ \A j \in DOMAIN p : \E i \in 1 .. n : entries[i] # Hole /\ p[j] = entries[i]
  /\ \A i, j \in DOMAIN p : p[i] = p[j] => i = j
  /\ Len(p) <= n

\* A rebuild keeps every stream, drops the holes, and moves nothing further
\* from the start.
LEMMA PackedKeeps ==
  ASSUME TableListsRegistry
  PROVE  Packs(Packed[Len(entries)], Len(entries))
<1>1. PICK n \in Nat : n = Len(entries) /\ \A k \in 1 .. n : entries[k] \in Streams \cup {Hole}
  BY DEF TableListsRegistry
<1> DEFINE G == { k \in Nat : k <= n => Packs(Packed[k], k) }
<1>2. 0 \in G
  <2>1. PICK p : p = << >>
    OBVIOUS
  <2>2. p \in Seq(Streams) /\ DOMAIN p = {} /\ Len(p) = 0
    BY <2>1
  <2>3. Packs(p, 0)
    BY <2>2 DEF Packs
  <2>4. Packed[0] = p
    BY <2>1, PackedSteps DEF TableListsRegistry
  <2>5. QED
    BY <2>3, <2>4
<1>3. ASSUME NEW k \in Nat, k \in G PROVE k + 1 \in G
  <2> SUFFICES ASSUME k + 1 <= n PROVE Packs(Packed[k + 1], k + 1)
    OBVIOUS
  <2>1. PICK p : p = Packed[k] /\ Packs(p, k)
    BY <1>3
  <2>2. PICK e : e = entries[k + 1] /\ e \in Streams \cup {Hole}
    BY <1>1
  <2>3. Packed[k + 1] = IF e = Hole THEN p ELSE Append(p, e)
    <3>1. k + 1 \in 1 .. Len(entries) /\ (k + 1) - 1 = k
      BY <1>1
    <3>2. QED
      BY <2>1, <2>2, <3>1, PackedSteps DEF TableListsRegistry
  <2>4. CASE e = Hole
    <3>1. ASSUME NEW i \in 1 .. k + 1, entries[i] # Hole PROVE i \in 1 .. k
      <4>1. i # k + 1
        BY <2>2, <2>4, <3>1
      <4>2. QED
        BY <4>1
    <3>2. /\ p \in Seq(Streams) /\ Len(p) <= k
          /\ \A i \in 1 .. k : entries[i] # Hole => \E j \in DOMAIN p : j <= i /\ p[j] = entries[i]
          /\ \A j \in DOMAIN p : \E i \in 1 .. k : entries[i] # Hole /\ p[j] = entries[i]
          /\ \A i, j \in DOMAIN p : p[i] = p[j] => i = j
      BY <2>1 DEF Packs
    <3>3. \A i \in 1 .. k : i \in 1 .. k + 1
      OBVIOUS
    <3>4. Len(p) <= k + 1
      BY <3>2
    <3>5. Packs(p, k + 1)
      BY <3>1, <3>2, <3>3, <3>4 DEF Packs
    <3>6. QED
      BY <2>3, <2>4, <3>5
  <2>5. CASE e # Hole
    <3>1. PICK new : new = Append(p, e)
      OBVIOUS
    <3>2. /\ p \in Seq(Streams) /\ e \in Streams /\ Len(p) <= k
          /\ new \in Seq(Streams) /\ Len(new) = Len(p) + 1 /\ new[Len(p) + 1] = e
          /\ \A j \in DOMAIN p : j \in DOMAIN new /\ new[j] = p[j]
          /\ DOMAIN new = DOMAIN p \cup {Len(p) + 1}
      BY <2>1, <2>2, <2>5, <3>1 DEF Packs
    <3>3. ASSUME NEW i \in 1 .. k + 1, entries[i] # Hole
          PROVE  \E j \in DOMAIN new : j <= i /\ new[j] = entries[i]
      <4>1. CASE i = k + 1
        BY <2>2, <3>2, <4>1
      <4>2. CASE i \in 1 .. k
        BY <2>1, <3>2, <3>3, <4>2 DEF Packs
      <4>3. QED
        BY <4>1, <4>2
    <3>4. ASSUME NEW j \in DOMAIN new
          PROVE  \E i \in 1 .. k + 1 : entries[i] # Hole /\ new[j] = entries[i]
      <4>1. CASE j \in DOMAIN p
        BY <2>1, <3>2, <4>1 DEF Packs
      <4>2. CASE j = Len(p) + 1
        BY <2>2, <2>5, <3>2, <4>2
      <4>3. QED
        BY <3>2, <4>1, <4>2
    <3>5. ASSUME NEW j \in DOMAIN p PROVE p[j] # e
      <4>1. PICK i \in 1 .. k : entries[i] # Hole /\ p[j] = entries[i]
        BY <2>1 DEF Packs
      <4>2. i \in DOMAIN entries /\ k + 1 \in DOMAIN entries
        BY <1>1 DEF TableListsRegistry
      <4>3. QED
        BY <2>2, <4>1, <4>2 DEF TableListsRegistry
    <3>6. \A i, j \in DOMAIN new : new[i] = new[j] => i = j
      <4>1. \A i, j \in DOMAIN p : p[i] = p[j] => i = j
        BY <2>1 DEF Packs
      <4>2. QED
        BY <3>2, <3>5, <4>1
    <3>7. Packs(new, k + 1)
      BY <3>2, <3>3, <3>4, <3>6 DEF Packs
    <3>8. QED
      BY <2>3, <2>5, <3>1, <3>7
  <2>6. QED
    BY <2>4, <2>5
<1>4. n \in G
  <2> HIDE DEF G
  <2> QED BY <1>2, <1>3, NumberInduction
<1>5. QED
  BY <1>1, <1>4

-----------------------------------------------------------------------------
(* The table.                                                              *)

\* Only Insert and Pop change the dict.
LEMMA TableChanges ==
  ASSUME TypeOK, [Next]_vars
  PROVE  \/ UNCHANGED <<streams, entries>>
         \/ \E t \in Writers : Insert(t) \/ Pop(t)
<1>1. ASSUME NEW t \in Writers, Invoke(t) \/ Acquire(t) PROVE UNCHANGED <<streams, entries>>
  BY <1>1 DEF Invoke, Acquire
<1>2. ASSUME NEW t \in Writers,
             Build(t) \/ Lookup(t) \/ Judge(t) \/ Release(t) \/ Get(t) \/ Return(t)
      PROVE  UNCHANGED <<streams, entries>>
  BY <1>2 DEF Build, Lookup, Judge, Release, Get, Return
<1>3. ASSUME NEW t \in Readers, BeginScan(t) \/ Walk(t) PROVE UNCHANGED <<streams, entries>>
  BY <1>3, ReaderStep
<1>4. QED
  BY <1>1, <1>2, <1>3 DEF Next, Serve, vars

\* The table an insertion appends to.
Base == IF NeedsRebuild THEN Packed[Len(entries)] ELSE entries

\* register puts a stream whose name is free at the end of the table, which it
\* may have rebuilt.
LEMMA InsertAppends ==
  ASSUME RegistryInvariant, NEW t \in Writers, Insert(t)
  PROVE  /\ built[t] \in Streams /\ built[t] \notin streams
         /\ Holding(built[t].name) = {}
         /\ streams' = streams \cup {built[t]}
         /\ entries' = Append(Base, built[t])
<1>1. Holding(built[t].name) = {}
  BY DEF RegistryInvariant, JudgementHolds, Insert, Goto
<1>2. built[t] \in Streams
  BY CarriedStream DEF RegistryInvariant, LocalsOK, Insert, Goto
<1>3. QED
  BY <1>1, <1>2 DEF Insert, Holding, WithEntry, Base

\* Whether rebuilt or not, it lists the registry and moves nothing back.
LEMMA BaseFacts ==
  ASSUME TableListsRegistry
  PROVE  /\ Base \in Seq(Streams \cup {Hole})
         /\ \A i \in DOMAIN Base : Base[i] # Hole => Base[i] \in streams
         /\ \A i \in DOMAIN entries : entries[i] # Hole =>
              \E j \in DOMAIN Base : j <= i /\ Base[j] = entries[i]
         /\ \A i, j \in DOMAIN Base : Base[i] = Base[j] /\ Base[i] # Hole => i = j
<1>1. CASE NeedsRebuild
  <2>1. PICK p : p = Base /\ Packs(p, Len(entries))
    BY <1>1, PackedKeeps DEF Base
  <2>2. DOMAIN entries = 1 .. Len(entries)
    BY DEF TableListsRegistry
  <2>3. p \in Seq(Streams)
    BY <2>1 DEF Packs
  <2>4. p \in Seq(Streams \cup {Hole})
    BY <2>3
  <2>5. ASSUME NEW i \in DOMAIN p PROVE p[i] \in streams
    <3>1. PICK j \in 1 .. Len(entries) : entries[j] # Hole /\ p[i] = entries[j]
      BY <2>1 DEF Packs
    <3>2. QED
      BY <2>2, <3>1 DEF TableListsRegistry
  <2>6. QED
    BY <2>1, <2>2, <2>4, <2>5 DEF Packs
<1>2. CASE ~NeedsRebuild
  <2>1. Base = entries
    BY <1>2 DEF Base
  <2>2. \A i \in DOMAIN entries : i \in Nat /\ i <= i
    BY DEF TableListsRegistry
  <2>3. QED
    BY <2>1, <2>2 DEF TableListsRegistry
<1>3. QED
  BY <1>1, <1>2

\* unregister leaves a hole in the place of the stream.
LEMMA PopLeavesHole ==
  ASSUME TableListsRegistry, NEW t \in Writers, Pop(t)
  PROVE  /\ streams' = streams \ Holding(call[t].name)
         /\ entries' \in Seq(Streams \cup {Hole}) /\ DOMAIN entries' = DOMAIN entries
         /\ Len(entries') = Len(entries)
         /\ \A i \in DOMAIN entries :
              entries'[i] = IF entries[i] \in Holding(call[t].name) THEN Hole ELSE entries[i]
<1>1. PICK gone : gone = Holding(call[t].name)
  OBVIOUS
<1>2. PICK table : table = Overwritten(entries, gone, Hole)
  OBVIOUS
<1>3. entries' = table /\ streams' = streams \ gone
  BY <1>1, <1>2 DEF Pop
<1>4. PICK n \in Nat : n = Len(entries) /\ DOMAIN entries = 1 .. n
  BY DEF TableListsRegistry
<1>5. table = [i \in 1 .. n |-> IF entries[i] \in gone THEN Hole ELSE entries[i]]
  BY <1>2, <1>4 DEF Overwritten
<1>6. \A i \in 1 .. n : entries[i] \in Streams \cup {Hole}
  BY <1>4 DEF TableListsRegistry
<1>7. table \in Seq(Streams \cup {Hole}) /\ Len(table) = n /\ DOMAIN table = 1 .. n
  BY <1>5, <1>6
<1>8. QED
  BY <1>1, <1>3, <1>4, <1>5, <1>7

\* The table goes on listing the registry.
LEMMA TablePreserved ==
  ASSUME RegistryInvariant, TableListsRegistry, [Next]_vars
  PROVE  TableListsRegistry'
<1>1. CASE UNCHANGED <<streams, entries>>
  BY <1>1 DEF TableListsRegistry
<1>2. ASSUME NEW t \in Writers, Insert(t) PROVE TableListsRegistry'
  <2>1. PICK s, base : s = built[t] /\ base = Base
    OBVIOUS
  <2>2. /\ s \in Streams /\ s \notin streams /\ s # Hole
        /\ streams' = streams \cup {s} /\ entries' = Append(base, s)
    BY <1>2, <2>1, InsertAppends, ThreadsAssumption, ScansAssumption
  <2>3. /\ base \in Seq(Streams \cup {Hole})
        /\ \A i \in DOMAIN base : base[i] # Hole => base[i] \in streams
        /\ \A i, j \in DOMAIN base : base[i] = base[j] /\ base[i] # Hole => i = j
    BY <2>1, BaseFacts
  <2>4. ASSUME NEW x \in streams PROVE \E i \in DOMAIN base : base[i] = x
    <3>1. PICK i \in DOMAIN entries : entries[i] = x
      BY DEF TableListsRegistry
    <3>2. x # Hole
      BY ThreadsAssumption, ScansAssumption DEF RegistryInvariant, TypeOK
    <3>3. QED
      BY <2>1, <3>1, <3>2, BaseFacts
  <2>5. PICK table : table = Append(base, s)
    OBVIOUS
  <2>6. /\ table \in Seq(Streams \cup {Hole})
        /\ DOMAIN table = DOMAIN base \cup {Len(base) + 1} /\ table[Len(base) + 1] = s
        /\ \A i \in DOMAIN base : table[i] = base[i]
    BY <2>2, <2>3, <2>5
  <2>7. \A i \in DOMAIN table : table[i] # Hole => table[i] \in streams \cup {s}
    BY <2>3, <2>6
  <2>8. \A x \in streams \cup {s} : \E i \in DOMAIN table : table[i] = x
    BY <2>4, <2>6
  <2>9. \A i, j \in DOMAIN table : table[i] = table[j] /\ table[i] # Hole => i = j
    BY <2>2, <2>3, <2>6
  <2>10. QED
    BY <2>2, <2>5, <2>6, <2>7, <2>8, <2>9 DEF TableListsRegistry
<1>3. ASSUME NEW t \in Writers, Pop(t) PROVE TableListsRegistry'
  <2>1. PICK table, gone : table = entries' /\ gone = Holding(call[t].name)
    OBVIOUS
  <2>2. /\ streams' = streams \ gone
        /\ table \in Seq(Streams \cup {Hole}) /\ DOMAIN table = DOMAIN entries
        /\ \A i \in DOMAIN entries :
              table[i] = IF entries[i] \in gone THEN Hole ELSE entries[i]
    BY <1>3, <2>1, PopLeavesHole
  <2>3. \A i \in DOMAIN table : table[i] # Hole => table[i] \in streams \ gone
    BY <2>2 DEF TableListsRegistry
  <2>4. \A x \in streams \ gone : \E i \in DOMAIN table : table[i] = x
    BY <2>2 DEF TableListsRegistry
  <2>5. \A i, j \in DOMAIN table : table[i] = table[j] /\ table[i] # Hole => i = j
    BY <2>2 DEF TableListsRegistry
  <2>6. QED
    BY <2>1, <2>2, <2>3, <2>4, <2>5 DEF TableListsRegistry
<1>4. QED
  BY <1>1, <1>2, <1>3, TableChanges DEF RegistryInvariant

-----------------------------------------------------------------------------
(* A scan and the writers.                                                 *)

\* What an insertion does to a scan's record.
LEMMA InsertKeepsScan ==
  ASSUME RegistryInvariant, TableListsRegistry, NEW t \in Writers, Insert(t),
         NEW s, Consistent(s), NEW new \in Scans,
         new.size = s.size, new.pos = s.pos, new.seen = s.seen, new.stable = s.stable,
         new.rebuilt = (s.rebuilt \/ NeedsRebuild)
  PROVE  Consistent(new)'
<1>1. PICK x, base, table : x = built[t] /\ base = Base /\ table = Append(base, x)
  OBVIOUS
<1>2. x \in Streams /\ streams' = streams \cup {x} /\ entries' = table
  BY <1>1, InsertAppends
<1>3. /\ base \in Seq(Streams \cup {Hole})
      /\ \A i \in DOMAIN entries : entries[i] # Hole =>
           \E j \in DOMAIN base : j <= i /\ base[j] = entries[i]
  BY <1>1, BaseFacts
<1>4. /\ DOMAIN table = DOMAIN base \cup {Len(base) + 1} /\ Len(table) = Len(base) + 1
      /\ Len(base) \in Nat /\ DOMAIN base = 1 .. Len(base)
      /\ \A i \in DOMAIN base : table[i] = base[i]
  BY <1>1, <1>2, <1>3
<1>5. s \in Scans /\ s.pos \in Nat /\ s.seen \in Seq(Streams) /\ s.stable \subseteq streams
  BY DEF Consistent, Scans
<1>6. ASSUME NEW k \in DOMAIN s.seen, s.seen[k] \in s.stable
      PROVE  \E i \in DOMAIN table : i <= s.pos /\ table[i] = s.seen[k]
  <2>1. PICK i \in DOMAIN entries : i <= s.pos /\ entries[i] = s.seen[k]
    BY <1>6 DEF Consistent
  <2>2. entries[i] # Hole /\ i \in Nat
    BY <1>5, <2>1, ThreadsAssumption, ScansAssumption DEF TableListsRegistry
  <2>3. PICK j \in DOMAIN base : j <= i /\ base[j] = entries[i]
    BY <1>3, <2>2
  <2>4. j \in DOMAIN table /\ table[j] = s.seen[k] /\ j <= s.pos
    BY <1>4, <1>5, <2>1, <2>2, <2>3
  <2>5. QED
    BY <2>4
<1>7. ASSUME ~new.rebuilt
      PROVE  /\ s.pos <= Len(table)
             /\ \A i \in DOMAIN table :
                  i <= s.pos /\ table[i] # Hole => \E k \in DOMAIN s.seen : s.seen[k] = table[i]
  <2>1. base = entries /\ ~s.rebuilt
    BY <1>1, <1>7 DEF Base
  <2>2. /\ s.pos <= Len(base)
        /\ \A i \in DOMAIN base :
             i <= s.pos /\ base[i] # Hole => \E k \in DOMAIN s.seen : s.seen[k] = base[i]
    BY <2>1 DEF Consistent
  <2>3. \A i \in DOMAIN table : i <= s.pos => i \in DOMAIN base
    BY <1>4, <1>5, <2>2
  <2>4. QED
    BY <1>4, <1>5, <2>2, <2>3
<1>8. /\ Len(s.seen) <= s.size
      /\ \A k, m \in DOMAIN s.seen : s.seen[k] \in s.stable /\ s.seen[m] = s.seen[k] => m = k
  BY DEF Consistent
<1>9. QED
  BY <1>2, <1>5, <1>6, <1>7, <1>8 DEF Consistent

\* What a removal does to it.
LEMMA PopKeepsScan ==
  ASSUME RegistryInvariant, TableListsRegistry, NEW t \in Writers, Pop(t),
         NEW s, Consistent(s), NEW new \in Scans,
         new.size = s.size, new.pos = s.pos, new.seen = s.seen,
         new.stable = s.stable \ Holding(call[t].name), new.rebuilt = s.rebuilt
  PROVE  Consistent(new)'
<1>1. PICK gone, table : gone = Holding(call[t].name) /\ table = entries'
  OBVIOUS
<1>2. /\ streams' = streams \ gone /\ DOMAIN table = DOMAIN entries /\ Len(table) = Len(entries)
      /\ \A i \in DOMAIN entries : table[i] = IF entries[i] \in gone THEN Hole ELSE entries[i]
  BY <1>1, PopLeavesHole
<1>3. s \in Scans /\ s.stable \subseteq streams
  BY DEF Consistent
<1>4. ASSUME NEW k \in DOMAIN s.seen, s.seen[k] \in s.stable \ gone
      PROVE  \E i \in DOMAIN table : i <= s.pos /\ table[i] = s.seen[k]
  <2>1. PICK i \in DOMAIN entries : i <= s.pos /\ entries[i] = s.seen[k]
    BY <1>4 DEF Consistent
  <2>2. QED
    BY <1>2, <1>4, <2>1
<1>5. ASSUME ~s.rebuilt
      PROVE  /\ s.pos <= Len(table)
             /\ \A i \in DOMAIN table :
                  i <= s.pos /\ table[i] # Hole => \E k \in DOMAIN s.seen : s.seen[k] = table[i]
  <2>1. /\ s.pos <= Len(entries)
        /\ \A i \in DOMAIN entries :
             i <= s.pos /\ entries[i] # Hole => \E k \in DOMAIN s.seen : s.seen[k] = entries[i]
    BY <1>5 DEF Consistent
  <2>2. QED
    BY <1>2, <2>1
<1>6. /\ Len(s.seen) <= s.size
      /\ \A k, m \in DOMAIN s.seen : s.seen[k] \in s.stable /\ s.seen[m] = s.seen[k] => m = k
  BY DEF Consistent
<1>7. QED
  BY <1>1, <1>2, <1>3, <1>4, <1>5, <1>6 DEF Consistent

-----------------------------------------------------------------------------
(* The steps of a scan.                                                    *)

\* A scan begins with all before it and nothing seen.
LEMMA BeginKeepsScan ==
  ASSUME RegistryInvariant, TableListsRegistry,
         NEW s, s = [ size |-> Cardinality(streams), pos |-> 0,
                      seen |-> << >>, stable |-> streams, rebuilt |-> FALSE ]
  PROVE  Consistent(s)
<1>1. IsFiniteSet(streams) /\ streams \in SUBSET Streams
  BY StreamsFinite, FS_Subset DEF RegistryInvariant, TypeOK
<1>2. PICK n \in Nat : n = Cardinality(streams)
  BY <1>1, FS_CardinalityType
<1>3. PICK none \in Seq(Streams) : none = << >> /\ DOMAIN none = {} /\ Len(none) = 0
  <2>1. PICK none : none = << >>
    OBVIOUS
  <2>2. none \in Seq(Streams) /\ DOMAIN none = {} /\ Len(none) = 0
    BY <2>1
  <2>3. QED
    BY <2>1, <2>2
<1>4. /\ s.size = n /\ s.pos = 0 /\ s.seen = none /\ s.stable = streams /\ s.rebuilt = FALSE
      /\ s = [size |-> n, pos |-> 0, seen |-> none, stable |-> streams, rebuilt |-> FALSE]
  BY <1>2, <1>3
<1>5. s \in Scans
  BY <1>1, <1>2, <1>4 DEF Scans
<1>6. 0 <= Len(entries) /\ \A i \in DOMAIN entries : ~(i <= 0)
  BY DEF TableListsRegistry
<1>7. QED
  BY <1>3, <1>4, <1>5, <1>6 DEF Consistent

\* The next live entry, before which there are only holes.
LEMMA FirstAhead ==
  ASSUME TableListsRegistry, NEW t \in Readers, scan[t] \in Scans, Ahead(t) # {}
  PROVE  /\ First(Ahead(t)) \in DOMAIN entries /\ First(Ahead(t)) > scan[t].pos
         /\ entries[First(Ahead(t))] # Hole
         /\ \A i \in DOMAIN entries :
              i > scan[t].pos /\ i < First(Ahead(t)) => entries[i] = Hole
<1>1. PICK A : A = Ahead(t)
  OBVIOUS
<1>2. A \subseteq Nat /\ A # {}
  BY <1>1 DEF Ahead, TableListsRegistry
<1>3. PICK x \in A : \A y \in A : x <= y
  BY <1>2, LeastNatural
<1>4. First(A) \in A /\ \A y \in A : First(A) <= y
  BY <1>3 DEF First
<1>5. \A i \in DOMAIN entries : i \in Nat
  BY DEF TableListsRegistry
<1>6. PICK i \in Nat : i = First(A)
  BY <1>2, <1>4
<1>7. i \in DOMAIN entries /\ i > scan[t].pos /\ entries[i] # Hole
  BY <1>1, <1>4, <1>6 DEF Ahead
<1>8. ASSUME NEW j \in DOMAIN entries, j > scan[t].pos, j < i PROVE entries[j] = Hole
  <2>1. j \notin A
    BY <1>4, <1>5, <1>6, <1>8
  <2>2. QED
    BY <1>1, <1>8, <2>1 DEF Ahead
<1>9. QED
  BY <1>1, <1>6, <1>7, <1>8

\* Yielding it leaves nothing behind unseen, and repeats nothing.
LEMMA YieldKeepsScan ==
  ASSUME RegistryInvariant, TableListsRegistry, NEW t \in Readers, Yield(t),
         Consistent(scan[t]), scan \in [Readers -> Scans \cup {NoScan}]
  PROVE  Consistent(scan'[t])
<1>1. PICK s \in Scans : s = scan[t] /\ Consistent(s)
  BY DEF Consistent
<1>2. PICK p, e : p = First(Ahead(t)) /\ e = entries[p]
  OBVIOUS
<1>3. /\ Ahead(t) # {} /\ Len(s.seen) # s.size
      /\ scan' = [scan EXCEPT ![t].pos = p, ![t].seen = Append(@, e)]
  BY <1>1, <1>2 DEF Yield, KeysChanged
<1>4. PICK new : new = [s EXCEPT !.pos = p, !.seen = Append(@, e)]
  OBVIOUS
<1>5. scan'[t] = new
  BY <1>1, <1>3, <1>4
<1>6. /\ p \in DOMAIN entries /\ p > s.pos /\ e # Hole
      /\ \A i \in DOMAIN entries : i > s.pos /\ i < p => entries[i] = Hole
  BY <1>1, <1>2, <1>3, FirstAhead
<1>7. p \in Nat /\ p <= Len(entries) /\ e \in Streams /\ e \in streams
  <2>1. entries \in Seq(Streams \cup {Hole}) /\ e \in streams
    BY <1>2, <1>6 DEF TableListsRegistry
  <2>2. e \in Streams
    BY <2>1 DEF RegistryInvariant, TypeOK
  <2>3. p \in Nat /\ p <= Len(entries)
    BY <1>6, <2>1
  <2>4. QED
    BY <2>1, <2>2, <2>3
<1>8. PICK seen : seen = Append(s.seen, e)
  OBVIOUS
<1>9. /\ s.seen \in Seq(Streams) /\ s.pos \in Nat /\ s.size \in Nat /\ s.stable \subseteq streams
      /\ s.rebuilt \in BOOLEAN /\ Len(s.seen) <= s.size
  BY <1>1 DEF Scans, Consistent
<1>10. /\ seen \in Seq(Streams) /\ Len(seen) = Len(s.seen) + 1 /\ seen[Len(s.seen) + 1] = e
       /\ DOMAIN seen = DOMAIN s.seen \cup {Len(s.seen) + 1}
       /\ \A k \in DOMAIN s.seen : seen[k] = s.seen[k]
  BY <1>7, <1>8, <1>9
<1>11. /\ new.pos = p /\ new.seen = seen /\ new.size = s.size /\ new.stable = s.stable
       /\ new.rebuilt = s.rebuilt /\ new \in Scans
  BY <1>4, <1>7, <1>8, <1>10 DEF Scans
<1>12. Len(seen) <= s.size
  BY <1>3, <1>9, <1>10
<1>13. ASSUME NEW k \in DOMAIN s.seen, s.seen[k] \in s.stable
       PROVE  s.seen[k] # e
  <2>1. PICK i \in DOMAIN entries : i <= s.pos /\ entries[i] = s.seen[k]
    BY <1>1, <1>13 DEF Consistent
  <2>2. i # p /\ i \in Nat
    BY <1>6, <1>7, <1>9, <2>1 DEF TableListsRegistry
  <2>3. QED
    BY <1>2, <1>6, <2>1, <2>2 DEF TableListsRegistry
<1>14. ASSUME NEW k \in DOMAIN seen, seen[k] \in s.stable
       PROVE  /\ \E i \in DOMAIN entries : i <= p /\ entries[i] = seen[k]
              /\ \A m \in DOMAIN seen : seen[m] = seen[k] => m = k
  <2>1. CASE k \in DOMAIN s.seen
    <3>1. s.seen[k] = seen[k] /\ s.seen[k] \in s.stable
      BY <1>10, <1>14, <2>1
    <3>2. PICK i \in DOMAIN entries : i <= s.pos /\ entries[i] = s.seen[k]
      BY <1>1, <2>1, <3>1 DEF Consistent
    <3>3. i \in Nat /\ i <= p
      BY <1>6, <1>7, <1>9, <3>2 DEF TableListsRegistry
    <3>4. \A m \in DOMAIN s.seen : s.seen[m] = s.seen[k] => m = k
      BY <1>1, <2>1, <3>1 DEF Consistent
    <3>5. s.seen[k] # e
      BY <1>13, <2>1, <3>1
    <3>6. QED
      BY <1>10, <3>1, <3>2, <3>3, <3>4, <3>5
  <2>2. CASE k = Len(s.seen) + 1
    <3>1. seen[k] = e /\ e \in s.stable
      BY <1>10, <1>14, <2>2
    <3>2. \A m \in DOMAIN s.seen : s.seen[m] # e
      BY <1>13, <3>1
    <3>3. p <= p
      BY <1>7
    <3>4. QED
      BY <1>2, <1>6, <1>10, <2>2, <3>1, <3>2, <3>3
  <2>3. QED
    BY <1>10, <2>1, <2>2
<1>15. ASSUME ~s.rebuilt, NEW i \in DOMAIN entries, i <= p, entries[i] # Hole
       PROVE  \E k \in DOMAIN seen : seen[k] = entries[i]
  <2>1. i \in Nat
    BY DEF TableListsRegistry
  <2>2. CASE i <= s.pos
    <3>1. PICK k \in DOMAIN s.seen : s.seen[k] = entries[i]
      BY <1>1, <1>15, <2>2 DEF Consistent
    <3>2. QED
      BY <1>10, <3>1
  <2>3. CASE i = p
    BY <1>2, <1>10, <2>3
  <2>4. ~(i > s.pos /\ i < p)
    BY <1>6, <1>15
  <2>5. i <= s.pos \/ i = p
    BY <1>7, <1>9, <1>15, <2>1, <2>4
  <2>6. QED
    BY <2>2, <2>3, <2>5
<1>16. Consistent(new)
  BY <1>7, <1>9, <1>11, <1>12, <1>14, <1>15 DEF Consistent
<1>17. QED
  BY <1>5, <1>16

-----------------------------------------------------------------------------
(* The invariant.                                                          *)

\* The service starts without streams and without scans.
LEMMA InitScans == Init => ScanInvariant
<1> SUFFICES ASSUME Init PROVE ScanInvariant
  OBVIOUS
<1>1. TableListsRegistry
  <2>1. PICK none : none = << >>
    OBVIOUS
  <2>2. none \in Seq(Streams \cup {Hole}) /\ DOMAIN none = {}
    BY <2>1
  <2>3. entries = none /\ streams = {}
    BY <2>1 DEF Init
  <2>4. QED
    BY <2>2, <2>3 DEF TableListsRegistry
<1>2. scan = [r \in Readers |-> NoScan] /\ \A r \in Readers : pc[r] = "idle"
  BY DEF Init, Threads
<1>3. QED
  BY <1>1, <1>2 DEF ScanInvariant

\* A writer moves no reader.
LEMMA WriterStep ==
  ASSUME TypeOK, NEW t \in Writers, Invoke(t) \/ Acquire(t) \/ Serve(t)
  PROVE  /\ \A r \in Readers : pc'[r] = pc[r]
         /\ \/ UNCHANGED <<streams, entries, scan>>
            \/ Insert(t) \/ Pop(t)
<1>1. \A r \in Readers : r # t
  BY ThreadsAssumption, ScansAssumption
<1>2. QED
  BY <1>1 DEF TypeOK, Threads, Goto, Serve, Invoke, Acquire, Build, Lookup, Judge, Insert,
              Pop, Release, Get, Return

\* The record of a scan in progress after a writer changed the dict.
LEMMA InsertNotes ==
  ASSUME RegistryInvariant, NEW t \in Writers, Insert(t), NEW r \in Readers,
         scan[r] \in Scans
  PROVE  /\ scan'[r] \in Scans
         /\ scan'[r].size = scan[r].size /\ scan'[r].pos = scan[r].pos
         /\ scan'[r].seen = scan[r].seen /\ scan'[r].stable = scan[r].stable
         /\ scan'[r].rebuilt = (scan[r].rebuilt \/ NeedsRebuild)
<1>1. Holding(built[t].name) = {}
  BY InsertAppends
<1>2. PICK s \in Scans, again \in BOOLEAN : s = scan[r] /\ again = NeedsRebuild
  BY DEF NeedsRebuild
<1>3. s # NoScan
  BY ThreadsAssumption, ScansAssumption
<1>4. scan'[r] = [s EXCEPT !.rebuilt = @ \/ again, !.stable = @ \ {}]
  BY <1>1, <1>2, <1>3 DEF Insert, NoteInsert
<1>5. PICK new : new = [s EXCEPT !.rebuilt = @ \/ again, !.stable = @ \ {}]
  OBVIOUS
<1>6. /\ new.size = s.size /\ new.pos = s.pos /\ new.seen = s.seen /\ new.stable = s.stable
      /\ new.rebuilt = (s.rebuilt \/ again)
  BY <1>5 DEF Scans
<1>7. new \in Scans
  BY <1>5 DEF Scans
<1>8. QED
  BY <1>2, <1>4, <1>5, <1>6, <1>7

\* A removal takes a stream out of stable and changes nothing else of a scan.
LEMMA PopNotes ==
  ASSUME NEW t \in Writers, Pop(t), NEW r \in Readers, scan[r] \in Scans
  PROVE  /\ scan'[r] \in Scans
         /\ scan'[r].size = scan[r].size /\ scan'[r].pos = scan[r].pos
         /\ scan'[r].seen = scan[r].seen /\ scan'[r].rebuilt = scan[r].rebuilt
         /\ scan'[r].stable = scan[r].stable \ Holding(call[t].name)
<1>0. PICK gone : gone = Holding(call[t].name)
  OBVIOUS
<1>1. PICK s \in Scans : s = scan[r]
  OBVIOUS
<1>2. s # NoScan
  BY ThreadsAssumption, ScansAssumption
<1>3. scan'[r] = [s EXCEPT !.stable = @ \ gone]
  BY <1>0, <1>1, <1>2 DEF Pop, NoteRemoval
<1>4. PICK new : new = [s EXCEPT !.stable = @ \ gone]
  OBVIOUS
<1>5. /\ new.size = s.size /\ new.pos = s.pos /\ new.seen = s.seen /\ new.rebuilt = s.rebuilt
      /\ new.stable = s.stable \ gone
  BY <1>4 DEF Scans
<1>6. new \in Scans
  BY <1>4 DEF Scans
<1>7. QED
  BY <1>0, <1>1, <1>3, <1>4, <1>5, <1>6

\* No step of a writer or of the reader itself makes a scan inconsistent.
LEMMA ScansPreserved ==
  ASSUME RegistryInvariant, ScanInvariant, [Next]_vars
  PROVE  ScanInvariant'
<1>0. TypeOK /\ TableListsRegistry
  BY DEF RegistryInvariant, ScanInvariant
<1>1. TableListsRegistry'
  BY <1>0, TablePreserved
<1>2. scan \in [Readers -> Scans \cup {NoScan}]
  BY DEF ScanInvariant
<1>a. ASSUME NEW r \in Readers, scan[r] # NoScan PROVE scan[r] \in Scans /\ Consistent(scan[r])
  BY <1>2, <1>a DEF ScanInvariant
<1> DEFINE Kept(r) == /\ scan'[r] \in Scans \cup {NoScan}
                      /\ scan'[r] # NoScan => Consistent(scan[r])'
                      /\ pc'[r] \in {"scan", "listed"} => scan'[r] # NoScan
<1>3. ASSUME UNCHANGED <<streams, entries>>, NEW r \in Readers,
             scan'[r] = scan[r], pc'[r] \in {"scan", "listed"} => pc[r] \in {"scan", "listed"}
      PROVE  Kept(r)
  BY <1>2, <1>3 DEF ScanInvariant, Consistent
<1>4. ASSUME NEW t \in Writers, Insert(t), NEW r \in Readers PROVE Kept(r)
  <2>1. pc'[r] = pc[r]
    BY <1>0, <1>4, WriterStep DEF Serve
  <2>2. CASE scan[r] = NoScan
    <3>1. scan'[r] = NoScan
      BY <1>4, <2>2 DEF Insert, NoteInsert
    <3>2. QED
      BY <2>1, <2>2, <3>1 DEF ScanInvariant
  <2>3. CASE scan[r] # NoScan
    <3>1. PICK s, new : s = scan[r] /\ new = scan'[r]
      OBVIOUS
    <3>2. s \in Scans /\ Consistent(s)
      BY <1>a, <2>3, <3>1
    <3>3. /\ new \in Scans /\ new.size = s.size /\ new.pos = s.pos /\ new.seen = s.seen
          /\ new.stable = s.stable /\ new.rebuilt = (s.rebuilt \/ NeedsRebuild)
      BY <1>4, <3>1, <3>2, InsertNotes
    <3>4. Consistent(new)'
      BY <1>0, <1>4, <3>2, <3>3, InsertKeepsScan
    <3>5. QED
      BY <3>1, <3>3, <3>4, ThreadsAssumption, ScansAssumption
  <2>4. QED
    BY <2>2, <2>3
<1>5. ASSUME NEW t \in Writers, Pop(t), NEW r \in Readers PROVE Kept(r)
  <2>1. pc'[r] = pc[r]
    BY <1>0, <1>5, WriterStep DEF Serve
  <2>2. CASE scan[r] = NoScan
    <3>1. scan'[r] = NoScan
      BY <1>5, <2>2 DEF Pop, NoteRemoval
    <3>2. QED
      BY <2>1, <2>2, <3>1 DEF ScanInvariant
  <2>3. CASE scan[r] # NoScan
    <3>1. PICK s, new : s = scan[r] /\ new = scan'[r]
      OBVIOUS
    <3>2. s \in Scans /\ Consistent(s)
      BY <1>a, <2>3, <3>1
    <3>3. /\ new \in Scans /\ new.size = s.size /\ new.pos = s.pos /\ new.seen = s.seen
          /\ new.stable = s.stable \ Holding(call[t].name) /\ new.rebuilt = s.rebuilt
      BY <1>5, <3>1, <3>2, PopNotes
    <3>4. Consistent(new)'
      BY <1>0, <1>5, <3>2, <3>3, PopKeepsScan
    <3>5. QED
      BY <3>1, <3>3, <3>4, ThreadsAssumption, ScansAssumption
  <2>4. QED
    BY <2>2, <2>3
<1>6. ASSUME NEW t \in Writers, Invoke(t) \/ Acquire(t) \/ Serve(t), NEW r \in Readers
      PROVE  Kept(r)
  <2>1. pc'[r] = pc[r] /\ (UNCHANGED <<streams, entries, scan>> \/ Insert(t) \/ Pop(t))
    BY <1>0, <1>6, WriterStep
  <2> HIDE DEF Kept
  <2> QED BY <1>3, <1>4, <1>5, <2>1
<1>7. ASSUME NEW t \in Readers, BeginScan(t) \/ Walk(t), NEW r \in Readers
      PROVE  Kept(r)
  <2>1. UNCHANGED <<streams, entries>>
    BY <1>0, <1>7, ReaderStep
  <2>2. r # t => scan'[r] = scan[r] /\ pc'[r] = pc[r]
    BY <1>0, <1>2, <1>7
       DEF TypeOK, Threads, BeginScan, Walk, Yield, Exhaust, Abort, EndScan, Goto
  <2>3. CASE r # t
    BY <1>3, <2>1, <2>2, <2>3
  <2>4. CASE r = t /\ BeginScan(t)
    <3>1. PICK new : new = [ size |-> Cardinality(streams), pos |-> 0,
                             seen |-> << >>, stable |-> streams, rebuilt |-> FALSE ]
      OBVIOUS
    <3>2. scan'[r] = new
      BY <1>2, <2>4, <3>1 DEF BeginScan
    <3>3. Consistent(new)
      BY <1>0, <3>1, BeginKeepsScan
    <3>4. new \in Scans /\ new # NoScan
      BY <3>3, ThreadsAssumption, ScansAssumption DEF Consistent
    <3>5. Consistent(new)'
      BY <2>1, <3>3 DEF Consistent
    <3>6. QED
      BY <3>2, <3>4, <3>5
  <2>5. CASE r = t /\ Yield(t)
    <3>1. pc[t] = "scan"
      BY <2>5 DEF Yield, Goto
    <3>2. Consistent(scan[t])
      BY <3>1, <1>a DEF ScanInvariant
    <3>3. PICK new : new = scan'[t] /\ Consistent(new)
      BY <1>0, <1>2, <2>5, <3>2, YieldKeepsScan
    <3>4. new \in Scans /\ new # NoScan
      BY <3>3, ThreadsAssumption, ScansAssumption DEF Consistent
    <3>5. Consistent(new)'
      BY <2>1, <3>3 DEF Consistent
    <3>6. QED
      BY <2>5, <3>3, <3>4, <3>5
  <2>6. CASE r = t /\ (Exhaust(t) \/ Abort(t))
    <3>1. scan'[r] = scan[r] /\ pc[r] = "scan"
      BY <2>6 DEF Exhaust, Abort, Goto
    <3>2. QED
      BY <1>3, <2>1, <3>1
  <2>7. CASE r = t /\ EndScan(t)
    <3>1. scan'[r] = NoScan /\ pc'[r] = "idle"
      BY <1>0, <1>2, <2>7 DEF EndScan, Goto, TypeOK, Threads
    <3>2. QED
      BY <3>1
  <2>8. QED
    <3> HIDE DEF Kept
    <3> QED BY <1>7, <2>3, <2>4, <2>5, <2>6, <2>7 DEF Walk
<1>8. ASSUME UNCHANGED vars, NEW r \in Readers PROVE Kept(r)
  BY <1>3, <1>8 DEF vars
<1>9. \A r \in Readers : Kept(r)
  <2> HIDE DEF Kept
  <2> QED BY <1>6, <1>7, <1>8 DEF Next
<1>10. scan' \in [Readers -> Scans \cup {NoScan}]
  <2>1. scan' = [r \in Readers |-> scan'[r]]
    <3>1. ASSUME NEW t \in Writers, Invoke(t) \/ Acquire(t) \/ Serve(t)
          PROVE  scan' = [r \in Readers |-> scan'[r]]
      <4>1. scan' = scan \/ Insert(t) \/ Pop(t)
        BY <1>0, <3>1, WriterStep
      <4>2. QED
        BY <1>2, <4>1 DEF Insert, Pop, NoteInsert, NoteRemoval
    <3>2. ASSUME NEW t \in Readers, BeginScan(t) \/ Walk(t)
          PROVE  scan' = [r \in Readers |-> scan'[r]]
      BY <1>2, <3>2 DEF BeginScan, Walk, Yield, Exhaust, Abort, EndScan
    <3>3. QED
      BY <1>2, <3>1, <3>2 DEF Next, vars
  <2>2. \A r \in Readers : scan'[r] \in Scans \cup {NoScan}
    BY <1>9
  <2>3. QED
    BY <2>1, <2>2
<1>11. QED
  BY <1>1, <1>9, <1>10 DEF ScanInvariant

\* What a reader has seen is consistent with the dict, whatever the writers do
\* between two of its steps (service.py:108 and 178).
THEOREM ScansCorrect == Spec => []ScanInvariant
<1>1. Init => ScanInvariant
  BY InitScans
<1>2. RegistryInvariant /\ ScanInvariant /\ [Next]_vars => ScanInvariant'
  BY ScansPreserved
<1>3. QED
  BY <1>1, <1>2, RegistryCorrect, PTL DEF Spec

-----------------------------------------------------------------------------
(* What a scan is worth.                                                   *)

\* A scan that gets to its end with no more elements than there are streams,
\* and has seen every stream, has seen nothing else.
LEMMA SeenExactly ==
  ASSUME NEW seen \in Seq(Streams), NEW S \in SUBSET Streams,
         \A x \in S : \E k \in DOMAIN seen : seen[k] = x, Len(seen) <= Cardinality(S)
  PROVE  { seen[k] : k \in DOMAIN seen } = S /\ Len(seen) = Cardinality(S)
<1>1. PICK n \in Nat : n = Len(seen) /\ DOMAIN seen = 1 .. n
  OBVIOUS
<1>2. IsFiniteSet(1 .. n) /\ Cardinality(1 .. n) = n
  <2>1. PICK one, m \in Int : one = 1 /\ m = n
    OBVIOUS
  <2>2. IsFiniteSet(one .. m) /\ Cardinality(one .. m) = IF one > m THEN 0 ELSE m - one + 1
    BY FS_Interval
  <2>3. QED
    BY <2>1, <2>2
<1> DEFINE L == { seen[k] : k \in 1 .. n }
           f == [k \in 1 .. n |-> seen[k]]
<1>3. f \in Surjection(1 .. n, L)
  BY DEF Surjection
<1>4. IsFiniteSet(L) /\ Cardinality(L) <= n
  <2> HIDE DEF L, f
  <2> QED BY <1>2, <1>3, FS_Surjection
<1>5. S \in SUBSET L
  BY <1>1
<1>6. /\ IsFiniteSet(S) /\ Cardinality(S) <= Cardinality(L)
      /\ Cardinality(L) = Cardinality(S) => L = S
  <2> HIDE DEF L
  <2> QED BY <1>4, <1>5, FS_Subset
<1>7. Cardinality(S) \in Nat /\ Cardinality(L) \in Nat
  BY <1>4, <1>6, FS_CardinalityType
<1>8. Cardinality(L) = Cardinality(S) /\ n = Cardinality(S)
  BY <1>1, <1>4, <1>6, <1>7
<1>9. QED
  BY <1>1, <1>6, <1>8

\* A list that was answered, and under which the table was not rebuilt, is the
\* registry at the end of the scan (service.py:108).
THEOREM ScansAreSnapshots == Spec => SnapshotUnlessRebuilt
<1> DEFINE Step == \A t \in Readers :
                     pc[t] = "scan" /\ pc'[t] = "listed" /\ ~scan[t].rebuilt =>
                       Listing(t) = streams /\ Len(scan[t].seen) = Cardinality(streams)
<1>1. RegistryInvariant /\ ScanInvariant /\ [Next]_vars => [Step]_vars
  <2> SUFFICES ASSUME RegistryInvariant, ScanInvariant, [Next]_vars,
                      NEW t \in Readers, pc[t] = "scan", pc'[t] = "listed", ~scan[t].rebuilt
               PROVE  Listing(t) = streams /\ Len(scan[t].seen) = Cardinality(streams)
    OBVIOUS
  <2>1. Exhaust(t)
    <3>1. ASSUME NEW u \in Writers, Invoke(u) \/ Acquire(u) \/ Serve(u) PROVE FALSE
      BY <3>1, WriterStep DEF RegistryInvariant
    <3>2. ASSUME NEW u \in Readers, BeginScan(u) \/ Walk(u) PROVE Exhaust(t)
      <4>1. u = t
        BY <3>2 DEF RegistryInvariant, TypeOK, Threads,
                    BeginScan, Walk, Yield, Exhaust, Abort, EndScan, Goto
      <4>2. QED
        BY <3>2, <4>1 DEF RegistryInvariant, TypeOK, Threads,
                          BeginScan, Walk, Yield, Abort, EndScan, Goto
    <3>3. QED
      BY <3>1, <3>2 DEF Next, vars
  <2>2. PICK s \in Scans : s = scan[t] /\ Consistent(s)
    BY DEF ScanInvariant, Consistent
  <2>3. s.seen \in Seq(Streams) /\ streams \in SUBSET Streams /\ Len(s.seen) <= Cardinality(streams)
    BY <2>1, <2>2 DEF Exhaust, SizeChanged, Consistent, Scans, RegistryInvariant, TypeOK
  <2>4. ASSUME NEW x \in streams PROVE \E k \in DOMAIN s.seen : s.seen[k] = x
    <3>1. PICK i \in DOMAIN entries : entries[i] = x /\ i \in Nat /\ x # Hole
      BY ThreadsAssumption, ScansAssumption DEF ScanInvariant, TableListsRegistry, RegistryInvariant, TypeOK
    <3>2. ~(i > s.pos)
      BY <2>1, <2>2, <3>1 DEF Exhaust, Ahead
    <3>3. i <= s.pos
      BY <3>1, <3>2 DEF Scans
    <3>4. QED
      BY <2>2, <3>1, <3>3 DEF Consistent
  <2>5. { s.seen[k] : k \in DOMAIN s.seen } = streams /\ Len(s.seen) = Cardinality(streams)
    BY <2>3, <2>4, SeenExactly
  <2>6. QED
    BY <2>2, <2>5 DEF Listing
<1>2. QED
  BY <1>1, RegistryCorrect, ScansCorrect, PTL DEF Spec, SnapshotUnlessRebuilt

\* What remains of a scan under which the table was rebuilt: no stream that was
\* registered all along is listed twice, and the list is no longer than the dict
\* was when the scan began.
KeptStreamsListedOnce ==
  \A r \in Readers :
    pc[r] \in {"scan", "listed"} =>
      /\ Len(scan[r].seen) <= scan[r].size
      /\ \A k, m \in DOMAIN scan[r].seen :
           scan[r].seen[k] \in scan[r].stable /\ scan[r].seen[k] = scan[r].seen[m] => k = m

\* Whatever writers do to the dict under a scan, a rebuild of its table included,
\* a stream registered all along is listed once at most, so topology counts no
\* such stream twice (service.py:108 and 178-188).
THEOREM RebuildsListOnce == Spec => []KeptStreamsListedOnce
<1>1. ScanInvariant => KeptStreamsListedOnce
  <2>1. SUFFICES ASSUME ScanInvariant, NEW r \in Readers, pc[r] \in {"scan", "listed"}
                 PROVE  /\ Len(scan[r].seen) <= scan[r].size
                        /\ \A k, m \in DOMAIN scan[r].seen :
                             /\ scan[r].seen[k] \in scan[r].stable
                             /\ scan[r].seen[k] = scan[r].seen[m]
                             => k = m
    BY DEF KeptStreamsListedOnce
  <2>2. PICK s : s = scan[r] /\ Consistent(s)
    BY <2>1 DEF ScanInvariant
  <2>3. QED
    BY <2>2 DEF Consistent
<1>2. QED
  BY <1>1, ScansCorrect, PTL

\* The first copies of the streams of S.
Singles(S) == { u \in S \X (1 .. MaxUnits) : u[2] <= Units(u[1]) }

\* The second copies are no more than the first.
LEMMA LoadBrackets ==
  ASSUME NEW S \in SUBSET Streams
  PROVE  /\ Cardinality(Singles(S)) <= Load(S) /\ Load(S) <= 2 * Cardinality(Singles(S))
         /\ (\A s \in S : Copies(s) = 1) => Cardinality(Singles(S)) = Load(S)
<1> DEFINE A == Singles(S)
           C == { u \in S \X (1 .. MaxUnits) : u[2] <= Charge(u[1]) }
           B == C \ A
<1>1. MaxUnits \in Nat /\ \A s \in S : /\ Units(s) \in Nat /\ Copies(s) \in {1, 2}
                                       /\ Charge(s) = Copies(s) * Units(s)
                                       /\ Charge(s) \in Nat /\ Charge(s) <= MaxUnits
  BY UnitsAssumption DEF Copies, Charge
<1>2. \A s \in S : Charge(s) = Units(s) \/ Charge(s) = Units(s) + Units(s)
  BY <1>1
<1>3. IsFiniteSet(C)
  <2>1. IsFiniteSet(S)
    BY StreamsFinite, FS_Subset
  <2>2. IsFiniteSet(1 .. MaxUnits)
    <3>1. PICK one, m \in Int : one = 1 /\ m = MaxUnits
      BY <1>1
    <3>2. IsFiniteSet(one .. m)
      BY FS_Interval
    <3>3. QED
      BY <3>1, <3>2
  <2>3. IsFiniteSet(S \X (1 .. MaxUnits))
    BY <2>1, <2>2, FS_Product
  <2>4. C \in SUBSET (S \X (1 .. MaxUnits))
    OBVIOUS
  <2> HIDE DEF C
  <2> QED BY <2>3, <2>4, FS_Subset
<1>4. A \in SUBSET C
  BY <1>1, <1>2 DEF Singles
<1>5. IsFiniteSet(A) /\ IsFiniteSet(B) /\ Cardinality(A) <= Cardinality(C)
  <2>1. B \in SUBSET C
    OBVIOUS
  <2> HIDE DEF A, B, C
  <2> QED BY <1>3, <1>4, <2>1, FS_Subset
<1>6. Cardinality(A) \in Nat /\ Cardinality(B) \in Nat /\ Cardinality(C) \in Nat
  <2> HIDE DEF A, B, C
  <2> QED BY <1>3, <1>5, FS_CardinalityType
<1>7. Cardinality(B) <= Cardinality(A)
  <2> DEFINE f == [u \in B |-> <<u[1], u[2] - Units(u[1])>>]
  <2>1. ASSUME NEW u \in B
        PROVE  /\ u[1] \in S /\ u[2] \in Nat /\ u = <<u[1], u[2]>>
               /\ f[u] = <<u[1], u[2] - Units(u[1])>> /\ f[u] \in A
    <3>1. u[1] \in S /\ u[2] \in 1 .. MaxUnits /\ u = <<u[1], u[2]>>
      OBVIOUS
    <3>2. u[2] <= Charge(u[1]) /\ ~(u[2] <= Units(u[1]))
      BY DEF Singles
    <3>3. PICK n, k \in Nat : n = Units(u[1]) /\ k = u[2]
      BY <1>1, <3>1
    <3>4. Charge(u[1]) = n \/ Charge(u[1]) = n + n
      BY <1>2, <3>1, <3>3
    <3>5. k <= MaxUnits /\ ~(k <= n) /\ k <= n + n
      BY <1>1, <3>1, <3>2, <3>3, <3>4
    <3>6. k - n \in 1 .. MaxUnits /\ k - n <= n
      BY <1>1, <3>5
    <3>7. <<u[1], k - n>> \in A
      BY <3>1, <3>3, <3>6 DEF Singles
    <3>8. f[u] = <<u[1], k - n>>
      BY <3>3
    <3> HIDE DEF A, B, C, f
    <3> QED BY <3>1, <3>3, <3>7, <3>8
  <2>2. ASSUME NEW u \in B, NEW v \in B, f[u] = f[v] PROVE u = v
    <3>1. u[1] = v[1] /\ u[2] - Units(u[1]) = v[2] - Units(v[1])
      <4> HIDE DEF A, B, C, f
      <4> QED BY <2>1, <2>2
    <3>2. PICK n \in Nat : n = Units(u[1])
      BY <1>1, <2>1
    <3>3. u[2] - n = v[2] - n /\ u[2] \in Nat /\ v[2] \in Nat
      <4> HIDE DEF A, B, C, f
      <4> QED BY <2>1, <3>1, <3>2
    <3>4. u[2] = v[2]
      BY <3>3
    <3> HIDE DEF A, B, C, f
    <3> QED BY <2>1, <3>1, <3>4
  <2>3. f \in Injection(B, A)
    <3>1. f = [u \in B |-> f[u]]
      OBVIOUS
    <3> HIDE DEF A, B, C, f
    <3> QED BY <2>1, <2>2, <3>1 DEF Injection, IsInjective
  <2> HIDE DEF A, B, C, f
  <2> QED BY <1>5, <2>3, FS_Injection
<1>8. Cardinality(C) = Cardinality(A) + Cardinality(B)
  <2>1. C = A \cup B /\ A \cap B = {}
    BY <1>4
  <2>2. Cardinality(A \cup B) = Cardinality(A) + Cardinality(B) - Cardinality(A \cap B)
    <3> HIDE DEF A, B, C
    <3> QED BY <1>5, FS_Union
  <2>3. Cardinality(A \cap B) = 0
    <3> HIDE DEF A, B
    <3> QED BY <2>1, FS_EmptySet
  <2>4. PICK a, b \in Nat : a = Cardinality(A) /\ b = Cardinality(B)
    BY <1>6
  <2>5. Cardinality(A \cup B) = a + b
    <3> HIDE DEF A, B
    <3> QED BY <2>2, <2>3, <2>4
  <2> HIDE DEF A, B, C
  <2> QED BY <2>1, <2>4, <2>5
<1>9. Load(S) = Cardinality(C)
  BY DEF Load
<1>10. ASSUME \A s \in S : Copies(s) = 1 PROVE A = C
  <2>1. \A s \in S : Charge(s) = Units(s)
    BY <1>1, <1>10
  <2>2. QED
    BY <2>1 DEF Singles
<1>11. QED
  <2> HIDE DEF A, B, C
  <2>1. Cardinality(A) <= Load(S) /\ Load(S) <= 2 * Cardinality(A)
    BY <1>5, <1>6, <1>7, <1>8, <1>9
  <2>2. (\A s \in S : Copies(s) = 1) => Cardinality(A) = Load(S)
    BY <1>9, <1>10
  <2> QED BY <2>1, <2>2 DEF A

\* Where nothing changed under the scan, topology shows the first copies.
LEMMA ReportsSingles ==
  ASSUME NEW t \in Readers, scan[t] \in Scans, Consistent(scan[t]),
         scan[t].stable = Listing(t), NEW l
  PROVE  /\ OnLink(Listing(t), l) \in SUBSET Streams
         /\ Reported(t, l) = Cardinality(Singles(OnLink(Listing(t), l)))
<1>1. PICK seen \in Seq(Streams) : seen = scan[t].seen
  BY DEF Scans
<1>2. PICK S : S = OnLink(Listing(t), l)
  OBVIOUS
<1>3. S = { s \in { seen[k] : k \in DOMAIN seen } : s.link = l }
  BY <1>1, <1>2 DEF OnLink, Listing
<1>4. \A k, m \in DOMAIN seen : seen[m] = seen[k] => m = k
  <2>1. \A k \in DOMAIN seen : seen[k] \in scan[t].stable
    BY <1>1 DEF Listing
  <2>2. QED
    BY <1>1, <2>1 DEF Consistent
<1> DEFINE R == { u \in (DOMAIN seen) \X (1 .. MaxUnits) :
                    seen[u[1]].link = l /\ u[2] <= Units(seen[u[1]]) }
           A == Singles(S)
           f == [u \in R |-> <<seen[u[1]], u[2]>>]
<1>5. Reported(t, l) = Cardinality(R)
  BY <1>1 DEF Reported
<1>6. ASSUME NEW u \in R
      PROVE  /\ u[1] \in DOMAIN seen /\ u = <<u[1], u[2]>>
             /\ f[u] = <<seen[u[1]], u[2]>> /\ f[u] \in A
  <2>1. /\ u[1] \in DOMAIN seen /\ u[2] \in 1 .. MaxUnits /\ u = <<u[1], u[2]>>
        /\ seen[u[1]].link = l /\ u[2] <= Units(seen[u[1]])
    OBVIOUS
  <2>2. seen[u[1]] \in S
    BY <1>3, <2>1
  <2>3. <<seen[u[1]], u[2]>> \in A
    BY <2>1, <2>2 DEF Singles
  <2>4. f[u] = <<seen[u[1]], u[2]>>
    OBVIOUS
  <2> HIDE DEF A, R, f
  <2> QED BY <2>1, <2>3, <2>4
<1>7. ASSUME NEW u \in R, NEW v \in R, f[u] = f[v] PROVE u = v
  <2>1. seen[u[1]] = seen[v[1]] /\ u[2] = v[2]
    <3> HIDE DEF A, R, f
    <3> QED BY <1>6, <1>7
  <2>2. u[1] = v[1]
    <3> HIDE DEF A, R, f
    <3> QED BY <1>4, <1>6, <2>1
  <2> HIDE DEF A, R, f
  <2> QED BY <1>6, <2>1, <2>2
<1>8. ASSUME NEW a \in A PROVE \E u \in R : f[u] = a
  <2>1. a[1] \in S /\ a[2] \in 1 .. MaxUnits /\ a = <<a[1], a[2]>> /\ a[2] <= Units(a[1])
    BY DEF Singles
  <2>2. PICK k \in DOMAIN seen : seen[k] = a[1] /\ a[1].link = l
    BY <1>3, <2>1
  <2>3. PICK u : u = <<k, a[2]>>
    OBVIOUS
  <2>4. u \in R /\ u[1] = k /\ u[2] = a[2]
    BY <2>1, <2>2, <2>3
  <2>5. f[u] = <<seen[k], a[2]>>
    BY <2>4
  <2> HIDE DEF A, R, f
  <2> QED BY <2>1, <2>2, <2>4, <2>5
<1>9. f \in Bijection(R, A)
  <2>1. f = [u \in R |-> f[u]]
    OBVIOUS
  <2> HIDE DEF A, R, f
  <2> QED BY <1>6, <1>7, <1>8, <2>1 DEF Bijection, Injection, IsInjective, Surjection
<1>10. IsFiniteSet(R)
  <2>1. PICK one, n, m \in Int : one = 1 /\ DOMAIN seen = one .. n /\ m = MaxUnits
    BY UnitsAssumption
  <2>2. IsFiniteSet(one .. n)
    BY FS_Interval
  <2>3. IsFiniteSet(one .. m)
    BY FS_Interval
  <2>4. IsFiniteSet((one .. n) \X (one .. m))
    BY <2>2, <2>3, FS_Product
  <2>5. R \in SUBSET ((one .. n) \X (one .. m))
    BY <2>1
  <2> HIDE DEF R
  <2> QED BY <2>4, <2>5, FS_Subset
<1>11. Cardinality(R) = Cardinality(A)
  <2> HIDE DEF A, R, f
  <2>1. ExistsBijection(R, A)
    BY <1>9 DEF ExistsBijection
  <2> QED BY <1>10, <2>1, FS_Bijection
<1>12. S \in SUBSET Streams
  BY <1>3
<1>13. QED
  BY <1>2, <1>5, <1>11, <1>12

\* What topology reports of a link is what admission charges it with, but for
\* the second copies of replicated streams (service.py:178 and mapper.py:425).
THEOREM TopologyAgreesWithAdmission == Spec => []TopologyBracketsAdmission
<1>1. ScanInvariant => TopologyBracketsAdmission
  <2> SUFFICES ASSUME ScanInvariant, NEW t \in Readers, pc[t] = "listed",
                      scan[t].stable = Listing(t), NEW l \in DOMAIN Links
               PROVE  LET charged == Load(OnLink(Listing(t), l))
                      IN  /\ Reported(t, l) <= charged /\ charged <= 2 * Reported(t, l)
                          /\ (\A s \in OnLink(Listing(t), l) : Copies(s) = 1) =>
                               Reported(t, l) = charged
    BY DEF TopologyBracketsAdmission
  <2>1. scan[t] \in Scans /\ Consistent(scan[t])
    BY DEF ScanInvariant, Consistent
  <2>2. PICK S : S = OnLink(Listing(t), l)
    OBVIOUS
  <2>3. S \in SUBSET Streams /\ Reported(t, l) = Cardinality(Singles(S))
    BY <2>1, <2>2, ReportsSingles
  <2>4. QED
    BY <2>2, <2>3, LoadBrackets
<1>2. QED
  BY <1>1, ScansCorrect, PTL
=============================================================================
