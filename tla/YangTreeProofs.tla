---------------------------- MODULE YangTreeProofs ----------------------------
(***************************************************************************)
(* Theorems about YangTree, for any modules, in any order, that satisfy    *)
(* its assumptions.                                                        *)
(***************************************************************************)
EXTENDS YangTree, DataTheorems, SequenceTheorems

-----------------------------------------------------------------------------
(* Sequences and what is in them.                                          *)

\* A sequence is its head and its tail.
LEMMA HeadAndRest ==
  ASSUME NEW S, NEW s \in Seq(S), s # << >>
  PROVE  /\ Head(s) \in S /\ Tail(s) \in Seq(S)
         /\ ToSet(s) = {Head(s)} \cup ToSet(Tail(s))
<1>1. /\ Head(s) \in S /\ Tail(s) \in Seq(S) /\ Len(Tail(s)) = Len(s) - 1
      /\ \A i \in 1 .. Len(Tail(s)) : Tail(s)[i] = s[i + 1]
  BY HeadTailProperties
<1>2. Len(s) \in Nat \ {0} /\ DOMAIN s = 1 .. Len(s) /\ DOMAIN Tail(s) = 1 .. Len(s) - 1
  BY <1>1, LenProperties, EmptySeq
<1>3. Head(s) = s[1]
  BY <1>2
<1>4. ASSUME NEW i \in 1 .. Len(s) PROVE s[i] = Head(s) \/ \E j \in DOMAIN Tail(s) : s[i] = Tail(s)[j]
  <2>1. CASE i = 1
    BY <1>3, <2>1
  <2>2. CASE i # 1
    <3>1. i - 1 \in 1 .. Len(s) - 1 /\ (i - 1) + 1 = i
      BY <1>2, <2>2
    <3>2. Tail(s)[i - 1] = s[i]
      BY <1>1, <1>2, <3>1
    <3>3. QED
      BY <1>2, <3>1, <3>2
  <2>3. QED
    BY <2>1, <2>2
<1>5. ASSUME NEW j \in DOMAIN Tail(s) PROVE \E i \in DOMAIN s : s[i] = Tail(s)[j]
  <2>1. j + 1 \in 1 .. Len(s) /\ Tail(s)[j] = s[j + 1]
    BY <1>1, <1>2, <1>5
  <2>2. QED
    BY <1>2, <2>1
<1>6. Head(s) \in ToSet(s)
  BY <1>2, <1>3 DEF ToSet
<1>7. QED
  BY <1>1, <1>2, <1>4, <1>5, <1>6 DEF ToSet

\* What is in two sequences is in their concatenation, and nothing else.
LEMMA SetOfConcat ==
  ASSUME NEW S, NEW s \in Seq(S), NEW t \in Seq(S)
  PROVE  s \o t \in Seq(S) /\ ToSet(s \o t) = ToSet(s) \cup ToSet(t)
<1>1. s \o t \in Seq(S) /\ Range(s \o t) = Range(s) \cup Range(t)
  BY ConcatProperties, RangeConcatenation
<1>2. \A u : Range(u) = ToSet(u)
  BY DEF Range, ToSet
<1>3. QED
  BY <1>1, <1>2

\* Likewise for one more element.
LEMMA SetOfAppend ==
  ASSUME NEW S, NEW s \in Seq(S), NEW e \in S
  PROVE  Append(s, e) \in Seq(S) /\ ToSet(Append(s, e)) = ToSet(s) \cup {e}
<1>1. PICK u : u = <<e>>
  OBVIOUS
<1>2. u \in Seq(S) /\ ToSet(u) = {e}
  BY <1>1 DEF ToSet
<1>3. s \o u \in Seq(S) /\ ToSet(s \o u) = ToSet(s) \cup {e}
  BY <1>2, SetOfConcat
<1>4. Append(s, e) = s \o <<e>>
  BY AppendIsConcat
<1>5. QED
  BY <1>1, <1>3, <1>4, Zenon

\* The elements of a sequence over S are in S.
LEMMA SetOfSeq ==
  ASSUME NEW S, NEW s \in Seq(S) PROVE ToSet(s) \subseteq S
BY LenProperties DEF ToSet

-----------------------------------------------------------------------------
(* Places.                                                                 *)

\* One name further down, and back.
LEMMA PlaceBelow ==
  ASSUME NEW p \in Places, NEW name \in STRING
  PROVE  /\ Append(p, name) \in Places /\ Len(Append(p, name)) = Len(p) + 1
         /\ Len(Append(p, name)) > 1
         /\ Last(Append(p, name)) = name /\ Front(Append(p, name)) = p
<1>1. p \in Seq(STRING) /\ p # << >> /\ p[1] \in DOMAIN Modules
  BY DEF Places
<1>2. Len(p) \in Nat \ {0}
  BY <1>1, EmptySeq
<1>3. PICK b : b = Append(p, name)
  OBVIOUS
<1>4. /\ b \in Seq(STRING) /\ b # << >> /\ Len(b) = Len(p) + 1
      /\ \A i \in 1 .. Len(p) : b[i] = p[i]
      /\ b[Len(p) + 1] = name
  <2>1. /\ Append(p, name) \in Seq(STRING) /\ Append(p, name) # << >>
        /\ Len(Append(p, name)) = Len(p) + 1
        /\ \A i \in 1 .. Len(p) : Append(p, name)[i] = p[i]
        /\ Append(p, name)[Len(p) + 1] = name
    <3>1. PICK S : S = STRING
      OBVIOUS
    <3>2. p \in Seq(S) /\ name \in S
      BY <1>1, <3>1
    <3>3. /\ Append(p, name) \in Seq(S) /\ Append(p, name) # << >>
          /\ Len(Append(p, name)) = Len(p) + 1
          /\ \A i \in 1 .. Len(p) : Append(p, name)[i] = p[i]
          /\ Append(p, name)[Len(p) + 1] = name
      BY <3>2, AppendProperties
    <3>4. QED
      BY <3>1, <3>3
  <2>2. QED
    BY <1>3, <2>1, Zenon
<1>5. b[1] = p[1]
  BY <1>2, <1>4
<1>6. b \in Places
  BY <1>1, <1>4, <1>5 DEF Places
<1>7. Last(b) = name
  BY <1>4 DEF Last
<1>8. Front(b) = p
  <2>1. Front(b) = SubSeq(b, 1, Len(p))
    BY <1>2, <1>4 DEF Front
  <2>2. \A i \in 1 .. Len(p) : b[i] \in STRING
    BY <1>1, <1>2, <1>4, ElementOfSeq
  <2>3. /\ SubSeq(b, 1, Len(p)) \in Seq(STRING) /\ Len(SubSeq(b, 1, Len(p))) = Len(p)
        /\ \A i \in 1 .. Len(p) : SubSeq(b, 1, Len(p))[i] = b[i]
    <3>1. PICK n : n = Len(p)
      OBVIOUS
    <3>2. n \in Int /\ n >= 1 /\ 1 \in Int /\ n - 1 + 1 = n /\ \A i \in 1 .. n : 1 + i - 1 = i
      BY <1>2, <3>1
    <3>3. /\ SubSeq(b, 1, n) \in Seq(STRING) /\ Len(SubSeq(b, 1, n)) = n - 1 + 1
          /\ \A i \in 1 .. n - 1 + 1 : SubSeq(b, 1, n)[i] = b[1 + i - 1]
      BY <2>2, <3>1, <3>2, SubSeqProperties
    <3>4. QED
      BY <3>1, <3>2, <3>3
  <2>4. SubSeq(b, 1, Len(p)) = p
    BY <1>1, <1>4, <2>3, SeqEqual
  <2>5. QED
    BY <2>1, <2>4
<1>9. b \in Places /\ Len(b) = Len(p) + 1 /\ Len(b) > 1 /\ Last(b) = name /\ Front(b) = p
  BY <1>2, <1>4, <1>6, <1>7, <1>8
<1>10. QED
  BY <1>3, <1>9, Zenon

\* Several names further down.
LEMMA PlaceFarBelow ==
  ASSUME NEW p \in Places, NEW path \in Seq(STRING) PROVE p \o path \in Places
<1>1. p \in Seq(STRING) /\ p # << >> /\ p[1] \in DOMAIN Modules
  BY DEF Places
<1>2. Len(p) \in Nat \ {0} /\ Len(path) \in Nat
  BY <1>1, EmptySeq, LenProperties
<1>3. PICK b : b = p \o path
  OBVIOUS
<1>4. /\ b \in Seq(STRING) /\ Len(b) = Len(p) + Len(path)
      /\ \A i \in 1 .. Len(p) + Len(path) : b[i] = IF i <= Len(p) THEN p[i] ELSE path[i - Len(p)]
  BY <1>1, <1>3, ConcatProperties
<1>5. b[1] = p[1] /\ b # << >>
  BY <1>2, <1>4
<1>6. QED
  BY <1>1, <1>3, <1>4, <1>5 DEF Places

\* The root alone.
LEMMA RootPlace ==
  ASSUME NEW m \in DOMAIN Modules PROVE <<m>> \in Places /\ Len(<<m>>) = 1
BY ModulesAssumption DEF Places

-----------------------------------------------------------------------------
(* The invariant: nothing hangs in the air.                                *)

\* There is something at this place to hang a node on, or there will be.
Grounded(p, nodes, tasks) ==
  \/ Len(p) = 1
  \/ \E n \in nodes : n.place = p
  \/ \E k \in tasks : k.do = "make" /\ k.place = p

\* Every node's parent is in the tree or will be made, and so is the place that
\* statements are read for.
Hanging(nodes, tasks) ==
  /\ \A n \in nodes : Grounded(Front(n.place), nodes, tasks)
  /\ \A k \in tasks :
       /\ k.do \in {"expand", "augments"} => Len(k.place) = 1
       /\ k.do \in {"read", "refine"} => Grounded(k.place, nodes, tasks)
       /\ k.do = "make" => Grounded(Front(k.place), nodes, tasks)

TreeInvariant == TypeOK /\ Hanging(ToSet(tree), ToSet(todo))

\* What stays when a task is replaced by tasks that are themselves grounded.
LEMMA HangingPush ==
  ASSUME NEW nodes, NEW head, NEW rest, NEW new,
         Hanging(nodes, {head} \cup rest), head.do # "make",
         \A k \in new :
           /\ k.do \notin {"expand", "augments"}
           /\ k.do \in {"read", "refine"} => Grounded(k.place, nodes, new \cup {head} \cup rest)
           /\ k.do = "make" => Grounded(Front(k.place), nodes, new \cup {head} \cup rest)
  PROVE  Hanging(nodes, new \cup rest)
<1>1. ASSUME NEW p, Grounded(p, nodes, new \cup {head} \cup rest) PROVE Grounded(p, nodes, new \cup rest)
  BY <1>1 DEF Grounded
<1>2. ASSUME NEW p, Grounded(p, nodes, {head} \cup rest) PROVE Grounded(p, nodes, new \cup rest)
  BY <1>2 DEF Grounded
<1>3. \A n \in nodes : Grounded(Front(n.place), nodes, new \cup rest)
  BY <1>2 DEF Hanging
<1>4. ASSUME NEW k \in new \cup rest
      PROVE  /\ k.do \in {"expand", "augments"} => Len(k.place) = 1
             /\ k.do \in {"read", "refine"} => Grounded(k.place, nodes, new \cup rest)
             /\ k.do = "make" => Grounded(Front(k.place), nodes, new \cup rest)
  <2>1. CASE k \in new
    BY <1>1, <2>1
  <2>2. CASE k \in rest
    BY <1>2, <2>2 DEF Hanging
  <2>3. QED
    BY <2>1, <2>2
<1>5. QED
  BY <1>3, <1>4 DEF Hanging

\* What stays when a node is made.
LEMMA HangingMake ==
  ASSUME NEW nodes, NEW head, NEW rest, NEW node,
         Hanging(nodes, {head} \cup rest), head.do = "make", node.place = head.place
  PROVE  Hanging(nodes \cup {node}, rest)
<1>1. ASSUME NEW p, Grounded(p, nodes, {head} \cup rest) PROVE Grounded(p, nodes \cup {node}, rest)
  BY <1>1 DEF Grounded
<1>2. \A n \in nodes : Grounded(Front(n.place), nodes \cup {node}, rest)
  BY <1>1 DEF Hanging
<1>3. Grounded(Front(node.place), nodes \cup {node}, rest)
  BY <1>1 DEF Hanging
<1>4. \A k \in rest :
        /\ k.do \in {"expand", "augments"} => Len(k.place) = 1
        /\ k.do \in {"read", "refine"} => Grounded(k.place, nodes \cup {node}, rest)
        /\ k.do = "make" => Grounded(Front(k.place), nodes \cup {node}, rest)
  BY <1>1 DEF Hanging
<1>5. QED
  BY <1>2, <1>3, <1>4 DEF Hanging

-----------------------------------------------------------------------------
(* Tasks.                                                                  *)

\* A task is one if its parts are.
LEMMA TaskIs ==
  ASSUME NEW do, NEW whats, NEW m \in DOMAIN Modules, NEW p \in Places, NEW d \in Nat,
         NEW w \in whats
  PROVE  /\ Task(do, m, p, d, w) \in TasksOn(do, whats)
         /\ Task(do, m, p, d, w).do = do /\ Task(do, m, p, d, w).place = p
BY DEF Task, TasksOn

\* A sequence of tasks of one kind, about the elements of another sequence.
LEMMA TasksAbout ==
  ASSUME NEW do, NEW whats, NEW s \in Seq(whats), NEW m \in DOMAIN Modules,
         NEW p \in Places, NEW d \in Nat, TasksOn(do, whats) \subseteq Tasks
  PROVE  /\ [ i \in DOMAIN s |-> Task(do, m, p, d, s[i]) ] \in Seq(Tasks)
         /\ \A k \in ToSet([ i \in DOMAIN s |-> Task(do, m, p, d, s[i]) ]) :
              k.do = do /\ k.place = p
<1>1. Len(s) \in Nat /\ DOMAIN s = 1 .. Len(s) /\ \A i \in 1 .. Len(s) : s[i] \in whats
  BY LenProperties
<1>2. PICK t : t = [ i \in 1 .. Len(s) |-> Task(do, m, p, d, s[i]) ]
  OBVIOUS
<1>3. \A i \in 1 .. Len(s) : t[i] \in Tasks /\ t[i].do = do /\ t[i].place = p
  BY <1>1, <1>2, TaskIs
<1>4. t \in [1 .. Len(s) -> Tasks] /\ DOMAIN t = 1 .. Len(s)
  BY <1>2, <1>3
<1>5. t \in Seq(Tasks)
  BY <1>1, <1>4, SeqDef
<1>6. \A k \in ToSet(t) : k.do = do /\ k.place = p
  BY <1>3, <1>4 DEF ToSet
<1>7. QED
  BY <1>1, <1>2, <1>5, <1>6

\* What _expand lays out: statements of the one module, below the one place.
LEMMA ExpansionTasks ==
  ASSUME NEW m \in DOMAIN Modules, NEW body \in Seq(Statements), NEW p \in Places, NEW d \in Nat
  PROVE  /\ Expansion(m, body, p, d) \in Seq(Tasks)
         /\ \A k \in ToSet(Expansion(m, body, p, d)) : k.do = "read" /\ k.place = p
<1>1. CASE d > 40
  <2>1. Expansion(m, body, p, d) = << >>
    BY <1>1 DEF Expansion
  <2>2. << >> \in Seq(Tasks) /\ ToSet(<< >>) = {}
    BY DEF ToSet
  <2>3. QED
    BY <2>1, <2>2
<1>2. CASE ~(d > 40)
  <2>1. TasksOn("read", Statements) \subseteq Tasks
    BY DEF Tasks
  <2>2. PICK do : do = "read"
    OBVIOUS
  <2>3. Expansion(m, body, p, d) = [ i \in DOMAIN body |-> Task(do, m, p, d, body[i]) ]
    BY <1>2, <2>2 DEF Expansion
  <2>4. QED
    BY <2>1, <2>2, <2>3, TasksAbout
<1>3. QED
  BY <1>1, <1>2

\* No tasks, where there is nothing to do.
LEMMA NoTasks == << >> \in Seq(Tasks) /\ ToSet(<< >>) = {}
BY DEF ToSet

\* The next task, and the rest.
LEMMA NextTask ==
  ASSUME TreeInvariant, todo # << >>
  PROVE  /\ now \in Tasks /\ Tail(todo) \in Seq(Tasks)
         /\ ToSet(todo) = {now} \cup ToSet(Tail(todo))
         /\ now.module \in DOMAIN Modules /\ now.place \in Places /\ now.depth \in Nat
<1>1. todo \in Seq(Tasks)
  BY DEF TreeInvariant, TypeOK
<1>2. /\ Head(todo) \in Tasks /\ Tail(todo) \in Seq(Tasks)
      /\ ToSet(todo) = {Head(todo)} \cup ToSet(Tail(todo))
  BY <1>1, HeadAndRest
<1>3. \A k \in Tasks : k.module \in DOMAIN Modules /\ k.place \in Places /\ k.depth \in Nat
  BY DEF Tasks, TasksOn
<1>4. QED
  BY <1>2, <1>3 DEF now

\* What the next task is about.
LEMMA AboutTask ==
  ASSUME NEW k \in Tasks
  PROVE  /\ k.do = "augment" => k.what \in Augments
         /\ k.do = "read" => k.what \in Statements
         /\ k.do = "refine" => k.what \in Refinements
         /\ k.do = "make" =>
              k.what \in Statements /\ k.what.kw \in DATA_KEYWORDS /\ Len(k.place) > 1
BY DEF Tasks, TasksOn

\* Tasks that may take the place of the next one.
Following(tasks) ==
  /\ tasks \in Seq(Tasks)
  /\ \A k \in ToSet(tasks) :
       /\ k.do \notin {"expand", "augments"}
       /\ k.do \in {"read", "refine"} =>
            Grounded(k.place, ToSet(tree), ToSet(tasks) \cup {now} \cup ToSet(Tail(todo)))
       /\ k.do = "make" =>
            Grounded(Front(k.place), ToSet(tree), ToSet(tasks) \cup {now} \cup ToSet(Tail(todo)))

\* Putting such tasks first keeps the invariant.
LEMMA ThenKeeps ==
  ASSUME TreeInvariant, todo # << >>, now.do # "make", NEW tasks, Following(tasks), Then(tasks)
  PROVE  TreeInvariant'
<1>1. /\ now \in Tasks /\ Tail(todo) \in Seq(Tasks)
      /\ ToSet(todo) = {now} \cup ToSet(Tail(todo))
  BY NextTask
<1>2. todo' = tasks \o Tail(todo) /\ order' = order /\ tree' = tree
  BY DEF Then
<1>3. tasks \o Tail(todo) \in Seq(Tasks)
      /\ ToSet(tasks \o Tail(todo)) = ToSet(tasks) \cup ToSet(Tail(todo))
  <2>1. PICK S : S = Tasks
    OBVIOUS
  <2>2. PICK new, rest : new = tasks /\ rest = Tail(todo)
    OBVIOUS
  <2>3. new \in Seq(S) /\ rest \in Seq(S)
    BY <1>1, <2>1, <2>2 DEF Following
  <2>4. new \o rest \in Seq(S) /\ ToSet(new \o rest) = ToSet(new) \cup ToSet(rest)
    BY <2>3, SetOfConcat
  <2>5. QED
    BY <2>1, <2>2, <2>4
<1>4. TypeOK'
  BY <1>2, <1>3 DEF TreeInvariant, TypeOK
<1>5. PICK nodes, head, rest, new :
        nodes = ToSet(tree) /\ head = now /\ rest = ToSet(Tail(todo)) /\ new = ToSet(tasks)
  OBVIOUS
<1>6. Hanging(nodes, {head} \cup rest)
  BY <1>1, <1>5 DEF TreeInvariant
<1>7. Hanging(nodes, new \cup rest)
  <2>1. \A k \in new :
           /\ k.do \notin {"expand", "augments"}
           /\ k.do \in {"read", "refine"} => Grounded(k.place, nodes, new \cup {head} \cup rest)
           /\ k.do = "make" => Grounded(Front(k.place), nodes, new \cup {head} \cup rest)
    BY <1>5 DEF Following
  <2>2. head.do # "make"
    BY <1>5
  <2>3. QED
    BY <1>6, <2>1, <2>2, HangingPush
<1>8. ToSet(tree') = nodes /\ ToSet(todo') = new \cup rest
  BY <1>2, <1>3, <1>5
<1>9. QED
  BY <1>4, <1>7, <1>8 DEF TreeInvariant

\* Statements read at a place that is grounded may follow.
LEMMA ExpansionFollows ==
  ASSUME NEW m \in DOMAIN Modules, NEW body \in Seq(Statements), NEW p \in Places, NEW d \in Nat,
         Grounded(p, ToSet(tree), {now} \cup ToSet(Tail(todo)))
  PROVE  Following(Expansion(m, body, p, d))
<1>1. PICK tasks : tasks = Expansion(m, body, p, d)
  OBVIOUS
<1>2. tasks \in Seq(Tasks) /\ \A k \in ToSet(tasks) : k.do = "read" /\ k.place = p
  BY <1>1, ExpansionTasks
<1>3. Grounded(p, ToSet(tree), ToSet(tasks) \cup {now} \cup ToSet(Tail(todo)))
  BY DEF Grounded
<1>4. QED
  BY <1>1, <1>2, <1>3 DEF Following

\* So may no tasks at all.
LEMMA NothingFollows == Following(<< >>)
BY NoTasks DEF Following

\* So may tasks that follow alone, one after another.
LEMMA FollowingBoth ==
  ASSUME NEW s, NEW t, Following(s), Following(t) PROVE Following(s \o t)
<1>1. s \o t \in Seq(Tasks) /\ ToSet(s \o t) = ToSet(s) \cup ToSet(t)
  <2>1. PICK S : S = Tasks
    OBVIOUS
  <2>2. s \in Seq(S) /\ t \in Seq(S)
    BY <2>1 DEF Following
  <2>3. QED
    BY <2>1, <2>2, SetOfConcat
<1>2. PICK some, others, both, after :
        /\ some = ToSet(s) /\ others = ToSet(t) /\ both = ToSet(s \o t)
        /\ after = {now} \cup ToSet(Tail(todo))
  OBVIOUS
<1>3. both = some \cup others
  BY <1>1, <1>2
<1>4. ASSUME NEW p, Grounded(p, ToSet(tree), some \cup after) PROVE Grounded(p, ToSet(tree), both \cup after)
  BY <1>3, <1>4 DEF Grounded
<1>5. ASSUME NEW p, Grounded(p, ToSet(tree), others \cup after) PROVE Grounded(p, ToSet(tree), both \cup after)
  BY <1>3, <1>5 DEF Grounded
<1>6. ASSUME NEW k \in both
      PROVE  /\ k.do \notin {"expand", "augments"}
             /\ k.do \in {"read", "refine"} => Grounded(k.place, ToSet(tree), both \cup after)
             /\ k.do = "make" => Grounded(Front(k.place), ToSet(tree), both \cup after)
  <2>1. some \cup {now} \cup ToSet(Tail(todo)) = some \cup after
        /\ others \cup {now} \cup ToSet(Tail(todo)) = others \cup after
    BY <1>2
  <2>2. CASE k \in some
    BY <1>2, <1>4, <2>1, <2>2 DEF Following
  <2>3. CASE k \in others
    BY <1>2, <1>5, <2>1, <2>3 DEF Following
  <2>4. QED
    BY <1>3, <2>2, <2>3
<1>7. both \cup {now} \cup ToSet(Tail(todo)) = both \cup after
  BY <1>2
<1>8. QED
  BY <1>1, <1>2, <1>6, <1>7 DEF Following

\* The place the next task is about is grounded.
LEMMA GroundedNow ==
  ASSUME TreeInvariant, todo # << >>, now.do \in {"expand", "read", "refine"}
  PROVE  Grounded(now.place, ToSet(tree), {now} \cup ToSet(Tail(todo)))
<1>1. ToSet(todo) = {now} \cup ToSet(Tail(todo)) /\ now \in ToSet(todo)
  BY NextTask
<1>2. CASE now.do = "expand"
  <2>1. Len(now.place) = 1
    BY <1>1, <1>2 DEF TreeInvariant, Hanging
  <2>2. QED
    BY <2>1 DEF Grounded
<1>3. CASE now.do \in {"read", "refine"}
  BY <1>1, <1>3 DEF TreeInvariant, Hanging
<1>4. QED
  BY <1>2, <1>3

\* A place where there is a node is grounded.
LEMMA GroundedAt ==
  ASSUME NEW n \in ToSet(tree), NEW tasks PROVE Grounded(n.place, ToSet(tree), tasks)
BY DEF Grounded

-----------------------------------------------------------------------------
(* One lemma per action.                                                   *)

\* A module's own statements are read at its root.
LEMMA ExpandModuleKeeps == ASSUME TreeInvariant, ExpandModule PROVE TreeInvariant'
<1>1. todo # << >> /\ now.do = "expand"
  BY DEF ExpandModule, Doing
<1>2. now.module \in DOMAIN Modules /\ now.place \in Places
  BY <1>1, NextTask
<1>3. PICK m, p : m = now.module /\ p = now.place
  OBVIOUS
<1>4. PICK tasks :
        tasks = IF Modules[m].kind = "module" THEN Expansion(m, Modules[m].body, p, 0) ELSE << >>
  OBVIOUS
<1>5. Then(tasks)
  BY <1>3, <1>4 DEF ExpandModule, Then
<1>6. Following(tasks)
  <2>1. Modules[m].body \in Seq(Statements)
    BY <1>2, <1>3, ModulesAssumption
  <2>2. Grounded(p, ToSet(tree), {now} \cup ToSet(Tail(todo)))
    BY <1>1, <1>3, GroundedNow
  <2>3. Following(Expansion(m, Modules[m].body, p, 0))
    BY <1>2, <1>3, <2>1, <2>2, ExpansionFollows
  <2>4. QED
    BY <1>4, <2>3, NothingFollows
<1>7. QED
  BY <1>1, <1>5, <1>6, ThenKeeps

\* A module's augments are listed.
LEMMA ListAugmentsKeeps == ASSUME TreeInvariant, ListAugments PROVE TreeInvariant'
<1>1. todo # << >> /\ now.do = "augments"
  BY DEF ListAugments, Doing
<1>2. now.module \in DOMAIN Modules /\ now.place \in Places
  BY <1>1, NextTask
<1>3. PICK m, p, do : m = now.module /\ p = now.place /\ do = "augment"
  OBVIOUS
<1>4. PICK augments : augments = Modules[m].augments
  OBVIOUS
<1>5. PICK tasks : tasks = [ i \in DOMAIN augments |-> Task(do, m, p, 0, augments[i]) ]
  OBVIOUS
<1>6. Then(tasks)
  BY <1>3, <1>4, <1>5 DEF ListAugments, Then
<1>7. Following(tasks)
  <2>1. augments \in Seq(Augments)
    BY <1>2, <1>3, <1>4, ModulesAssumption
  <2>2. TasksOn(do, Augments) \subseteq Tasks
    BY <1>3 DEF Tasks
  <2>3. tasks \in Seq(Tasks) /\ \A k \in ToSet(tasks) : k.do = do /\ k.place = p
    BY <1>2, <1>3, <1>5, <2>1, <2>2, TasksAbout
  <2>4. QED
    BY <1>3, <2>3 DEF Following
<1>8. QED
  BY <1>1, <1>6, <1>7, ThenKeeps

\* The target of an augment is a node of the tree.
LEMMA TargetsAreNodes ==
  ASSUME NEW t, NEW m, NEW path PROVE Target(t, m, path) \subseteq ToSet(t)
BY DEF Target, At

\* What an augment adds is read at a node.
LEMMA AugmentKeeps == ASSUME TreeInvariant, Augment PROVE TreeInvariant'
<1>1. todo # << >> /\ now.do = "augment"
  BY DEF Augment, Doing
<1>2. now.module \in DOMAIN Modules /\ now \in Tasks /\ now.what \in Augments
  BY <1>1, NextTask, AboutTask
<1>3. PICK m, body : m = now.module /\ body = now.what.body
  OBVIOUS
<1>4. \/ Then(<< >>)
      \/ \E n \in Target(tree, now.module, now.what.path) : Then(Expansion(m, body, n.place, 0))
  BY <1>3 DEF Augment, Then
<1>5. CASE Then(<< >>)
  BY <1>1, <1>5, NothingFollows, ThenKeeps
<1>6. ASSUME NEW n \in Target(tree, now.module, now.what.path), Then(Expansion(m, body, n.place, 0))
      PROVE  TreeInvariant'
  <2>1. n \in ToSet(tree)
    BY <1>6, TargetsAreNodes
  <2>2. n.place \in Places
    BY <2>1, SetOfSeq DEF TreeInvariant, TypeOK, Nodes
  <2>3. Grounded(n.place, ToSet(tree), {now} \cup ToSet(Tail(todo)))
    BY <2>1, GroundedAt
  <2>4. body \in Seq(Statements)
    BY <1>2, <1>3 DEF Augments
  <2>5. Following(Expansion(m, body, n.place, 0))
    BY <1>2, <1>3, <2>2, <2>3, <2>4, ExpansionFollows
  <2>6. PICK tasks : tasks = Expansion(m, body, n.place, 0)
    OBVIOUS
  <2>7. Following(tasks)
    BY <2>5, <2>6
  <2>8. Then(tasks)
    BY <1>6, <2>6
  <2>9. QED
    BY <1>1, <2>7, <2>8, ThenKeeps
<1>7. QED
  BY <1>4, <1>5, <1>6

\* Where a grouping is found there is one.
LEMMA HomeHolds ==
  ASSUME NEW m \in DOMAIN Modules, NEW ref, Holding(m, ref) # {}
  PROVE  LET home == Homes(m, ref)[Min(Holding(m, ref))]
         IN  home \in DOMAIN Modules /\ Modules[home].groupings[ref[2]] \in Seq(Statements)
<1>1. IsFiniteSet(DOMAIN Homes(m, ref)) /\ DOMAIN Homes(m, ref) \subseteq Int
  <2>1. PICK n \in Nat : DOMAIN Homes(m, ref) = 1 .. n
    <3>1. CASE ref[1] = ""
      <4>1. <<m>> \in Seq(STRING) /\ Modules[m].includes \in Seq(STRING)
        BY ModulesAssumption
      <4>2. PICK own, more : own = <<m>> /\ more = Modules[m].includes
        OBVIOUS
      <4>3. own \o more \in Seq(STRING)
        BY <4>1, <4>2, ConcatProperties
      <4>4. Homes(m, ref) = own \o more
        BY <3>1, <4>2 DEF Homes
      <4>5. QED
        BY <4>3, <4>4, LenProperties
    <3>2. CASE ref[1] # "" /\ ref[1] \in DOMAIN Imports[m]
      <4>1. Homes(m, ref) = << Imports[m][ref[1]] >>
        BY <3>2 DEF Homes
      <4>2. DOMAIN << Imports[m][ref[1]] >> = 1 .. 1
        OBVIOUS
      <4>3. QED
        BY <4>1, <4>2
    <3>3. CASE ref[1] # "" /\ ref[1] \notin DOMAIN Imports[m]
      <4>1. Homes(m, ref) = << >>
        BY <3>3, Zenon DEF Homes
      <4>2. DOMAIN << >> = 1 .. 0
        OBVIOUS
      <4>3. QED
        BY <4>1, <4>2
    <3>4. QED
      BY <3>1, <3>2, <3>3
  <2>2. QED
    BY <2>1, FS_Interval
<1>2. PICK holding : holding = Holding(m, ref)
  OBVIOUS
<1>3. IsFiniteSet(holding) /\ holding \subseteq Int /\ holding # {}
  <2>1. holding \subseteq DOMAIN Homes(m, ref) /\ holding # {}
    BY <1>2 DEF Holding
  <2>2. QED
    BY <1>1, <2>1, FS_Subset
<1>4. Min(holding) \in holding
  BY <1>3, LeastInteger DEF Min
<1>5. PICK i : i = Min(holding)
  OBVIOUS
<1>6. Homes(m, ref)[i] \in DOMAIN Modules /\ ref[2] \in DOMAIN Modules[Homes(m, ref)[i]].groupings
  BY <1>2, <1>4, <1>5 DEF Holding
<1>7. Modules[Homes(m, ref)[i]].groupings[ref[2]] \in Seq(Statements)
  BY <1>6, ModulesAssumption
<1>8. QED
  BY <1>2, <1>5, <1>6, <1>7

\* A uses: what its grouping says is read at the same place, and so is, later,
\* what refines it.
LEMMA UseKeeps == ASSUME TreeInvariant, Use PROVE TreeInvariant'
<1>1. todo # << >> /\ now.do = "read" /\ now.what.kw = "uses"
  BY DEF Use, Reading, Doing
<1>2. now.module \in DOMAIN Modules /\ now.place \in Places /\ now.depth \in Nat /\ now.what \in Statements
  BY <1>1, NextTask, AboutTask
<1>3. PICK m, p, d, ref, more, do :
        /\ m = now.module /\ p = now.place /\ d = now.depth
        /\ ref = now.what.arg /\ more = now.what.augments /\ do = "refine"
  OBVIOUS
<1>4. PICK holding, home : holding = Holding(m, ref) /\ home = Homes(m, ref)[Min(holding)]
  OBVIOUS
<1>5. PICK first :
        first = IF holding = {} THEN << >>
                ELSE Expansion(home, Modules[home].groupings[ref[2]], p, d + 1)
  OBVIOUS
<1>6. PICK second : second = [ i \in DOMAIN more |-> Task(do, m, p, d, more[i]) ]
  OBVIOUS
<1>7. Then(first \o second)
  BY <1>3, <1>4, <1>5, <1>6 DEF Use, Then
<1>8. Grounded(p, ToSet(tree), {now} \cup ToSet(Tail(todo)))
  BY <1>1, <1>3, GroundedNow
<1>9. Following(first)
  <2>1. CASE holding = {}
    BY <1>5, <2>1, NothingFollows
  <2>2. CASE holding # {}
    <3>1. home \in DOMAIN Modules /\ Modules[home].groupings[ref[2]] \in Seq(Statements)
      BY <1>2, <1>3, <1>4, <2>2, HomeHolds
    <3>2. p \in Places /\ d + 1 \in Nat
      BY <1>2, <1>3
    <3>3. Following(Expansion(home, Modules[home].groupings[ref[2]], p, d + 1))
      BY <1>8, <3>1, <3>2, ExpansionFollows
    <3>4. QED
      BY <1>5, <2>2, <3>3
  <2>3. QED
    BY <2>1, <2>2
<1>10. Following(second)
  <2>1. more \in Seq(Refinements)
    BY <1>1, <1>2, <1>3, StatementsAssumption
  <2>2. TasksOn(do, Refinements) \subseteq Tasks
    BY <1>3 DEF Tasks
  <2>3. second \in Seq(Tasks) /\ \A k \in ToSet(second) : k.do = do /\ k.place = p
    <3>1. m \in DOMAIN Modules /\ p \in Places /\ d \in Nat
      BY <1>2, <1>3
    <3>2. QED
      BY <1>6, <2>1, <2>2, <3>1, TasksAbout
  <2>4. Grounded(p, ToSet(tree), ToSet(second) \cup {now} \cup ToSet(Tail(todo)))
    BY <1>8 DEF Grounded
  <2>5. QED
    BY <1>3, <2>3, <2>4 DEF Following
<1>11. PICK tasks : tasks = first \o second
  OBVIOUS
<1>12. Following(tasks) /\ Then(tasks)
  BY <1>7, <1>9, <1>10, <1>11, FollowingBoth
<1>13. QED
  BY <1>1, <1>12, ThenKeeps

\* What refines a uses is read where there is a node.
LEMMA RefineKeeps == ASSUME TreeInvariant, Refine PROVE TreeInvariant'
<1>1. todo # << >> /\ now.do = "refine"
  BY DEF Refine, Doing
<1>2. /\ now.module \in DOMAIN Modules /\ now.place \in Places /\ now.depth \in Nat
      /\ now.what \in Refinements
  BY <1>1, NextTask, AboutTask
<1>3. PICK m, p, d, body :
        m = now.module /\ p = now.place \o now.what.path /\ d = now.depth + 1 /\ body = now.what.body
  OBVIOUS
<1>4. PICK tasks : tasks = IF At(tree, p) = {} THEN << >> ELSE Expansion(m, body, p, d)
  OBVIOUS
<1>5. Then(tasks)
  BY <1>3, <1>4 DEF Refine, Then
<1>6. Following(tasks)
  <2>1. CASE At(tree, p) = {}
    BY <1>4, <2>1, NothingFollows
  <2>2. CASE At(tree, p) # {}
    <3>1. PICK n \in ToSet(tree) : n.place = p
      BY <2>2 DEF At
    <3>2. Grounded(p, ToSet(tree), {now} \cup ToSet(Tail(todo)))
      BY <3>1, GroundedAt
    <3>3. now.what.path \in Seq(STRING) /\ body \in Seq(Statements)
      BY <1>2, <1>3 DEF Refinements
    <3>4. m \in DOMAIN Modules /\ p \in Places /\ d \in Nat
      BY <1>2, <1>3, <3>3, PlaceFarBelow
    <3>5. Following(Expansion(m, body, p, d))
      BY <3>2, <3>3, <3>4, ExpansionFollows
    <3>6. QED
      BY <1>4, <2>2, <3>5
  <2>3. QED
    BY <2>1, <2>2
<1>7. QED
  BY <1>1, <1>5, <1>6, ThenKeeps

\* A choice or a case: its statements are read at the same place.
LEMMA DescendKeeps == ASSUME TreeInvariant, Descend PROVE TreeInvariant'
<1>1. todo # << >> /\ now.do = "read"
  BY DEF Descend, Reading, Doing
<1>2. /\ now.module \in DOMAIN Modules /\ now.place \in Places /\ now.depth \in Nat
      /\ now.what \in Statements
  BY <1>1, NextTask, AboutTask
<1>3. PICK m, p, d, body :
        m = now.module /\ p = now.place /\ d = now.depth + 1 /\ body = now.what.body
  OBVIOUS
<1>4. PICK tasks : tasks = Expansion(m, body, p, d)
  OBVIOUS
<1>5. Then(tasks)
  BY <1>3, <1>4 DEF Descend, Then
<1>6. Following(tasks)
  <2>1. Grounded(p, ToSet(tree), {now} \cup ToSet(Tail(todo)))
    BY <1>1, <1>3, GroundedNow
  <2>2. m \in DOMAIN Modules /\ p \in Places /\ d \in Nat /\ body \in Seq(Statements)
    BY <1>2, <1>3, StatementsAssumption
  <2>3. QED
    BY <1>4, <2>1, <2>2, ExpansionFollows
<1>7. QED
  BY <1>1, <1>5, <1>6, ThenKeeps

\* A data node: its statements are read one name further down, where it will be
\* made when they are done.
LEMMA EnterKeeps == ASSUME TreeInvariant, Enter PROVE TreeInvariant'
<1>1. todo # << >> /\ now.do = "read" /\ now.what.kw \in DATA_KEYWORDS
  BY DEF Enter, Reading, Doing
<1>2. /\ now.module \in DOMAIN Modules /\ now.place \in Places /\ now.depth \in Nat
      /\ now.what \in Statements
  BY <1>1, NextTask, AboutTask
<1>3. PICK m, p, d, st, place, do :
        /\ m = now.module /\ p = now.place /\ d = now.depth /\ st = now.what
        /\ place = Append(now.place, now.what.arg) /\ do = "make"
  OBVIOUS
<1>4. PICK reads : reads = Expansion(m, Inside(st), place, d + 1)
  OBVIOUS
<1>5. PICK make : make = Task(do, m, place, d, st)
  OBVIOUS
<1>6. PICK tasks : tasks = Append(reads, make)
  OBVIOUS
<1>7. Then(tasks)
  BY <1>3, <1>4, <1>5, <1>6 DEF Enter, Then
<1>8. m \in DOMAIN Modules /\ p \in Places /\ d \in Nat /\ d + 1 \in Nat /\ st \in Statements
  BY <1>2, <1>3
<1>9. /\ place \in Places /\ Len(place) > 1 /\ Front(place) = p
  BY <1>1, <1>2, <1>3, PlaceBelow, StatementsAssumption
<1>10. Following(tasks)
  <2>1. reads \in Seq(Tasks) /\ \A k \in ToSet(reads) : k.do = "read" /\ k.place = place
    <3>1. PICK body, deeper : body = Inside(st) /\ deeper = d + 1
      OBVIOUS
    <3>2. body \in Seq(Statements) /\ deeper \in Nat
      BY <1>8, <3>1, StatementsAssumption DEF Inside
    <3>3. reads = Expansion(m, body, place, deeper)
      BY <1>4, <3>1
    <3>4. QED
      BY <1>8, <1>9, <3>2, <3>3, ExpansionTasks
  <2>2. make \in Tasks /\ make.do = "make" /\ make.place = place
    <3>1. make \in TasksOn(do, Statements) /\ make.do = do /\ make.place = place
      BY <1>5, <1>8, <1>9, TaskIs
    <3>2. make.what.kw \in DATA_KEYWORDS
      BY <1>1, <1>3, <1>5 DEF Task
    <3>3. QED
      BY <1>3, <1>9, <3>1, <3>2 DEF Tasks
  <2>3. tasks \in Seq(Tasks) /\ ToSet(tasks) = ToSet(reads) \cup {make}
    BY <1>6, <2>1, <2>2, SetOfAppend
  <2>4. Grounded(place, ToSet(tree), ToSet(tasks) \cup {now} \cup ToSet(Tail(todo)))
    BY <2>2, <2>3 DEF Grounded
  <2>5. Grounded(Front(place), ToSet(tree), ToSet(tasks) \cup {now} \cup ToSet(Tail(todo)))
    <3>1. Grounded(p, ToSet(tree), {now} \cup ToSet(Tail(todo)))
      BY <1>1, <1>3, GroundedNow
    <3>2. QED
      BY <1>9, <3>1 DEF Grounded
  <2>6. QED
    BY <2>1, <2>2, <2>3, <2>4, <2>5 DEF Following
<1>11. QED
  BY <1>1, <1>7, <1>10, ThenKeeps

\* A node is made where its task says.
LEMMA MakeKeeps == ASSUME TreeInvariant, Make PROVE TreeInvariant'
<1>1. todo # << >> /\ now.do = "make"
  BY DEF Make, Doing
<1>2. /\ now \in Tasks /\ now.module \in DOMAIN Modules /\ now.place \in Places
      /\ now.what \in Statements /\ now.what.kw \in DATA_KEYWORDS /\ Len(now.place) > 1
      /\ Tail(todo) \in Seq(Tasks) /\ ToSet(todo) = {now} \cup ToSet(Tail(todo))
  BY <1>1, NextTask, AboutTask
<1>3. PICK node : node = [ place |-> now.place, module |-> now.module,
                           kw |-> now.what.kw, keys |-> now.what.keys ]
  OBVIOUS
<1>4. tree' = Append(tree, node) /\ todo' = Tail(todo) /\ order' = order
  BY <1>3 DEF Make
<1>5. node \in Nodes /\ node.place = now.place
  BY <1>2, <1>3, StatementsAssumption DEF Nodes
<1>6. Append(tree, node) \in Seq(Nodes) /\ ToSet(Append(tree, node)) = ToSet(tree) \cup {node}
  <2>1. PICK S : S = Nodes
    OBVIOUS
  <2>2. tree \in Seq(S) /\ node \in S
    BY <1>5, <2>1 DEF TreeInvariant, TypeOK
  <2>3. QED
    BY <2>1, <2>2, SetOfAppend
<1>7. TypeOK'
  BY <1>2, <1>4, <1>6 DEF TreeInvariant, TypeOK
<1>8. PICK nodes, head, rest : nodes = ToSet(tree) /\ head = now /\ rest = ToSet(Tail(todo))
  OBVIOUS
<1>9. Hanging(nodes, {head} \cup rest)
  BY <1>2, <1>8 DEF TreeInvariant
<1>10. Hanging(nodes \cup {node}, rest)
  BY <1>1, <1>5, <1>8, <1>9, HangingMake
<1>11. ToSet(tree') = nodes \cup {node} /\ ToSet(todo') = rest
  BY <1>4, <1>6, <1>8
<1>12. QED
  BY <1>7, <1>10, <1>11 DEF TreeInvariant

\* The agenda is well formed from the start.
LEMMA InitTree == Init => TreeInvariant
<1>1. SUFFICES ASSUME Init PROVE TreeInvariant
  OBVIOUS
<1>2. PICK o : o = order
  OBVIOUS
<1>3. o \in Orders /\ o \in Seq(DOMAIN Modules) /\ Len(o) \in Nat
      /\ \A i \in 1 .. Len(o) : o[i] \in DOMAIN Modules
  BY <1>1, <1>2, ModulesAssumption DEF Init
<1>4. PICK t : t = Agenda(o)
  OBVIOUS
<1>5. DOMAIN t = 1 .. 2 * Len(o)
  BY <1>4 DEF Agenda
<1>6. ASSUME NEW i \in 1 .. 2 * Len(o)
      PROVE  t[i] \in Tasks /\ t[i].do \in {"expand", "augments"} /\ Len(t[i].place) = 1
  <2>1. PICK do, j : /\ do = IF i <= Len(o) THEN "expand" ELSE "augments"
                     /\ j = IF i <= Len(o) THEN i ELSE i - Len(o)
    OBVIOUS
  <2>2. j \in 1 .. Len(o)
    BY <1>3, <2>1
  <2>3. t[i] = Task(do, o[j], <<o[j]>>, 0, << >>)
    BY <1>4, <2>1 DEF Agenda
  <2>4. PICK m : m = o[j]
    OBVIOUS
  <2>5. m \in DOMAIN Modules /\ <<m>> \in Places /\ Len(<<m>>) = 1
    BY <1>3, <2>2, <2>4, RootPlace
  <2>6. t[i] \in TasksOn(do, {<< >>}) /\ t[i].do = do /\ t[i].place = <<m>>
    <3>1. PICK w, whats, p, d : w = << >> /\ whats = {<< >>} /\ p = <<m>> /\ d = 0
      OBVIOUS
    <3>2. w \in whats /\ p \in Places /\ d \in Nat
      BY <2>5, <3>1
    <3>3. t[i] = Task(do, m, p, d, w)
      BY <2>3, <2>4, <3>1
    <3>4. t[i] \in TasksOn(do, whats) /\ t[i].do = do /\ t[i].place = p
      BY <2>5, <3>2, <3>3, TaskIs
    <3>5. QED
      BY <3>1, <3>4
  <2>7. do \in {"expand", "augments"} /\ TasksOn(do, {<< >>}) \subseteq Tasks
    BY <2>1 DEF Tasks
  <2>8. QED
    BY <2>5, <2>6, <2>7
<1>7. t \in Seq(Tasks)
  <2>1. t = [ i \in 1 .. 2 * Len(o) |-> t[i] ]
    BY <1>4 DEF Agenda
  <2>2. t \in [1 .. 2 * Len(o) -> Tasks]
    BY <1>6, <2>1
  <2>3. 2 * Len(o) \in Nat
    BY <1>3
  <2>4. QED
    BY <2>2, <2>3, SeqDef
<1>8. \A k \in ToSet(t) : k.do \in {"expand", "augments"} /\ Len(k.place) = 1
  BY <1>5, <1>6 DEF ToSet
<1>9. todo = t /\ tree = << >> /\ order \in Orders
  BY <1>1, <1>2, <1>4 DEF Init
<1>10. ToSet(tree) = {} /\ tree \in Seq(Nodes)
  BY <1>9 DEF ToSet
<1>11. Hanging(ToSet(tree), ToSet(todo))
  BY <1>8, <1>9, <1>10 DEF Hanging
<1>12. QED
  BY <1>7, <1>9, <1>10, <1>11 DEF TreeInvariant, TypeOK

\* While the modules are resolved every node hangs on its parent: the parent is
\* in the tree, or it is the root, or its own statement is still to be finished.
THEOREM TreeCorrect == Spec => []TreeInvariant
<1>1. Init => TreeInvariant
  BY InitTree
<1>2. TreeInvariant /\ [Next]_vars => TreeInvariant'
  <2>1. SUFFICES ASSUME TreeInvariant, [Next]_vars PROVE TreeInvariant'
    OBVIOUS
  <2>2. CASE ExpandModule
    BY <2>1, <2>2, ExpandModuleKeeps
  <2>3. CASE ListAugments
    BY <2>1, <2>3, ListAugmentsKeeps
  <2>4. CASE Augment
    BY <2>1, <2>4, AugmentKeeps
  <2>5. CASE Use
    BY <2>1, <2>5, UseKeeps
  <2>6. CASE Refine
    BY <2>1, <2>6, RefineKeeps
  <2>7. CASE Descend
    BY <2>1, <2>7, DescendKeeps
  <2>8. CASE Enter
    BY <2>1, <2>8, EnterKeeps
  <2>9. CASE Make
    BY <2>1, <2>9, MakeKeeps
  <2>10. CASE UNCHANGED vars
    BY <2>1, <2>10 DEF vars, TreeInvariant, TypeOK
  <2>11. QED
    BY <2>1, <2>2, <2>3, <2>4, <2>5, <2>6, <2>7, <2>8, <2>9, <2>10 DEF Next
<1>3. QED
  BY <1>1, <1>2, PTL DEF Spec

\* The types of the tree and of the agenda, at every step.
THEOREM TreeTypeCorrect == Spec => []TypeOK
<1>1. TreeInvariant => TypeOK
  BY DEF TreeInvariant
<1>2. QED
  BY <1>1, TreeCorrect, PTL

-----------------------------------------------------------------------------
(* The first names of a place.                                             *)

\* What the first k elements are.
LEMMA PrefixIs ==
  ASSUME NEW S, NEW p \in Seq(S), NEW k \in 1 .. Len(p)
  PROVE  /\ SubSeq(p, 1, k) \in Seq(S) /\ Len(SubSeq(p, 1, k)) = k
         /\ \A i \in 1 .. k : SubSeq(p, 1, k)[i] = p[i]
<1>1. Len(p) \in Nat /\ k \in Int /\ k >= 1 /\ 1 \in Int /\ k - 1 + 1 = k
      /\ \A i \in 1 .. k : 1 + i - 1 = i /\ p[i] \in S
  BY LenProperties, ElementOfSeq
<1>2. /\ SubSeq(p, 1, k) \in Seq(S) /\ Len(SubSeq(p, 1, k)) = k - 1 + 1
      /\ \A i \in 1 .. k - 1 + 1 : SubSeq(p, 1, k)[i] = p[1 + i - 1]
  <2>1. \A i \in 1 .. k : p[i] \in S
    BY <1>1
  <2>2. QED
    BY <1>1, <2>1, SubSeqProperties
<1>3. QED
  BY <1>1, <1>2

\* One more of them.
LEMMA PrefixNext ==
  ASSUME NEW S, NEW p \in Seq(S), NEW k \in 1 .. Len(p), k + 1 <= Len(p)
  PROVE  Append(SubSeq(p, 1, k), p[k + 1]) = SubSeq(p, 1, k + 1)
<1>1. Len(p) \in Nat /\ k + 1 \in 1 .. Len(p) /\ p[k + 1] \in S
  BY LenProperties, ElementOfSeq
<1>2. PICK a, b, c : a = SubSeq(p, 1, k) /\ b = Append(a, p[k + 1]) /\ c = SubSeq(p, 1, k + 1)
  OBVIOUS
<1>3. a \in Seq(S) /\ Len(a) = k /\ \A i \in 1 .. k : a[i] = p[i]
  BY <1>2, PrefixIs
<1>4. c \in Seq(S) /\ Len(c) = k + 1 /\ \A i \in 1 .. k + 1 : c[i] = p[i]
  BY <1>1, <1>2, PrefixIs
<1>5. b \in Seq(S) /\ Len(b) = k + 1 /\ (\A i \in 1 .. k : b[i] = a[i]) /\ b[k + 1] = p[k + 1]
  BY <1>1, <1>2, <1>3, AppendProperties
<1>6. ASSUME NEW i \in 1 .. Len(b) PROVE b[i] = c[i]
  <2>1. i \in 1 .. k + 1 /\ (i = k + 1 \/ i \in 1 .. k)
    BY <1>1, <1>5
  <2>2. CASE i = k + 1
    BY <1>4, <1>5, <2>1, <2>2, Zenon
  <2>3. CASE i \in 1 .. k
    BY <1>3, <1>4, <1>5, <2>1, <2>3, Zenon
  <2>4. QED
    BY <2>1, <2>2, <2>3
<1>7. b = c
  BY <1>4, <1>5, <1>6, SeqEqual
<1>8. QED
  BY <1>2, <1>7, Zenon

\* All but the last of them.
LEMMA PrefixFront ==
  ASSUME NEW S, NEW p \in Seq(S), NEW k \in 1 .. Len(p), k >= 2
  PROVE  Front(SubSeq(p, 1, k)) = SubSeq(p, 1, k - 1)
<1>1. Len(p) \in Nat /\ k - 1 \in 1 .. Len(p)
  BY LenProperties
<1>2. PICK a : a = SubSeq(p, 1, k)
  OBVIOUS
<1>3. a \in Seq(S) /\ Len(a) = k /\ \A i \in 1 .. k : a[i] = p[i]
  BY <1>2, PrefixIs
<1>4. Front(a) = SubSeq(a, 1, k - 1)
  BY <1>3 DEF Front
<1>5. PICK b, c, m : b = SubSeq(a, 1, k - 1) /\ c = SubSeq(p, 1, k - 1) /\ m = k - 1
  OBVIOUS
<1>6. b \in Seq(S) /\ Len(b) = m /\ \A i \in 1 .. m : b[i] = a[i]
  <2>1. m \in 1 .. Len(a)
    BY <1>1, <1>3, <1>5
  <2>2. b = SubSeq(a, 1, m)
    BY <1>5
  <2>3. QED
    BY <1>3, <2>1, <2>2, PrefixIs
<1>7. c \in Seq(S) /\ Len(c) = m /\ \A i \in 1 .. m : c[i] = p[i]
  <2>1. m \in 1 .. Len(p) /\ c = SubSeq(p, 1, m)
    BY <1>1, <1>5
  <2>2. QED
    BY <2>1, PrefixIs
<1>8. \A i \in 1 .. Len(b) : b[i] = c[i]
  BY <1>1, <1>3, <1>5, <1>6, <1>7
<1>9. b = c
  BY <1>6, <1>7, <1>8, SeqEqual
<1>10. QED
  BY <1>2, <1>4, <1>5, <1>9, Zenon

\* They are the same one name further down.
LEMMA PrefixBelow ==
  ASSUME NEW S, NEW p \in Seq(S), NEW name \in S, NEW k \in Int, k <= Len(p)
  PROVE  SubSeq(Append(p, name), 1, k) = SubSeq(p, 1, k)
<1>1. PICK b : b = Append(p, name)
  OBVIOUS
<1>2. /\ b \in Seq(S) /\ Len(b) = Len(p) + 1 /\ \A i \in 1 .. Len(p) : b[i] = p[i]
      /\ Len(p) \in Nat
  BY <1>1, AppendProperties, LenProperties
<1>3. CASE k < 1
  <2>1. SubSeq(b, 1, k) = << >> /\ SubSeq(p, 1, k) = << >>
    BY <1>2, <1>3, SubSeqEmpty
  <2>2. QED
    BY <1>1, <2>1
<1>4. CASE k >= 1
  <2>1. PICK c, d : c = SubSeq(b, 1, k) /\ d = SubSeq(p, 1, k)
    OBVIOUS
  <2>2. k \in 1 .. Len(p) /\ k \in 1 .. Len(b)
    BY <1>2, <1>4
  <2>3. c \in Seq(S) /\ Len(c) = k /\ \A i \in 1 .. k : c[i] = b[i]
    BY <1>2, <2>1, <2>2, PrefixIs
  <2>4. d \in Seq(S) /\ Len(d) = k /\ \A i \in 1 .. k : d[i] = p[i]
    BY <2>1, <2>2, PrefixIs
  <2>5. c = d
    BY <1>2, <2>2, <2>3, <2>4, SeqEqual
  <2>6. QED
    BY <1>1, <2>1, <2>5, Zenon
<1>5. QED
  BY <1>3, <1>4

-----------------------------------------------------------------------------
(* resolve, step by step.                                                  *)

\* What resolve has found after each segment, and in the end.
Stages(t, path, w) ==
  /\ w \in [1 .. Len(path) -> SUBSET ToSet(t)]
  /\ w[1] = Start(t, path[1])
  /\ \A k \in 2 .. Len(path) : w[k] = Follow(t, w[k - 1], path[k])
  /\ Resolve(t, path) = w[Len(path)]

\* What a step finds are nodes.
LEMMA FoundAreNodes ==
  ASSUME NEW t, NEW seg
  PROVE  (\A found : Follow(t, found, seg) \subseteq ToSet(t))
<1>1. ASSUME NEW found PROVE Follow(t, found, seg) \subseteq ToSet(t)
  BY DEF Follow, Child, At
<1>2. QED
  BY <1>1

\* The last of some positions is one of them.
LEMMA LastNamed ==
  ASSUME NEW S, NEW t \in Seq(S), NEW named \in SUBSET DOMAIN t, named # {}
  PROVE  Max(named) \in named
<1>1. Len(t) \in Nat /\ DOMAIN t = 1 .. Len(t)
  BY LenProperties
<1>2. IsFiniteSet(named) /\ named \subseteq Int
  <2>1. IsFiniteSet(DOMAIN t) /\ DOMAIN t \subseteq Int /\ named \subseteq DOMAIN t
    BY <1>1, FS_Interval
  <2>2. QED
    BY <2>1, FS_Subset
<1>3. PICK i \in named : \A j \in named : j <= i
  BY <1>2, GreatestInteger
<1>4. \A j \in named : i >= j
  BY <1>2, <1>3
<1>5. QED
  BY <1>4 DEF Max

\* A path starts at a node below its module, or at one its module made.
LEMMA RootIs ==
  ASSUME NEW S, NEW t \in Seq(S), NEW m, NEW name, NEW n \in Root(t, m, name)
  PROVE  /\ n \in ToSet(t)
         /\ \/ n.place = <<m, name>>
            \/ n.module = m /\ Last(n.place) = name
<1>1. PICK named : named = { i \in DOMAIN t : t[i].module = m /\ Last(t[i].place) = name }
  OBVIOUS
<1>2. CASE n \in At(t, <<m, name>>)
  BY <1>2 DEF At
<1>3. CASE n \notin At(t, <<m, name>>)
  <2>1. named # {} /\ n = t[Max(named)]
    BY <1>1, <1>3 DEF Root
  <2>2. Max(named) \in named
    <3>1. named \in SUBSET DOMAIN t
      BY <1>1
    <3>2. QED
      BY <2>1, <3>1, LastNamed
  <2>3. Max(named) \in DOMAIN t /\ n.module = m /\ Last(n.place) = name
    BY <1>1, <2>1, <2>2
  <2>4. n \in ToSet(t)
    BY <2>1, <2>3 DEF ToSet
  <2>5. QED
    BY <2>3, <2>4
<1>4. QED
  BY <1>2, <1>3

\* Likewise what the first step finds are nodes.
LEMMA StartsAreNodes ==
  ASSUME NEW S, NEW t \in Seq(S), NEW seg PROVE Start(t, seg) \subseteq ToSet(t)
BY RootIs DEF Start

\* resolve goes through the segments from the first to the last.
LEMMA ResolveStages ==
  ASSUME NEW R, NEW t \in Seq(R), NEW S, NEW path \in Seq(S), path # << >>
  PROVE  \E w : Stages(t, path, w)
<1>1. PICK n, rest, base, X, D :
        /\ n = Len(path) /\ rest = Tail(path) /\ base = Start(t, path[1])
        /\ X = SUBSET ToSet(t) /\ D = 1 .. n - 1
  OBVIOUS
<1>2. /\ n \in Nat \ {0} /\ DOMAIN rest = D
      /\ \A k \in 1 .. n - 1 : rest[k] = path[k + 1]
  <2>1. Tail(path) \in Seq(S) /\ Len(Tail(path)) = Len(path) - 1
        /\ \A i \in 1 .. Len(Tail(path)) : Tail(path)[i] = path[i + 1]
    BY HeadTailProperties
  <2>2. Len(path) \in Nat /\ Len(path) # 0
    BY LenProperties, EmptySeq
  <2>3. DOMAIN Tail(path) = 1 .. Len(path) - 1
    BY <2>1, LenProperties
  <2>4. QED
    BY <1>1, <2>1, <2>2, <2>3
<1>3. IsFiniteSet(D) /\ D \subseteq Int
  BY <1>1, <1>2, FS_Interval
<1>4. base \in X
  BY <1>1, StartsAreNodes
<1> DEFINE Body(g) == [ s \in SUBSET D |->
                          IF s = {} THEN base ELSE Follow(t, g[s \ {Max(s)}], rest[Max(s)]) ]
<1>5. Resolve(t, path) = (CHOOSE g : g = Body(g))[D]
  <2>1. Resolve(t, path) =
          LET iter[s \in SUBSET DOMAIN rest] ==
                IF s = {} THEN base ELSE Follow(t, iter[s \ {Max(s)}], rest[Max(s)])
          IN  iter[DOMAIN rest]
    BY <1>1 DEF Resolve, FoldLeft, MapThenFoldSet
  <2>2. QED
    BY <1>2, <2>1
<1>6. PICK f : f = CHOOSE g : g = Body(g)
  OBVIOUS
<1>7. ASSUME NEW s \in SUBSET D, s # {} PROVE Max(s) \in s /\ \A x \in s : x <= Max(s)
  <2>1. IsFiniteSet(s) /\ s \subseteq Int
    BY <1>3, FS_Subset
  <2>2. PICK m \in s : \A x \in s : x <= m
    BY <1>7, <2>1, GreatestInteger
  <2>3. \A x \in s : m >= x
    BY <2>1, <2>2
  <2>4. Max(s) \in s /\ \A x \in s : Max(s) >= x
    BY <2>3 DEF Max
  <2>5. QED
    BY <2>1, <2>4
<1>8. f = Body(f)
  <2> DEFINE pick == [ s \in SUBSET D |-> Max(s) ]
             step == [ s \in SUBSET D |-> [ x \in X |-> Follow(t, x, rest[Max(s)]) ] ]
  <2>1. \A s \in SUBSET D : pick[s] = Max(s)
    OBVIOUS
  <2>2. \A s \in SUBSET D, x \in X : step[s][x] = Follow(t, x, rest[Max(s)])
    OBVIOUS
  <2>3. \A s \in SUBSET D, x \in X : step[s][x] \in X
    <3>1. ASSUME NEW s \in SUBSET D, NEW x \in X PROVE Follow(t, x, rest[Max(s)]) \in X
      BY <1>1, FoundAreNodes
    <3> HIDE DEF step
    <3> QED BY <2>2, <3>1
  <2> HIDE DEF pick, step
  <2>4. Folding(D, X, base, pick, step)
    BY <1>3, <1>4, <1>7, <2>1, <2>3 DEF Folding
  <2>5. PICK g \in [SUBSET D -> X] : Folded(g, D, base, pick, step)
    BY <2>4, FoldsExist
  <2>6. g = Body(g)
    <3>1. ASSUME NEW s \in SUBSET D
          PROVE  g[s] = IF s = {} THEN base ELSE Follow(t, g[s \ {Max(s)}], rest[Max(s)])
      <4>1. s \ {Max(s)} \in SUBSET D
        OBVIOUS
      <4>2. g[s \ {Max(s)}] \in X
        BY <2>5, <4>1
      <4>3. QED
        BY <2>1, <2>2, <2>5, <4>2 DEF Folded
    <3>2. QED
      BY <2>5, <3>1
  <2> HIDE DEF Body
  <2>7. QED
    BY <1>6, <2>6
<1>9. \A s \in SUBSET D : f[s] = IF s = {} THEN base ELSE Follow(t, f[s \ {Max(s)}], rest[Max(s)])
  BY <1>8
<1> HIDE DEF Body
<1>10. f[{}] = base
  BY <1>9
<1>11. ASSUME NEW k \in 1 .. n - 1 PROVE f[1 .. k] = Follow(t, f[1 .. k - 1], path[k + 1])
  <2>1. PICK s : s = 1 .. k
    OBVIOUS
  <2>2. s \in SUBSET D /\ s # {} /\ k \in s
    <3>1. n \in Int /\ k \in Int /\ k >= 1 /\ k <= n - 1
      BY <1>2
    <3>2. k \in s
      BY <2>1, <3>1
    <3>3. s \subseteq D
      BY <1>1, <2>1, <3>1
    <3>4. QED
      BY <3>2, <3>3
  <2>3. Max(s) = k
    <3>1. Max(s) \in s /\ k <= Max(s)
      BY <1>7, <2>2
    <3>2. Max(s) <= k /\ Max(s) \in Int /\ k \in Int
      BY <2>1, <3>1
    <3>3. QED
      BY <3>1, <3>2
  <2>4. s \ {k} = 1 .. k - 1
    BY <2>1
  <2>5. f[s] = Follow(t, f[s \ {k}], rest[k])
    BY <1>9, <2>2, <2>3
  <2>6. QED
    BY <1>2, <2>1, <2>4, <2>5
<1>12. ASSUME NEW k \in 0 .. n - 1 PROVE f[1 .. k] \in X
  <2>1. CASE k = 0
    <3>1. 1 .. k = {}
      BY <2>1
    <3>2. QED
      BY <1>4, <1>10, <3>1
  <2>2. CASE k # 0
    <3>1. k \in 1 .. n - 1
      BY <1>2, <2>2
    <3>2. f[1 .. k] = Follow(t, f[1 .. k - 1], path[k + 1])
      BY <1>11, <3>1
    <3>3. Follow(t, f[1 .. k - 1], path[k + 1]) \subseteq ToSet(t)
      BY FoundAreNodes
    <3>4. QED
      BY <1>1, <3>2, <3>3
  <2>3. QED
    BY <2>1, <2>2
<1>13. PICK w : w = [ k \in 1 .. n |-> f[1 .. k - 1] ]
  OBVIOUS
<1>14. w \in [1 .. n -> X]
  <2>1. \A k \in 1 .. n : k - 1 \in 0 .. n - 1
    BY <1>2
  <2>2. QED
    BY <1>12, <1>13, <2>1
<1>15. w[1] = base
  <2>1. 1 \in 1 .. n /\ 1 .. 1 - 1 = {}
    BY <1>2
  <2>2. QED
    BY <1>10, <1>13, <2>1
<1>16. ASSUME NEW k \in 2 .. n PROVE w[k] = Follow(t, w[k - 1], path[k])
  <2>1. k - 1 \in 1 .. n - 1 /\ k \in 1 .. n /\ k - 1 \in 1 .. n /\ (k - 1) + 1 = k
    BY <1>2
  <2>2. f[1 .. k - 1] = Follow(t, f[1 .. (k - 1) - 1], path[(k - 1) + 1])
    BY <1>11, <2>1
  <2>3. w[k] = f[1 .. k - 1] /\ w[k - 1] = f[1 .. (k - 1) - 1]
    BY <1>13, <2>1
  <2>4. QED
    BY <2>1, <2>2, <2>3
<1>17. Resolve(t, path) = w[n]
  <2>1. Resolve(t, path) = f[D]
    BY <1>5, <1>6
  <2>2. w[n] = f[1 .. n - 1]
    BY <1>2, <1>13
  <2>3. QED
    BY <1>1, <2>1, <2>2
<1>18. QED
  BY <1>1, <1>14, <1>15, <1>16, <1>17 DEF Stages

\* The segments a document may have, with any prefixes.
Segments(modules) == [module : modules, name : STRING, preds : SUBSET STRING]

\* What the root step finds.
LEMMA StartIs ==
  ASSUME NEW S, NEW t \in Seq(S), NEW seg, NEW x \in Start(t, seg)
  PROVE  /\ x \in ToSet(t) /\ Fits(x, seg.preds) /\ seg.module \in DOMAIN Modules
         /\ Last(x.place) = seg.name /\ seg.module \in {x.module, x.place[1]}
<1>1. PICK m : m \in {seg.module} \cap DOMAIN Modules /\ x \in Root(t, m, seg.name)
  BY DEF Start
<1>2. Fits(x, seg.preds)
  BY DEF Start
<1>3. /\ x \in ToSet(t)
      /\ \/ x.place = <<m, seg.name>>
         \/ x.module = m /\ Last(x.place) = seg.name
  BY <1>1, RootIs
<1>4. CASE x.place = <<m, seg.name>>
  <2>1. Last(<<m, seg.name>>) = seg.name /\ <<m, seg.name>>[1] = m
    BY DEF Last
  <2>2. QED
    BY <1>1, <1>2, <1>3, <1>4, <2>1
<1>5. CASE x.module = m /\ Last(x.place) = seg.name
  BY <1>1, <1>2, <1>3, <1>5
<1>6. QED
  BY <1>3, <1>4, <1>5

\* Nodes hang below module roots.
LEMMA NodePlaces ==
  ASSUME NEW t \in Seq(Nodes), NEW n \in ToSet(t)
  PROVE  n.place \in Places /\ n.place \in Seq(STRING) /\ Len(n.place) \in Nat /\ Len(n.place) > 1
BY SetOfSeq, LenProperties DEF Nodes, Places

\* The node a path leads to is below those the path goes through.
LEMMA PathGoesDown ==
  ASSUME NEW t \in Seq(Nodes), NEW modules, NEW path \in Seq(Segments(modules)), path # << >>, NEW w, Stages(t, path, w),
         NEW k \in 1 .. Len(path), NEW n \in w[k], NEW i \in 1 .. k
  PROVE  \E x \in w[i] : x \in Ancestor(t, n, k - i)
<1>1. Len(path) \in Nat /\ \A j \in 1 .. Len(path) : path[j] \in Segments(modules) /\ w[j] \subseteq ToSet(t)
  BY LenProperties, ElementOfSeq DEF Stages
<1> DEFINE Reached(j) ==
             \A a \in w[j] : \A b \in 1 .. j : \E x \in w[b] : x \in Ancestor(t, a, j - b)
           G == { j \in Nat : j + 1 <= Len(path) => Reached(j + 1) }
<1>2. ASSUME NEW j \in 1 .. Len(path), NEW a \in w[j] PROVE a \in Ancestor(t, a, j - j)
  <2>1. a \in ToSet(t)
    BY <1>1
  <2>2. a.place \in Seq(STRING) /\ Len(a.place) \in Nat
    BY <2>1, NodePlaces
  <2>3. SubSeq(a.place, 1, Len(a.place)) = a.place
    BY <2>2, SubSeqFull
  <2>4. Len(a.place) - (j - j) = Len(a.place)
    BY <1>1, <2>2
  <2>5. QED
    BY <2>1, <2>3, <2>4 DEF Ancestor, At
<1>3. 0 \in G
  <2>1. ASSUME 1 <= Len(path), NEW a \in w[1], NEW b \in 1 .. 1
        PROVE  \E x \in w[b] : x \in Ancestor(t, a, 1 - b)
    <3>1. b = 1 /\ 1 \in 1 .. Len(path)
      BY <1>1, <2>1
    <3>2. a \in Ancestor(t, a, 1 - 1)
      BY <1>2, <2>1, <3>1
    <3>3. QED
      BY <2>1, <3>1, <3>2
  <2>2. 1 <= Len(path) => Reached(1)
    BY <2>1
  <2> HIDE DEF Reached
  <2>3. QED
    BY <2>2
<1>4. ASSUME NEW m \in Nat, m \in G PROVE m + 1 \in G
  <2>1. ASSUME m + 2 <= Len(path), NEW a \in w[m + 2], NEW b \in 1 .. m + 2
        PROVE  \E x \in w[b] : x \in Ancestor(t, a, m + 2 - b)
    <3>1. m + 2 \in 1 .. Len(path) /\ m + 2 \in 2 .. Len(path) /\ m + 1 \in 1 .. Len(path)
          /\ m + 1 <= Len(path) /\ (m + 2) - 1 = m + 1
      BY <1>1, <2>1
    <3>2. CASE b = m + 2
      <4>1. a \in Ancestor(t, a, (m + 2) - (m + 2))
        BY <1>2, <2>1, <3>1
      <4>2. QED
        BY <2>1, <3>2, <4>1
    <3>3. CASE b # m + 2
      <4>1. b \in 1 .. m + 1
        BY <3>3
      <4>2. w[m + 2] = Follow(t, w[m + 1], path[m + 2])
        BY <3>1 DEF Stages
      <4>3. PICK y \in w[m + 1] : a.place = Append(y.place, path[m + 2].name)
        <5>1. PICK found, seg : found = w[m + 1] /\ seg = path[m + 2]
          OBVIOUS
        <5>2. a \in Follow(t, found, seg)
          BY <2>1, <4>2, <5>1, Zenon
        <5>3. PICK y \in found : a.place = Append(y.place, seg.name)
          BY <5>2 DEF Follow, Child, At
        <5>4. QED
          BY <5>1, <5>3
      <4>4. Reached(m + 1)
        <5> HIDE DEF Reached
        <5> QED BY <1>4, <3>1
      <4>5. PICK x \in w[b] : x \in Ancestor(t, y, m + 1 - b)
        <5>1. \A c \in w[m + 1] : \A e \in 1 .. m + 1 : \E x \in w[e] : x \in Ancestor(t, c, m + 1 - e)
          BY <4>4
        <5>2. QED
          BY <4>1, <5>1, Zenon
      <4>6. y \in ToSet(t) /\ path[m + 2].name \in STRING
        BY <1>1, <3>1 DEF Segments
      <4>7. PICK p, name, cut :
              p = y.place /\ name = path[m + 2].name /\ cut = Len(p) - (m + 1 - b)
        OBVIOUS
      <4>8. p \in Seq(STRING) /\ Len(p) \in Nat /\ name \in STRING
        BY <4>6, <4>7, NodePlaces
      <4>9. cut \in Int /\ cut <= Len(p)
        BY <4>1, <4>7, <4>8
      <4>10. SubSeq(Append(p, name), 1, cut) = SubSeq(p, 1, cut)
        <5>1. PICK S : S = STRING
          OBVIOUS
        <5>2. p \in Seq(S) /\ name \in S
          BY <4>8, <5>1
        <5>3. QED
          BY <4>9, <5>2, PrefixBelow
      <4>11. Len(Append(p, name)) = Len(p) + 1
        BY <4>8, AppendProperties
      <4>12. Len(a.place) - (m + 2 - b) = cut
        <5>1. Len(a.place) = Len(p) + 1
          BY <4>3, <4>7, <4>11, Zenon
        <5>2. PICK len \in Nat, c \in Int : len = Len(p) /\ c = b
          BY <4>1, <4>8
        <5>3. len + 1 - (m + 2 - c) = len - (m + 1 - c)
          BY <5>2
        <5>4. QED
          BY <4>7, <5>1, <5>2, <5>3
      <4>13. SubSeq(a.place, 1, Len(a.place) - (m + 2 - b)) = SubSeq(y.place, 1, Len(y.place) - (m + 1 - b))
        <5>1. a.place = Append(p, name)
          BY <4>3, <4>7
        <5>2. SubSeq(a.place, 1, Len(a.place) - (m + 2 - b)) = SubSeq(Append(p, name), 1, cut)
          BY <4>12, <5>1
        <5>3. QED
          BY <4>7, <4>10, <5>2
      <4>14. Ancestor(t, a, m + 2 - b) = Ancestor(t, y, m + 1 - b)
        BY <4>13 DEF Ancestor
      <4>15. QED
        BY <4>5, <4>14
    <3>4. QED
      BY <3>2, <3>3
  <2>2. m + 2 <= Len(path) => Reached(m + 2)
    BY <2>1
  <2>3. (m + 1) + 1 = m + 2 /\ m + 1 \in Nat
    OBVIOUS
  <2> HIDE DEF Reached
  <2>4. QED
    BY <2>2, <2>3
<1>5. Reached(k)
  <2>1. Nat \subseteq G
    <3> HIDE DEF G
    <3> QED BY <1>3, <1>4, NumberInduction
  <2>2. k - 1 \in Nat /\ (k - 1) + 1 = k /\ k <= Len(path)
    BY <1>1
  <2> HIDE DEF Reached
  <2>3. QED
    BY <2>1, <2>2
<1>6. QED
  BY <1>5

\* A path that is accepted is the end of the path of the node it leads to.
LEMMA AcceptedPath ==
  ASSUME NEW t \in Seq(Nodes), NEW modules, NEW path \in Seq(Segments(modules)), path # << >>, NEW n \in Resolve(t, path)
  PROVE  LeadsTo(t, path, n)
<1>1. PICK w : Stages(t, path, w)
  BY ResolveStages
<1>2. Len(path) \in Nat \ {0} /\ DOMAIN path = 1 .. Len(path)
  BY LenProperties, EmptySeq
<1>3. n \in w[Len(path)]
  BY <1>1 DEF Stages
<1>4. ASSUME NEW i \in 1 .. Len(path), NEW x \in w[i]
      PROVE  /\ Last(x.place) = path[i].name
             /\ path[i].module \in IF i = 1 THEN {x.module, x.place[1]} ELSE {""} \cup DOMAIN Modules
             /\ Fits(x, path[i].preds)
  <2>1. CASE i = 1
    <3>1. x \in Start(t, path[1])
      BY <1>1, <1>4, <2>1 DEF Stages
    <3>2. QED
      BY <2>1, <3>1, StartIs
  <2>2. CASE i # 1
    <3>1. i \in 2 .. Len(path) /\ i - 1 \in 1 .. Len(path)
      BY <1>2, <2>2
    <3>2. x \in Follow(t, w[i - 1], path[i])
      BY <1>1, <1>4, <3>1 DEF Stages
    <3>3. /\ Fits(x, path[i].preds) /\ path[i].module \in {""} \cup DOMAIN Modules
          /\ \E y \in w[i - 1] : x.place = Append(y.place, path[i].name)
      <4>1. PICK found, seg : found = w[i - 1] /\ seg = path[i]
        OBVIOUS
      <4>2. x \in Follow(t, found, seg)
        BY <3>2, <4>1, Zenon
      <4>3. /\ Fits(x, seg.preds) /\ seg.module \in {""} \cup DOMAIN Modules
            /\ \E y \in found : x.place = Append(y.place, seg.name)
        BY <4>2 DEF Follow, Child, At
      <4>4. QED
        BY <4>1, <4>3
    <3>4. PICK y \in w[i - 1] : x.place = Append(y.place, path[i].name)
      BY <3>3
    <3>5. y \in ToSet(t) /\ path[i].name \in STRING
      <4>1. w[i - 1] \subseteq ToSet(t)
        BY <1>1, <3>1 DEF Stages
      <4>2. path[i] \in Segments(modules)
        BY ElementOfSeq
      <4>3. QED
        BY <4>1, <4>2 DEF Segments
    <3>6. y.place \in Places
      BY <3>5, NodePlaces
    <3>7. Last(x.place) = path[i].name
      BY <3>4, <3>5, <3>6, PlaceBelow
    <3>8. QED
      BY <2>2, <3>3, <3>7
  <2>3. QED
    BY <2>1, <2>2
<1>5. ASSUME NEW i \in DOMAIN path
      PROVE  \E x \in Ancestor(t, n, Len(path) - i) :
               /\ Last(x.place) = path[i].name
               /\ path[i].module \in IF i = 1 THEN {x.module, x.place[1]} ELSE {""} \cup DOMAIN Modules
               /\ Fits(x, path[i].preds)
  <2>1. i \in 1 .. Len(path) /\ Len(path) \in 1 .. Len(path)
    BY <1>2
  <2>2. PICK x \in w[i] : x \in Ancestor(t, n, Len(path) - i)
    BY <1>1, <1>3, <2>1, PathGoesDown
  <2>3. QED
    BY <1>4, <2>1, <2>2
<1>6. QED
  BY <1>5 DEF LeadsTo

\* Whatever path of whatever length a document has, and at any time while the
\* modules are resolved: if the validator accepts it, it is the end of the path
\* of a node that exists (model.py:293-339).
THEOREM EveryAcceptedPath ==
  ASSUME NEW CONSTANT modules
  PROVE  Spec => [](\A path \in Seq(Segments(modules)) \ {<< >>} :
                       \A n \in Resolve(tree, path) : LeadsTo(tree, path, n))
<1>1. TreeInvariant =>
        \A path \in Seq(Segments(modules)) \ {<< >>} :
          \A n \in Resolve(tree, path) : LeadsTo(tree, path, n)
  <2>1. SUFFICES ASSUME TreeInvariant, NEW path \in Seq(Segments(modules)) \ {<< >>},
                        NEW n \in Resolve(tree, path)
                 PROVE  LeadsTo(tree, path, n)
    OBVIOUS
  <2>2. PICK t, a : t = tree /\ a = n
    OBVIOUS
  <2>3. t \in Seq(Nodes) /\ path \in Seq(Segments(modules)) /\ path # << >> /\ a \in Resolve(t, path)
    BY <2>1, <2>2 DEF TreeInvariant, TypeOK
  <2>4. LeadsTo(t, path, a)
    BY <2>3, AcceptedPath
  <2>5. QED
    BY <2>2, <2>4
<1>2. QED
  BY <1>1, TreeCorrect, PTL

\* A variation of a node's path is a sequence of names.
LEMMA VariationIs ==
  ASSUME NEW t \in Seq(Nodes), NEW n \in ToSet(t), NEW last \in STRING, NEW i \in 2 .. Len(n.place)
  PROVE  Variation(n, i, last) \in Seq(STRING) /\ Variation(n, i, last) # << >>
<1>1. n.place \in Seq(STRING) /\ Len(n.place) \in Nat
  BY NodePlaces
<1>2. PICK k, p, v : k = Len(n.place) - i + 1 /\ p = n.place /\ v = Variation(n, i, last)
  OBVIOUS
<1>3. k \in Nat /\ k >= 1
  BY <1>1, <1>2
<1>4. v = [ j \in 1 .. k |-> IF j = k THEN last ELSE p[i + j - 1] ]
  BY <1>2 DEF Variation
<1>5. ASSUME NEW j \in 1 .. k, j # k PROVE p[i + j - 1] \in STRING
  <2>1. i + j - 1 \in 1 .. Len(p)
    BY <1>1, <1>2, <1>3, <1>5
  <2>2. PICK S : S = STRING
    OBVIOUS
  <2>3. p \in Seq(S)
    BY <1>1, <1>2, <2>2
  <2>4. QED
    BY <2>1, <2>2, <2>3, ElementOfSeq
<1>6. v \in [1 .. k -> STRING]
  BY <1>4, <1>5
<1>7. v \in Seq(STRING) /\ Len(v) = k
  <2>1. v \in Seq(STRING)
    BY <1>3, <1>6, SeqDef
  <2>2. DOMAIN v = 1 .. k
    BY <1>6
  <2>3. QED
    BY <1>3, <2>1, <2>2, LenProperties
<1>8. v # << >>
  BY <1>3, <1>7, EmptySeq
<1>9. QED
  BY <1>2, <1>7, <1>8

\* A near miss is a path.
LEMMA NearMissIs ==
  ASSUME NEW names \in Seq(STRING), names # << >>, NEW m, NEW p,
         NEW preds \in SUBSET STRING
  PROVE  NearMiss(names, m, p, preds) \in Seq(Segments({m, p})) \ {<< >>}
<1>1. Len(names) \in Nat \ {0} /\ DOMAIN names = 1 .. Len(names)
      /\ \A j \in 1 .. Len(names) : names[j] \in STRING
  <2>1. PICK S : S = STRING
    OBVIOUS
  <2>2. names \in Seq(S)
    BY <2>1
  <2>3. QED
    BY <2>1, <2>2, LenProperties, EmptySeq, ElementOfSeq
<1>2. PICK k, v : k = Len(names) /\ v = NearMiss(names, m, p, preds)
  OBVIOUS
<1>3. v = [ j \in 1 .. k |-> Segment(IF j = 1 THEN m ELSE p, names[j], IF j = k THEN preds ELSE {}) ]
  BY <1>1, <1>2 DEF NearMiss
<1>4. ASSUME NEW j \in 1 .. k
      PROVE  Segment(IF j = 1 THEN m ELSE p, names[j], IF j = k THEN preds ELSE {}) \in Segments({m, p})
  <2>1. names[j] \in STRING
    BY <1>1, <1>2
  <2>2. PICK module, name, those :
          /\ module = IF j = 1 THEN m ELSE p
          /\ name = names[j] /\ those = IF j = k THEN preds ELSE {}
    OBVIOUS
  <2>3. module \in {m, p} /\ name \in STRING /\ those \in SUBSET STRING
    BY <2>1, <2>2
  <2>4. Segment(module, name, those) \in Segments({m, p})
    BY <2>3 DEF Segment, Segments
  <2>5. QED
    BY <2>2, <2>4
<1>5. v \in [1 .. k -> Segments({m, p})]
  BY <1>3, <1>4
<1>6. v \in Seq(Segments({m, p})) /\ DOMAIN v = 1 .. k /\ k \in Nat \ {0}
  <2>1. k \in Nat \ {0}
    BY <1>1, <1>2
  <2>2. PICK S : S = Segments({m, p})
    OBVIOUS
  <2>3. v \in [1 .. k -> S]
    BY <1>5, <2>2
  <2>4. v \in Seq(S)
    BY <2>1, <2>3, SeqDef
  <2>5. QED
    BY <1>5, <2>1, <2>2, <2>4
<1>7. Len(v) = k
  BY <1>6, LenProperties
<1>8. v # << >>
  BY <1>6, <1>7, EmptySeq
<1>9. QED
  BY <1>2, <1>6, <1>8

\* The last name of a node's place is a name.
LEMMA LastName ==
  ASSUME NEW t \in Seq(Nodes), NEW x \in ToSet(t) PROVE Last(x.place) \in STRING
<1>1. PICK S, q, k : S = STRING /\ q = x.place /\ k = Len(q)
  OBVIOUS
<1>2. q \in Seq(S) /\ k \in Nat /\ k > 1
  BY <1>1, NodePlaces
<1>3. k \in 1 .. Len(q)
  BY <1>1, <1>2
<1>4. q[k] \in S
  BY <1>2, <1>3, ElementOfSeq
<1>5. QED
  BY <1>1, <1>4 DEF Last

\* The predicates of a near miss are names.
LEMMA PredicateNames ==
  ASSUME NEW t \in Seq(Nodes), t = tree, NEW preds \in AnyPreds PROVE preds \in SUBSET STRING
<1>1. \A a \in ToSet(t) : a.keys \subseteq STRING
  BY SetOfSeq DEF Nodes
<1>2. QED
  BY <1>1 DEF AnyPreds

\* The names of a near miss.
LEMMA VariationsAre ==
  ASSUME NEW t \in Seq(Nodes), t = tree, NEW names \in Variations
  PROVE  names \in Seq(STRING) /\ names # << >>
<1>1. PICK n \in ToSet(t) :
        names \in UNION { { Variation(n, i, last) : last \in Names } : i \in 2 .. Len(n.place) }
  BY DEF Variations
<1>2. PICK i \in 2 .. Len(n.place) : names \in { Variation(n, i, last) : last \in Names }
  BY <1>1
<1>3. PICK last \in Names : names = Variation(n, i, last)
  BY <1>2
<1>4. last \in STRING
  BY <1>3, LastName DEF Names
<1>5. QED
  BY <1>1, <1>2, <1>3, <1>4, VariationIs

\* A path that starts at the top of a module keeps to the places it names.
LEMMA RootedStages ==
  ASSUME NEW t \in Seq(Nodes), NEW modules, NEW path \in Seq(Segments(modules)), path # << >>,
         NEW w, Stages(t, path, w), At(t, <<path[1].module, path[1].name>>) # {},
         NEW k \in 1 .. Len(path), NEW n \in w[k]
  PROVE  /\ Len(n.place) = k + 1 /\ n.place[1] = path[1].module
         /\ \A i \in 1 .. k : n.place[i + 1] = path[i].name
<1>1. Len(path) \in Nat /\ \A j \in 1 .. Len(path) : path[j] \in Segments(modules) /\ w[j] \subseteq ToSet(t)
  BY LenProperties, ElementOfSeq DEF Stages
<1>2. PICK m : m = path[1].module
  OBVIOUS
<1> DEFINE Reached(j) ==
             \A a \in w[j] : /\ Len(a.place) = j + 1 /\ a.place[1] = m
                             /\ \A i \in 1 .. j : a.place[i + 1] = path[i].name
           G == { j \in Nat : j + 1 <= Len(path) => Reached(j + 1) }
<1>3. 0 \in G
  <2>1. ASSUME 1 <= Len(path), NEW a \in w[1]
        PROVE  Len(a.place) = 2 /\ a.place[1] = m /\ a.place[2] = path[1].name
    <3>1. PICK seg : seg = path[1]
      OBVIOUS
    <3>2. a \in Start(t, seg)
      BY <2>1, <3>1 DEF Stages
    <3>3. a \in Root(t, m, seg.name)
      BY <1>2, <3>1, <3>2 DEF Start
    <3>4. a \in At(t, <<m, seg.name>>)
      BY <1>2, <3>1, <3>3 DEF Root
    <3>5. a.place = <<m, seg.name>>
      BY <3>4 DEF At
    <3>6. QED
      BY <3>1, <3>5
  <2>2. 1 <= Len(path) => Reached(1)
    <3>1. ASSUME 1 <= Len(path), NEW a \in w[1], NEW i \in 1 .. 1
          PROVE  Len(a.place) = 1 + 1 /\ a.place[1] = m /\ a.place[i + 1] = path[i].name
      <4>1. i = 1 /\ i + 1 = 2
        OBVIOUS
      <4>2. QED
        BY <2>1, <3>1, <4>1
    <3>2. 1 \in 1 .. 1
      OBVIOUS
    <3>3. QED
      BY <3>1, <3>2
  <2>3. 0 + 1 = 1 /\ 0 \in Nat
    OBVIOUS
  <2> HIDE DEF Reached
  <2>4. QED
    BY <2>2, <2>3
<1>4. ASSUME NEW j \in Nat, j \in G PROVE j + 1 \in G
  <2>1. ASSUME j + 2 <= Len(path), NEW a \in w[j + 2]
        PROVE  /\ Len(a.place) = (j + 2) + 1 /\ a.place[1] = m
               /\ \A i \in 1 .. j + 2 : a.place[i + 1] = path[i].name
    <3>1. /\ j + 2 \in 1 .. Len(path) /\ j + 2 \in 2 .. Len(path) /\ j + 1 \in 1 .. Len(path)
          /\ j + 1 <= Len(path) /\ (j + 2) - 1 = j + 1
      BY <1>1, <2>1
    <3>2. PICK found, seg : found = w[j + 1] /\ seg = path[j + 2]
      OBVIOUS
    <3>3. a \in Follow(t, found, seg)
      BY <1>1, <2>1, <3>1, <3>2 DEF Stages
    <3>4. PICK y \in found : a.place = Append(y.place, seg.name)
      BY <3>3 DEF Follow, Child, At
    <3>5. y \in ToSet(t) /\ seg.name \in STRING
      BY <1>1, <3>1, <3>2 DEF Segments
    <3>6. PICK S, p, name, q : S = STRING /\ p = y.place /\ name = seg.name /\ q = a.place
      OBVIOUS
    <3>7. p \in Seq(S) /\ name \in S /\ q = Append(p, name)
      BY <3>4, <3>5, <3>6, NodePlaces
    <3>8. /\ Len(p) = (j + 1) + 1 /\ p[1] = m
          /\ \A i \in 1 .. j + 1 : p[i + 1] = path[i].name
      <4>1. Reached(j + 1)
        <5> HIDE DEF Reached
        <5> QED BY <1>4, <3>1
      <4>2. QED
        BY <3>2, <3>4, <3>6, <4>1
    <3>9. Len(p) = j + 2
      BY <3>8
    <3>10. /\ Len(q) = (j + 2) + 1
           /\ \A i \in 1 .. j + 2 : q[i] = p[i]
           /\ q[(j + 2) + 1] = name
      BY <3>7, <3>9, AppendProperties
    <3>11. q[1] = m
      BY <3>8, <3>10
    <3>12. ASSUME NEW i \in 1 .. j + 2 PROVE q[i + 1] = path[i].name
      <4>1. CASE i = j + 2
        BY <3>2, <3>6, <3>10, <4>1
      <4>2. CASE i # j + 2
        <5>1. i \in 1 .. j + 1 /\ i + 1 \in 1 .. j + 2
          BY <4>2
        <5>2. QED
          BY <3>8, <3>10, <5>1
      <4>3. QED
        BY <4>1, <4>2
    <3>13. QED
      BY <3>6, <3>10, <3>11, <3>12
  <2>2. j + 2 <= Len(path) => Reached(j + 2)
    BY <2>1
  <2>3. (j + 1) + 1 = j + 2 /\ j + 1 \in Nat
    OBVIOUS
  <2> HIDE DEF Reached
  <2>4. QED
    BY <2>2, <2>3
<1>5. Reached(k)
  <2>1. Nat \subseteq G
    <3> HIDE DEF G
    <3> QED BY <1>3, <1>4, NumberInduction
  <2>2. k - 1 \in Nat /\ (k - 1) + 1 = k /\ k <= Len(path)
    BY <1>1
  <2> HIDE DEF Reached
  <2>3. QED
    BY <2>1, <2>2
<1>6. QED
  BY <1>2, <1>5

\* So it leads to the node at its place.
LEMMA RootedPath ==
  ASSUME NEW t \in Seq(Nodes), NEW modules, NEW path \in Seq(Segments(modules)), path # << >>,
         At(t, <<path[1].module, path[1].name>>) # {}, NEW n \in Resolve(t, path)
  PROVE  IsAt(path, n)
<1>1. PICK w : Stages(t, path, w)
  BY ResolveStages
<1>2. PICK k \in Nat \ {0} : k = Len(path)
  BY LenProperties, EmptySeq
<1>3. n \in w[k] /\ n \in ToSet(t)
  BY <1>1, <1>2 DEF Stages
<1>4. PICK S, p, m : S = STRING /\ p = n.place /\ m = path[1].module
  OBVIOUS
<1>5. p \in Seq(S) /\ DOMAIN path = 1 .. k /\ \A i \in 1 .. k : path[i].name \in S
  <2>1. \A i \in 1 .. Len(path) : path[i] \in Segments(modules)
    BY ElementOfSeq
  <2>2. QED
    BY <1>2, <1>3, <1>4, <2>1, NodePlaces, LenProperties DEF Segments
<1>6. Len(p) = k + 1 /\ p[1] = m /\ \A i \in 1 .. k : p[i + 1] = path[i].name
  <2>1. Len(path) \in 1 .. Len(path) /\ n \in w[Len(path)]
    BY <1>2, <1>3
  <2>2. /\ Len(n.place) = Len(path) + 1 /\ n.place[1] = path[1].module
        /\ \A i \in 1 .. Len(path) : n.place[i + 1] = path[i].name
    BY <1>1, <2>1, RootedStages
  <2>3. QED
    BY <1>2, <1>4, <2>2
<1>7. m \in S
  BY <1>5, <1>6, ElementOfSeq
<1>8. PICK head, names, q :
        /\ head = <<m>> /\ names = [ i \in 1 .. k |-> path[i].name ] /\ q = head \o names
  OBVIOUS
<1>9. /\ head \in Seq(S) /\ Len(head) = 1 /\ head[1] = m
      /\ names \in Seq(S) /\ Len(names) = k /\ \A i \in 1 .. k : names[i] = path[i].name
  <2>1. head \in Seq(S) /\ Len(head) = 1 /\ head[1] = m
    BY <1>7, <1>8
  <2>2. names \in [1 .. k -> S]
    BY <1>5, <1>8
  <2>3. names \in Seq(S)
    BY <2>2, SeqDef
  <2>4. Len(names) = k
    BY <2>2, <2>3, LenProperties
  <2>5. QED
    BY <1>8, <2>1, <2>3, <2>4
<1>10. /\ q \in Seq(S) /\ Len(q) = 1 + k
       /\ \A i \in 1 .. Len(q) : q[i] = IF i <= 1 THEN head[i] ELSE names[i - 1]
  BY <1>8, <1>9, ConcatProperties
<1>11. ASSUME NEW i \in 1 .. Len(p) PROVE p[i] = q[i]
  <2>1. CASE i = 1
    BY <1>6, <1>9, <1>10, <2>1
  <2>2. CASE i # 1
    <3>1. PICK j : j = i - 1
      OBVIOUS
    <3>2. j \in 1 .. k /\ j + 1 = i /\ i \in 1 .. Len(q) /\ ~(i <= 1)
      BY <1>6, <1>10, <2>2, <3>1
    <3>3. QED
      BY <1>6, <1>9, <1>10, <3>1, <3>2
  <2>3. QED
    BY <2>1, <2>2
<1>12. p = q
  BY <1>5, <1>6, <1>10, <1>11, SeqEqual
<1>13. QED
  BY <1>4, <1>5, <1>8, <1>12 DEF IsAt

\* Whatever path a document has, and at any time while the modules are resolved:
\* if it starts at the top of the module it names and the validator accepts it,
\* the node it is accepted for is at the path's own place (model.py:293-339).
THEOREM EveryRootedPath ==
  ASSUME NEW CONSTANT modules
  PROVE  Spec => [](\A path \in Seq(Segments(modules)) \ {<< >>} :
                       At(tree, <<path[1].module, path[1].name>>) # {} =>
                         \A n \in Resolve(tree, path) : IsAt(path, n))
<1>1. TreeInvariant =>
        \A path \in Seq(Segments(modules)) \ {<< >>} :
          At(tree, <<path[1].module, path[1].name>>) # {} =>
            \A n \in Resolve(tree, path) : IsAt(path, n)
  <2>1. SUFFICES ASSUME TreeInvariant, NEW path \in Seq(Segments(modules)) \ {<< >>},
                        At(tree, <<path[1].module, path[1].name>>) # {},
                        NEW n \in Resolve(tree, path)
                 PROVE  IsAt(path, n)
    OBVIOUS
  <2>2. PICK t, a : t = tree /\ a = n
    OBVIOUS
  <2>3. /\ t \in Seq(Nodes) /\ path \in Seq(Segments(modules)) /\ path # << >>
        /\ At(t, <<path[1].module, path[1].name>>) # {} /\ a \in Resolve(t, path)
    BY <2>1, <2>2 DEF TreeInvariant, TypeOK
  <2>4. IsAt(path, a)
    BY <2>3, RootedPath
  <2>5. QED
    BY <2>2, <2>4
<1>2. QED
  BY <1>1, TreeCorrect, PTL

\* A near miss is no different.
LEMMA RootedNearMiss ==
  ASSUME NEW t \in Seq(Nodes), NEW names \in Seq(STRING), names # << >>, NEW m, NEW p,
         NEW preds \in SUBSET STRING, NEW top, top = At(t, <<m, names[1]>>), top # {},
         NEW path, path = NearMiss(names, m, p, preds), NEW n \in Resolve(t, path)
  PROVE  IsAt(path, n) /\ LeadsTo(t, path, n)
<1>1. 1 \in DOMAIN names
  BY LenProperties, EmptySeq
<1>2. PICK those : those = IF 1 = Len(names) THEN preds ELSE {}
  OBVIOUS
<1>3. path[1] = Segment(m, names[1], those)
  BY <1>1, <1>2 DEF NearMiss
<1>4. path[1].module = m /\ path[1].name = names[1]
  BY <1>3 DEF Segment
<1>5. At(t, <<path[1].module, path[1].name>>) # {}
  BY <1>4
<1>6. path \in Seq(Segments({m, p})) /\ path # << >>
  BY NearMissIs
<1>7. IsAt(path, n)
  BY <1>5, <1>6, RootedPath
<1>8. LeadsTo(t, path, n)
  BY <1>6, AcceptedPath
<1>9. QED
  BY <1>7, <1>8

\* Among the paths that are nearly right, the validator accepts one that starts
\* at the top of its module only for the node at its own place, with predicates
\* on lists and about their keys.
THEOREM RootedNearMissesExist == Spec => []RootedPathsExist
<1>1. TreeInvariant => RootedPathsExist
  <2>1. ASSUME TreeInvariant,
               NEW names \in Variations, NEW m \in AnyModule,
               NEW p \in {"", "unknown", order[1]}, NEW preds \in AnyPreds,
               At(tree, <<m, names[1]>>) # {},
               NEW n \in Resolve(tree, NearMiss(names, m, p, preds))
        PROVE  /\ IsAt(NearMiss(names, m, p, preds), n)
               /\ LeadsTo(tree, NearMiss(names, m, p, preds), n)
    <3>1. PICK t, top, path, from :
            /\ t = tree /\ top = At(tree, <<m, names[1]>>)
            /\ path = NearMiss(names, m, p, preds) /\ from = p
      OBVIOUS
    <3>2. t \in Seq(Nodes)
      BY <2>1, <3>1 DEF TreeInvariant, TypeOK
    <3>3. names \in Seq(STRING) /\ names # << >>
      BY <2>1, <3>1, <3>2, VariationsAre
    <3>4. preds \in SUBSET STRING
      BY <2>1, <3>1, <3>2, PredicateNames
    <3>5. path = NearMiss(names, m, from, preds)
      BY <3>1
    <3>6. top = At(t, <<m, names[1]>>) /\ top # {} /\ n \in Resolve(t, path)
      BY <2>1, <3>1
    <3>7. IsAt(path, n) /\ LeadsTo(t, path, n)
      BY <3>2, <3>3, <3>4, <3>5, <3>6, RootedNearMiss
    <3>8. QED
      BY <3>1, <3>7
  <2>2. QED
    BY <2>1 DEF RootedPathsExist
<1>2. QED
  BY <1>1, TreeCorrect, PTL

-----------------------------------------------------------------------------
(* The paths of the nodes that exist.                                      *)

\* When nothing is left to do every node's parent is there, and so are all the
\* nodes down to it.
LEMMA AncestorsExist ==
  ASSUME NEW t \in Seq(Nodes), Hanging(ToSet(t), {}), NEW n \in ToSet(t),
         NEW k \in 2 .. Len(n.place)
  PROVE  At(t, SubSeq(n.place, 1, k)) # {}
<1>1. PICK p, len : p = n.place /\ len = Len(p)
  OBVIOUS
<1>2. p \in Seq(STRING) /\ len \in Nat /\ len > 1
  BY <1>1, NodePlaces
<1> DEFINE G == { j \in Nat : j <= len - 2 => At(t, SubSeq(p, 1, len - j)) # {} }
<1>3. 0 \in G
  <2>1. SubSeq(p, 1, len) = p
    BY <1>1, <1>2, SubSeqFull
  <2>2. len - 0 = len
    BY <1>2
  <2>3. n \in At(t, SubSeq(p, 1, len - 0))
    BY <1>1, <2>1, <2>2 DEF At
  <2>4. QED
    BY <2>3
<1>4. ASSUME NEW j \in Nat, j \in G PROVE j + 1 \in G
  <2>1. SUFFICES ASSUME j + 1 <= len - 2 PROVE At(t, SubSeq(p, 1, len - (j + 1))) # {}
    OBVIOUS
  <2>2. PICK cut : cut = len - j
    OBVIOUS
  <2>3. cut \in 1 .. len /\ cut >= 3 /\ cut - 1 = len - (j + 1)
    BY <1>2, <2>1, <2>2
  <2>4. PICK a : a \in At(t, SubSeq(p, 1, cut))
    <3>1. j <= len - 2
      BY <1>2, <2>1
    <3>2. QED
      BY <1>4, <2>2, <3>1
  <2>5. a \in ToSet(t) /\ a.place = SubSeq(p, 1, cut)
    BY <2>4 DEF At
  <2>6. Front(a.place) = SubSeq(p, 1, cut - 1) /\ Len(SubSeq(p, 1, cut - 1)) = cut - 1
    <3>1. PICK S, m : S = STRING /\ m = cut - 1
      OBVIOUS
    <3>2. p \in Seq(S) /\ m \in 1 .. Len(p) /\ cut \in 1 .. Len(p)
      BY <1>1, <1>2, <2>3, <3>1
    <3>3. Front(SubSeq(p, 1, cut)) = SubSeq(p, 1, cut - 1)
      BY <2>3, <3>2, PrefixFront
    <3>4. Len(SubSeq(p, 1, m)) = m
      BY <3>2, PrefixIs
    <3>5. QED
      BY <2>5, <3>1, <3>3, <3>4
  <2>7. Grounded(Front(a.place), ToSet(t), {})
    BY <2>5 DEF Hanging
  <2>8. Len(Front(a.place)) # 1
    BY <2>3, <2>6
  <2>9. PICK b \in ToSet(t) : b.place = Front(a.place)
    BY <2>7, <2>8 DEF Grounded
  <2>10. b \in At(t, SubSeq(p, 1, cut - 1))
    BY <2>6, <2>9 DEF At
  <2>11. QED
    BY <2>3, <2>10
<1>5. len - k \in Nat /\ len - k <= len - 2 /\ len - (len - k) = k
  BY <1>1, <1>2
<1>6. len - k \in G
  <2> HIDE DEF G
  <2> QED BY <1>3, <1>4, <1>5, NumberInduction
<1>7. QED
  BY <1>1, <1>5, <1>6

\* No two nodes of the tree in one place.
Distinct(t) == \A i, j \in DOMAIN t : t[i].place = t[j].place => i = j

\* Then there is at most one at each.
LEMMA OneAt ==
  ASSUME NEW t, Distinct(t), NEW p, NEW a \in At(t, p) PROVE At(t, p) = {a}
<1>1. ASSUME NEW b \in At(t, p) PROVE b = a
  <2>1. PICK i \in DOMAIN t : t[i] = a
    BY DEF At, ToSet
  <2>2. PICK j \in DOMAIN t : t[j] = b
    BY DEF At, ToSet
  <2>3. t[i].place = t[j].place
    BY <2>1, <2>2 DEF At
  <2>4. QED
    BY <2>1, <2>2, <2>3 DEF Distinct
<1>2. QED
  BY <1>1

\* The path of a node, segment by segment.
LEMMA OwnPathIs ==
  ASSUME NEW t \in Seq(Nodes), t = tree, NEW n \in ToSet(t)
  PROVE  /\ OwnPath(n) \in Seq(Segments({"", n.place[1]})) /\ Len(OwnPath(n)) = Len(n.place) - 1
         /\ OwnPath(n) # << >>
         /\ \A j \in 1 .. Len(n.place) - 1 :
              OwnPath(n)[j] = Segment(IF j = 1 THEN n.place[1] ELSE "", n.place[j + 1],
                                      UNION { x.keys : x \in At(t, SubSeq(n.place, 1, j + 1)) })
<1>1. PICK p, k, v, M : /\ p = n.place /\ k = Len(p) - 1 /\ v = OwnPath(n)
                        /\ M = Segments({"", n.place[1]})
  OBVIOUS
<1>2. p \in Seq(STRING) /\ Len(p) \in Nat /\ k \in Nat \ {0} /\ k + 1 = Len(p)
  <2>1. p \in Seq(STRING) /\ Len(p) \in Nat /\ Len(p) > 1
    BY <1>1, NodePlaces
  <2>2. PICK len : len = Len(p)
    OBVIOUS
  <2>3. k = len - 1 /\ len \in Nat /\ len > 1
    BY <1>1, <2>1, <2>2
  <2>4. k \in Nat \ {0} /\ k + 1 = len
    BY <2>3
  <2>5. QED
    BY <2>1, <2>2, <2>4
<1>3. v = [ j \in 1 .. k |-> Segment(IF j = 1 THEN p[1] ELSE "", p[j + 1],
                                      UNION { x.keys : x \in At(t, SubSeq(p, 1, j + 1)) }) ]
  BY <1>1 DEF OwnPath
<1>4. ASSUME NEW j \in 1 .. k
      PROVE  Segment(IF j = 1 THEN p[1] ELSE "", p[j + 1],
                     UNION { x.keys : x \in At(t, SubSeq(p, 1, j + 1)) }) \in M
  <2>1. PICK module, name, preds :
          /\ module = IF j = 1 THEN p[1] ELSE ""
          /\ name = p[j + 1]
          /\ preds = UNION { x.keys : x \in At(t, SubSeq(p, 1, j + 1)) }
    OBVIOUS
  <2>2. name \in STRING
    <3>1. PICK S : S = STRING
      OBVIOUS
    <3>2. p \in Seq(S) /\ j + 1 \in 1 .. Len(p)
      BY <1>2, <3>1
    <3>3. QED
      BY <2>1, <3>1, <3>2, ElementOfSeq
  <2>3. preds \in SUBSET STRING
    <3>1. \A x \in ToSet(t) : x.keys \subseteq STRING
      BY SetOfSeq DEF Nodes
    <3>2. QED
      BY <2>1, <3>1 DEF At
  <2>4. module \in {"", n.place[1]}
    BY <1>1, <2>1
  <2>5. Segment(module, name, preds) \in M
    BY <1>1, <2>2, <2>3, <2>4 DEF Segment, Segments
  <2>6. QED
    BY <2>1, <2>5
<1>5. v \in [1 .. k -> M]
  BY <1>3, <1>4
<1>6. v \in Seq(M) /\ Len(v) = k
  <2>1. v \in Seq(M)
    BY <1>2, <1>5, SeqDef
  <2>2. DOMAIN v = 1 .. k
    BY <1>5
  <2>3. QED
    BY <1>2, <2>1, <2>2, LenProperties
<1>7. v # << >>
  BY <1>2, <1>6, EmptySeq
<1>8. QED
  BY <1>1, <1>3, <1>6, <1>7

\* A node's own keys fit it.
LEMMA KeysFit ==
  ASSUME NEW t \in Seq(Nodes), NEW a \in ToSet(t)
  PROVE  Fits(a, UNION { x.keys : x \in {a} })
<1>1. a \in Nodes
  BY SetOfSeq
<1>2. a.keys # {} => a.kw = "list"
  BY <1>1 DEF Nodes
<1>3. UNION { x.keys : x \in {a} } = a.keys
  OBVIOUS
<1>4. QED
  BY <1>2, <1>3 DEF Fits

\* The root step, where there is one node to find.
LEMMA StartFinds ==
  ASSUME NEW t, NEW seg, seg.module \in DOMAIN Modules, NEW a,
         Root(t, seg.module, seg.name) = {a}, Fits(a, seg.preds)
  PROVE  Start(t, seg) = {a}
<1>1. UNION { Root(t, m, seg.name) : m \in {seg.module} \cap DOMAIN Modules } = {a}
  OBVIOUS
<1>2. QED
  BY <1>1 DEF Start

\* resolve goes down the path of a node from its ancestors to itself.
LEMMA OwnPathResolves ==
  ASSUME NEW t \in Seq(Nodes), t = tree, Hanging(ToSet(t), {}), Distinct(t), NEW n \in ToSet(t)
  PROVE  Resolve(t, OwnPath(n)) = {n}
<1>1. PICK p, path, k : p = n.place /\ path = OwnPath(n) /\ k = Len(path)
  OBVIOUS
<1>2. p \in Seq(STRING) /\ p \in Places /\ Len(p) \in Nat /\ k \in Nat \ {0} /\ k + 1 = Len(p)
  <2>1. p \in Seq(STRING) /\ p \in Places /\ Len(p) \in Nat /\ Len(p) > 1
    BY <1>1, NodePlaces
  <2>2. PICK len : len = Len(p)
    OBVIOUS
  <2>3. k = len - 1 /\ len \in Nat /\ len > 1
    BY <1>1, <2>1, <2>2, OwnPathIs
  <2>4. k \in Nat \ {0} /\ k + 1 = len
    BY <2>3
  <2>5. QED
    BY <2>1, <2>2, <2>4
<1>3. PICK w : Stages(t, path, w)
  <2>1. PICK M : M = Segments({"", n.place[1]})
    OBVIOUS
  <2>2. path \in Seq(M) /\ path # << >>
    BY <1>1, <2>1, OwnPathIs
  <2>3. QED
    BY <2>2, ResolveStages
<1>4. ASSUME NEW j \in 1 .. k
      PROVE  \E a \in ToSet(t) : At(t, SubSeq(p, 1, j + 1)) = {a} /\ path[j].name = p[j + 1]
               /\ path[j].module = (IF j = 1 THEN p[1] ELSE "") /\ Fits(a, path[j].preds)
  <2>1. j + 1 \in 2 .. Len(p) /\ j \in 1 .. Len(n.place) - 1
    BY <1>1, <1>2
  <2>2. PICK m : m = j + 1
    OBVIOUS
  <2>3. At(t, SubSeq(p, 1, m)) # {}
    BY <1>1, <2>1, <2>2, AncestorsExist
  <2>4. PICK a : a \in At(t, SubSeq(p, 1, j + 1))
    BY <2>2, <2>3
  <2>5. At(t, SubSeq(p, 1, j + 1)) = {a}
    BY <2>4, OneAt
  <2>6. a \in ToSet(t)
    BY <2>4 DEF At
  <2>7. path[j] = Segment(IF j = 1 THEN p[1] ELSE "", p[j + 1],
                          UNION { x.keys : x \in At(t, SubSeq(p, 1, j + 1)) })
    <3>1. \A i \in 1 .. Len(n.place) - 1 :
            OwnPath(n)[i] = Segment(IF i = 1 THEN n.place[1] ELSE "", n.place[i + 1],
                                    UNION { x.keys : x \in At(t, SubSeq(n.place, 1, i + 1)) })
      BY OwnPathIs, Zenon
    <3>2. QED
      BY <1>1, <2>1, <3>1
  <2>8. path[j] = Segment(IF j = 1 THEN p[1] ELSE "", p[j + 1], UNION { x.keys : x \in {a} })
    BY <2>5, <2>7
  <2>9. Fits(a, UNION { x.keys : x \in {a} })
    BY <2>6, KeysFit
  <2>10. PICK module, name, preds :
           /\ module = IF j = 1 THEN p[1] ELSE ""
           /\ name = p[j + 1] /\ preds = UNION { x.keys : x \in {a} }
    OBVIOUS
  <2>11. path[j] = Segment(module, name, preds)
    BY <2>8, <2>10
  <2>12. path[j].module = module /\ path[j].name = name /\ path[j].preds = preds
    BY <2>11 DEF Segment
  <2>13. QED
    BY <2>5, <2>6, <2>9, <2>10, <2>12
<1> DEFINE G == { j \in Nat : j + 1 <= k => w[j + 1] = At(t, SubSeq(p, 1, j + 2)) }
<1>5. 0 \in G
  <2>1. 1 \in 1 .. k /\ 1 # 0 /\ 1 + 1 = 2
    BY <1>2
  <2>2. PICK a \in ToSet(t) :
          /\ At(t, SubSeq(p, 1, 1 + 1)) = {a} /\ path[1].name = p[1 + 1]
          /\ path[1].module = (IF 1 = 1 THEN p[1] ELSE "") /\ Fits(a, path[1].preds)
    BY <1>4, <2>1
  <2>3. SubSeq(p, 1, 2) = <<p[1], p[2]>>
    <3>1. PICK S, q : S = STRING /\ q = SubSeq(p, 1, 2)
      OBVIOUS
    <3>2. p \in Seq(S) /\ 2 \in 1 .. Len(p)
      BY <1>2, <3>1
    <3>3. q \in Seq(S) /\ Len(q) = 2 /\ \A i \in 1 .. 2 : q[i] = p[i]
      BY <3>1, <3>2, PrefixIs
    <3>4. q[1] = p[1] /\ q[2] = p[2]
      BY <3>3
    <3>5. p[1] \in S /\ p[2] \in S
      BY <3>2, ElementOfSeq
    <3>6. PICK u : u = <<p[1], p[2]>>
      OBVIOUS
    <3>7. u \in Seq(S) /\ Len(u) = 2 /\ u[1] = p[1] /\ u[2] = p[2]
      BY <3>5, <3>6
    <3>8. q = u
      BY <3>3, <3>4, <3>7, SeqEqual
    <3>9. QED
      BY <3>1, <3>6, <3>8
  <2>4. At(t, <<path[1].module, path[1].name>>) = {a}
    BY <2>1, <2>2, <2>3
  <2>5. Root(t, path[1].module, path[1].name) = {a}
    BY <2>4 DEF Root
  <2>6. path[1].module \in DOMAIN Modules
    BY <1>2, <2>2 DEF Places
  <2>7. PICK seg : seg = path[1]
    OBVIOUS
  <2>8. Start(t, seg) = {a}
    <3>1. /\ seg.module \in DOMAIN Modules
          /\ Root(t, seg.module, seg.name) = {a} /\ Fits(a, seg.preds)
      BY <2>2, <2>5, <2>6, <2>7, Zenon
    <3>2. QED
      BY <3>1, StartFinds, Zenon
  <2>9. w[1] = At(t, SubSeq(p, 1, 2))
    BY <1>3, <2>1, <2>2, <2>7, <2>8 DEF Stages
  <2>10. QED
    BY <2>9
<1>6. ASSUME NEW j \in Nat, j \in G PROVE j + 1 \in G
  <2>1. SUFFICES ASSUME (j + 1) + 1 <= k PROVE w[(j + 1) + 1] = At(t, SubSeq(p, 1, (j + 1) + 2))
    OBVIOUS
  <2>2. PICK i : i = j + 2
    OBVIOUS
  <2>3. /\ i \in 1 .. k /\ i \in 2 .. k /\ i - 1 \in 1 .. k /\ i # 1
        /\ (i - 1) + 1 = i /\ i - 1 = j + 1 /\ i = (j + 1) + 1 /\ i + 1 = (j + 1) + 2
        /\ i \in 1 .. Len(p) /\ i + 1 <= Len(p)
    BY <1>2, <2>1, <2>2
  <2>4. PICK y \in ToSet(t) : At(t, SubSeq(p, 1, (i - 1) + 1)) = {y}
    BY <1>4, <2>3
  <2>5. w[i - 1] = {y} /\ y.place = SubSeq(p, 1, i)
    <3>1. w[j + 1] = At(t, SubSeq(p, 1, j + 2))
      BY <1>6, <2>1, <2>3
    <3>2. At(t, SubSeq(p, 1, i)) = {y}
      BY <2>3, <2>4
    <3>3. y.place = SubSeq(p, 1, i)
      BY <3>2 DEF At
    <3>4. QED
      BY <2>2, <2>3, <3>1, <3>2, <3>3
  <2>6. PICK a \in ToSet(t) :
          /\ At(t, SubSeq(p, 1, i + 1)) = {a} /\ path[i].name = p[i + 1]
          /\ path[i].module = (IF i = 1 THEN p[1] ELSE "") /\ Fits(a, path[i].preds)
    BY <1>4, <2>3
  <2>7. Append(SubSeq(p, 1, i), p[i + 1]) = SubSeq(p, 1, i + 1)
    <3>1. PICK S : S = STRING
      OBVIOUS
    <3>2. p \in Seq(S)
      BY <1>2, <3>1
    <3>3. QED
      BY <2>3, <3>2, PrefixNext
  <2>8. PICK seg : seg = path[i]
    OBVIOUS
  <2>9. Child(t, y, seg.name) = {a}
    BY <2>5, <2>6, <2>7, <2>8 DEF Child
  <2>10. seg.module = ""
    BY <2>3, <2>6, <2>8
  <2>11. Follow(t, {y}, seg) = {a}
    <3>1. UNION { Child(t, x, seg.name) : x \in {y} } = {a}
      BY <2>9
    <3>2. Fits(a, seg.preds)
      BY <2>6, <2>8
    <3>3. QED
      BY <2>10, <3>1, <3>2 DEF Follow
  <2>12. w[i] = Follow(t, w[i - 1], path[i])
    BY <1>1, <1>3, <2>3 DEF Stages
  <2>13. w[i] = At(t, SubSeq(p, 1, i + 1))
    BY <2>5, <2>6, <2>8, <2>11, <2>12
  <2>14. QED
    BY <2>3, <2>13
<1>7. w[k] = At(t, SubSeq(p, 1, k + 1))
  <2>1. Nat \subseteq G
    <3> HIDE DEF G
    <3> QED BY <1>5, <1>6, NumberInduction
  <2>2. k - 1 \in Nat /\ (k - 1) + 1 = k /\ k <= k /\ (k - 1) + 2 = k + 1
    BY <1>2
  <2>3. k - 1 \in G
    BY <2>1, <2>2
  <2>4. (k - 1) + 1 <= k => w[(k - 1) + 1] = At(t, SubSeq(p, 1, (k - 1) + 2))
    BY <2>3
  <2>5. QED
    BY <2>2, <2>4
<1>8. SubSeq(p, 1, k + 1) = p
  <2>1. SubSeq(p, 1, Len(p)) = p
    BY <1>2, SubSeqFull
  <2>2. QED
    BY <1>2, <2>1
<1>9. n \in At(t, p)
  BY <1>1 DEF At
<1>10. At(t, p) = {n}
  BY <1>9, OneAt
<1>11. Resolve(t, path) = w[k]
  BY <1>1, <1>3 DEF Stages
<1>12. QED
  BY <1>1, <1>7, <1>8, <1>10, <1>11

\* No emitted document is rejected for naming a node that exists, as long as
\* siblings have different names, as YANG demands (model.py:293-339): it takes
\* that the modules are resolved, and that no node hangs in the air.
THEOREM EveryNodeIsFound == Spec => [](SiblingsDiffer => ExistingPathsAccepted)
<1>1. TreeInvariant => (SiblingsDiffer => ExistingPathsAccepted)
  <2>1. SUFFICES ASSUME TreeInvariant, SiblingsDiffer, Done, NEW n \in ToSet(tree)
                 PROVE  Resolve(tree, OwnPath(n)) = {n}
    BY DEF ExistingPathsAccepted
  <2>2. PICK t : t = tree
    OBVIOUS
  <2>3. t \in Seq(Nodes) /\ n \in ToSet(t) /\ Distinct(t)
    BY <2>1, <2>2 DEF TreeInvariant, TypeOK, SiblingsDiffer, Distinct
  <2>4. ToSet(todo) = {}
    BY <2>1, NoTasks DEF Done
  <2>5. Hanging(ToSet(t), {})
    BY <2>1, <2>2, <2>4 DEF TreeInvariant
  <2>6. Resolve(t, OwnPath(n)) = {n}
    BY <2>2, <2>3, <2>5, OwnPathResolves
  <2>7. QED
    BY <2>2, <2>6
<1>2. QED
  BY <1>1, TreeCorrect, PTL
=============================================================================
