------------------------------- MODULE YangTree -------------------------------
(***************************************************************************)
(* schemas/yang/model.py: a set of YANG modules resolved into one data     *)
(* tree, and the question whether an instance path exists in it.           *)
(*                                                                         *)
(* A parsed module is a record [kind, prefix, imports, includes,           *)
(* groupings, body, augments].  A statement is a record [kw, arg, keys,    *)
(* body, augments]; the arg of a uses is <<prefix, name>>, and prefix ""   *)
(* stands for none.  The tree is the sequence of its nodes in the order    *)
(* they are made; a node's place is its root module and the names down to  *)
(* it.  The recursion of _expand is an agenda: what a call still has to do *)
(* comes before what its caller has to do after it.                        *)
(***************************************************************************)
EXTENDS Integers, SequencesExt, FiniteSetsExt

CONSTANTS
  Modules,     \* module name -> its parsed text
  Statements,  \* the statements of the files that _expand reads, at any depth
  Orders       \* the orders in which the files may be read

DATA_KEYWORDS == {"container", "list", "leaf", "leaf-list", "anydata", "anyxml", "notification"}

TRANSPARENT == {"choice", "case", "input", "output"}

\* An augment of a uses: the names down to its target, and what goes there.
Refinements == [path : Seq(STRING) \ {<< >>}, body : Seq(Statements)]

\* An augment of a module: its path is absolute, and each name has a prefix, or "".
Augments == [path : Seq(STRING \X STRING) \ {<< >>}, body : Seq(Statements)]

ASSUME ModulesAssumption ==
  /\ DOMAIN Modules \subseteq STRING
  /\ \A m \in DOMAIN Modules :
       /\ Modules[m].includes \in Seq(STRING) /\ Modules[m].body \in Seq(Statements)
       /\ \A g \in DOMAIN Modules[m].groupings : Modules[m].groupings[g] \in Seq(Statements)
       /\ Modules[m].augments \in Seq(Augments)
  /\ \A o \in Orders : o \in Seq(DOMAIN Modules) /\ ToSet(o) = DOMAIN Modules

\* As YANG's grammar has it: only a list has keys.
ASSUME StatementsAssumption ==
  \A s \in Statements :
    /\ s.kw \in {"uses"} \cup TRANSPARENT \cup DATA_KEYWORDS
    /\ s.keys \in SUBSET STRING /\ s.body \in Seq(Statements)
    /\ s.kw = "uses" => s.augments \in Seq(Refinements)
    /\ s.kw \in DATA_KEYWORDS => s.arg \in STRING
    /\ s.keys # {} => s.kw = "list"

VARIABLES
  order,     \* the order of the files
  todo,      \* what is still to be done, the next thing first
  tree       \* the nodes made so far

vars == <<order, todo, tree>>

-----------------------------------------------------------------------------
(* Names.                                                                  *)

\* dict.update: what is included wins.
Updated(f, g) == [ k \in DOMAIN f \cup DOMAIN g |-> IF k \in DOMAIN g THEN g[k] ELSE f[k] ]

\* prefix -> module name, the module's own and its includes' among them.
Imports[m \in DOMAIN Modules] ==
  LET own  == Updated([ p \in {Modules[m].prefix} |-> m ], Modules[m].imports)
      read == SelectSeq(Modules[m].includes, LAMBDA i : i \in (DOMAIN Modules) \ {m})
  IN  FoldLeft(Updated, own, [ i \in DOMAIN read |-> Imports[read[i]] ])

\* The modules a prefix stands for, one or none; without it, the module itself.
Importing(m, prefix) ==
  IF prefix = "" THEN {m} ELSE { Imports[m][p] : p \in {prefix} \cap DOMAIN Imports[m] }

\* Where the grouping of a uses may be: in the module its prefix stands for, or
\* in the module itself and its submodules.
Homes(m, ref) ==
  IF ref[1] = "" THEN <<m>> \o Modules[m].includes
  ELSE IF ref[1] \in DOMAIN Imports[m] THEN << Imports[m][ref[1]] >> ELSE << >>

Holding(m, ref) ==
  { i \in DOMAIN Homes(m, ref) :
      Homes(m, ref)[i] \in { h \in DOMAIN Modules : ref[2] \in DOMAIN Modules[h].groupings } }

At(t, place) == { n \in ToSet(t) : n.place = place }

\* Mutant: the fallback comes first.
RootAnywhere(t, m, name) ==
  LET named == { i \in DOMAIN t : t[i].module = m /\ Last(t[i].place) = name }
  IN  IF named # {} THEN {t[Max(named)]} ELSE At(t, <<m, name>>)

\* The node a path starts at: at the top of the module or, failing that, the
\* last node of that name the module made anywhere.
Root(t, m, name) ==
  LET named == { i \in DOMAIN t : t[i].module = m /\ Last(t[i].place) = name }
  IN  IF At(t, <<m, name>>) # {} \/ named = {} THEN At(t, <<m, name>>)
      ELSE {t[Max(named)]}

\* Mutant: any node below will do.
Below(t, node, name) ==
  { n \in ToSet(t) : IsStrictPrefix(node.place, n.place) /\ Last(n.place) = name }

Child(t, node, name) == At(t, Append(node.place, name))

\* _walk_schema: the node an augment of module m is for.
Target(t, m, path) ==
  LET below == [ i \in 1 .. Len(path) - 1 |-> path[i + 1][2] ]
      roots == UNION { Root(t, h, path[1][2]) : h \in Importing(m, path[1][1]) }
  IN  UNION { At(t, root.place \o below) : root \in roots }

-----------------------------------------------------------------------------
(* The agenda.                                                             *)

Task(do, m, place, depth, what) ==
  [do |-> do, module |-> m, place |-> place, depth |-> depth, what |-> what]

\* _expand: the statements of module m, to be read one by one below place.
Expansion(m, body, place, depth) ==
  IF depth > 40 THEN << >>
  ELSE [ i \in DOMAIN body |-> Task("read", m, place, depth, body[i]) ]

\* Mutant: each module's augments follow its own expansion.
AgendaByModule(o) ==
  [ i \in 1 .. 2 * Len(o) |->
      Task(IF i % 2 = 1 THEN "expand" ELSE "augments", o[(i + 1) \div 2], <<o[(i + 1) \div 2]>>, 0, << >>) ]

\* _build: every module expanded, then every augment applied, in file order.
Agenda(o) ==
  [ i \in 1 .. 2 * Len(o) |->
      IF i <= Len(o) THEN Task("expand", o[i], <<o[i]>>, 0, << >>)
      ELSE Task("augments", o[i - Len(o)], <<o[i - Len(o)]>>, 0, << >>) ]

Places == { p \in Seq(STRING) : p # << >> /\ p[1] \in DOMAIN Modules }

Nodes ==
  { n \in [place : Places, module : DOMAIN Modules, kw : DATA_KEYWORDS, keys : SUBSET STRING] :
      Len(n.place) > 1 /\ (n.keys # {} => n.kw = "list") }

\* The kinds of task, by what they are about.
TasksOn(do, whats) ==
  [do : {do}, module : DOMAIN Modules, place : Places, depth : Nat, what : whats]

Tasks ==
  TasksOn("expand", {<< >>}) \cup TasksOn("augments", {<< >>}) \cup TasksOn("augment", Augments)
    \cup TasksOn("read", Statements) \cup TasksOn("refine", Refinements)
    \cup { k \in TasksOn("make", Statements) : Len(k.place) > 1 /\ k.what.kw \in DATA_KEYWORDS }

TypeOK ==
  /\ order \in Orders
  /\ todo \in Seq(Tasks)
  /\ tree \in Seq(Nodes)

Init ==
  /\ order \in Orders
  /\ todo = Agenda(order)
  /\ tree = << >>

Done == todo = << >>

now == Head(todo)

\* The next thing is to do this, and it leads to these tasks first.
Doing(this) == todo # << >> /\ now.do = this

Then(tasks) == todo' = tasks \o Tail(todo) /\ UNCHANGED <<order, tree>>

\* A module makes a tree of its own, a submodule does not.
ExpandModule ==
  /\ Doing("expand")
  /\ Then(IF Modules[now.module].kind = "module"
          THEN Expansion(now.module, Modules[now.module].body, now.place, 0) ELSE << >>)

ListAugments ==
  /\ Doing("augments")
  /\ LET augments == Modules[now.module].augments
     IN  Then([ i \in DOMAIN augments |-> Task("augment", now.module, now.place, 0, augments[i]) ])

\* An augment without a target is passed over.
Augment ==
  /\ Doing("augment")
  /\ LET target == Target(tree, now.module, now.what.path)
     IN  \/ target = {} /\ Then(<< >>)
         \/ \E n \in target : Then(Expansion(now.module, now.what.body, n.place, 0))

Reading == Doing("read")

\* uses: the grouping's statements, under the module that holds it, and then
\* what is to be added to them.
Use ==
  /\ Reading /\ now.what.kw = "uses"
  /\ LET ref     == now.what.arg
         holding == Holding(now.module, ref)
         home    == Homes(now.module, ref)[Min(holding)]
         more    == now.what.augments
     IN  Then((IF holding = {} THEN << >>
               ELSE Expansion(home, Modules[home].groupings[ref[2]], now.place, now.depth + 1))
              \o [ i \in DOMAIN more |-> Task("refine", now.module, now.place, now.depth, more[i]) ])

Refine ==
  /\ Doing("refine")
  /\ LET place == now.place \o now.what.path
     IN  Then(IF At(tree, place) = {} THEN << >>
              ELSE Expansion(now.module, now.what.body, place, now.depth + 1))

\* The children of a choice or a case belong to its parent.
Descend ==
  /\ Reading /\ now.what.kw \in TRANSPARENT
  /\ Then(Expansion(now.module, now.what.body, now.place, now.depth + 1))

\* What may have children.
Inside(st) == IF st.kw \in {"container", "list", "notification"} THEN st.body ELSE << >>

\* A node is in the tree once its children are.
Enter ==
  /\ Reading /\ now.what.kw \in DATA_KEYWORDS
  /\ LET place == Append(now.place, now.what.arg)
     IN  Then(Append(Expansion(now.module, Inside(now.what), place, now.depth + 1),
                     Task("make", now.module, place, now.depth, now.what)))

Make ==
  /\ Doing("make")
  /\ tree' = Append(tree, [ place |-> now.place, module |-> now.module,
                            kw |-> now.what.kw, keys |-> now.what.keys ])
  /\ todo' = Tail(todo)
  /\ UNCHANGED order

Next ==
  \/ ExpandModule \/ ListAugments \/ Augment
  \/ Use \/ Refine \/ Descend \/ Enter \/ Make
  \/ Done /\ UNCHANGED vars

Spec == Init /\ [][Next]_vars

-----------------------------------------------------------------------------
(* The question.  A segment is [module, name, preds].                      *)

\* Predicates are for lists, and about their keys.
Fits(node, preds) == preds # {} => node.kw = "list" /\ preds \subseteq node.keys

\* The step of resolve from a node that exists; {} is a rejection.
Follow(t, found, seg) ==
  { n \in UNION { Child(t, x, seg.name) : x \in found } :
      seg.module \in {""} \cup DOMAIN Modules /\ Fits(n, seg.preds) }

\* The root step: a module and one of its nodes.
Start(t, seg) ==
  { n \in UNION { Root(t, m, seg.name) : m \in {seg.module} \cap DOMAIN Modules } : Fits(n, seg.preds) }

\* resolve: the node the path leads to, or nothing.
Resolve(t, path) ==
  FoldLeft(LAMBDA found, seg : Follow(t, found, seg), Start(t, path[1]), Tail(path))

-----------------------------------------------------------------------------
(* What the validator promises.                                            *)

\* Siblings have different names, as YANG demands of the modules.
SiblingsDiffer == \A i, j \in DOMAIN tree : tree[i].place = tree[j].place => i = j

Segment(m, name, preds) == [module |-> m, name |-> name, preds |-> preds]

\* The nodes where node n's path passes when back names are still to come.
Ancestor(t, n, back) == At(t, SubSeq(n.place, 1, Len(n.place) - back))

\* Each segment of the path is about a node on the way to n, which the module
\* made or whose root it is where the path starts, and a predicate is on a list
\* and about its keys.
LeadsTo(t, path, n) ==
  \A i \in DOMAIN path :
    \E x \in Ancestor(t, n, Len(path) - i) :
      /\ Last(x.place) = path[i].name
      /\ path[i].module \in IF i = 1 THEN {x.module, x.place[1]} ELSE {""} \cup DOMAIN Modules
      /\ Fits(x, path[i].preds)

\* A node's path, from its i-th name on, with the last name replaced.
Variation(n, i, last) ==
  [ j \in 1 .. Len(n.place) - i + 1 |->
      IF j = Len(n.place) - i + 1 THEN last ELSE n.place[i + j - 1] ]

Names == { Last(n.place) : n \in ToSet(tree) }

Variations ==
  UNION { UNION { { Variation(n, i, last) : last \in Names } : i \in 2 .. Len(n.place) } :
            n \in ToSet(tree) }

AnyModule == (DOMAIN Modules) \cup {"", "unknown"}

AnyPreds == SUBSET UNION { n.keys : n \in ToSet(tree) }

\* A path that is nearly right: module m at its first segment, p at the others,
\* and predicates at its last.
NearMiss(names, m, p, preds) ==
  [ j \in DOMAIN names |->
      Segment(IF j = 1 THEN m ELSE p, names[j], IF j = Len(names) THEN preds ELSE {}) ]

\* The node at the path's place, from the module it names down name by name.
IsAt(path, n) == n.place = <<path[1].module>> \o [ i \in DOMAIN path |-> path[i].name ]

\* Where a path starts at a node that is at the top of the module it names, the
\* validator accepts it for the node at the end of it and no other, with
\* predicates on lists and about their keys: it is not led astray by a name that
\* another parent has too (model.py:5, :293-299).
RootedPathsExist ==
  Done =>
    \A names \in Variations, m \in AnyModule, p \in {"", "unknown", order[1]}, preds \in AnyPreds :
      At(tree, <<m, names[1]>>) # {} =>
        LET path == NearMiss(names, m, p, preds)
        IN  \A n \in Resolve(tree, path) : IsAt(path, n) /\ LeadsTo(tree, path, n)

\* A path that is accepted exists: "Does this instance-data path exist?"
\* (model.py:294); "has no top-level node" is the answer where it does not start
\* at one (model.py:320).
AcceptedPathsExist ==
  Done =>
    \A names \in Variations, m \in AnyModule :
      LET path == NearMiss(names, m, "", {})
      IN  \A n \in Resolve(tree, path) : IsAt(path, n)

\* A node's own path, the keys of each list on the way and the module of its
\* root included.
OwnPath(n) ==
  [ j \in 1 .. Len(n.place) - 1 |->
      Segment(IF j = 1 THEN n.place[1] ELSE "", n.place[j + 1],
              UNION { x.keys : x \in At(tree, SubSeq(n.place, 1, j + 1)) }) ]

\* Every node of the tree is accepted under its own path, keys and all, with
\* the module of its root first: no emitted document is rejected for naming a
\* node that exists (tests/conformance/test_yang_paths.py).
ExistingPathsAccepted ==
  Done => \A n \in ToSet(tree) : Resolve(tree, OwnPath(n)) = {n}
=============================================================================
