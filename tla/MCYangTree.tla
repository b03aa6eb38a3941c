------------------------------ MODULE MCYangTree ------------------------------
(***************************************************************************)
(* YangTree on five modules shaped like those the repository ships: an     *)
(* augment of an augment (ats of bridge of interfaces), a grouping from a  *)
(* submodule that is augmented where it is used, a choice, a module that   *)
(* augments itself without a prefix, and a name used both at the top of a  *)
(* module and inside it.  In the directory ats sorts before bridge, as     *)
(* ieee802-dot1q-ats-bridge does before ieee802-dot1q-bridge.              *)
(***************************************************************************)
EXTENDS YangTree

Data(kw, name, keys, body) ==
  [kw |-> kw, arg |-> name, keys |-> keys, body |-> body, augments |-> << >>]

Leaf(name) == Data("leaf", name, {}, << >>)

Module(kind, prefix, imports, includes, body, augments) ==
  [ kind |-> kind, prefix |-> prefix, imports |-> imports, includes |-> includes,
    groupings |-> << >>, body |-> body, augments |-> augments ]

MCModules ==
  [ interfaces |->
      Module("module", "if", << >>, << >>,
        << Data("container", "interfaces", {},
             << Data("list", "interface", {"name"}, <<Leaf("name")>>) >>) >>, << >>),
    bridge |->
      Module("module", "br", [if |-> "interfaces"], <<"types">>, << >>,
        << [ path |-> << <<"if", "interfaces">>, <<"if", "interface">> >>,
             body |-> << Data("container", "port", {},
               << [ kw |-> "uses", arg |-> <<"", "gates">>, keys |-> {}, body |-> << >>,
                    augments |-> << [path |-> <<"table">>, body |-> <<Leaf("state")>>] >> ] >>) >>
           ] >>),
    types |->
      [ Module("submodule", "br", << >>, << >>, << >>, << >>) EXCEPT
          !.groupings = [ gates |-> << Data("container", "table", {}, <<Leaf("cycle")>>) >> ] ],
    ats |->
      Module("module", "ats", [if |-> "interfaces", br |-> "bridge", frer |-> "frer"], << >>, << >>,
        << [ path |-> << <<"if", "interfaces">>, <<"if", "interface">>, <<"br", "port">> >>,
             body |-> << Leaf("cycle") >> ],
           [ path |-> << <<"frer", "identity">> >>, body |-> << Leaf("tag") >> ] >>),
    frer |->
      Module("module", "frer", << >>, << >>,
        << Data("list", "identity", {"index"}, <<Leaf("index")>>),
           Data("container", "frer", {},
             << Data("choice", "kind", {},
                  << Data("list", "recovery", {"index"},
                       << Leaf("index"), Data("container", "identity", {}, << >>) >>) >>) >>) >>,
        << [ path |-> << <<"", "frer">>, <<"", "recovery">> >>, body |-> << Leaf("tag") >> ] >>) ]

MCOrders == SetToSeqs(DOMAIN MCModules)

RECURSIVE Within(_)
\* The statements of a sequence, at any depth.
Within(body) ==
  UNION { {st} \cup Within(st.body) \cup UNION { Within(a.body) : a \in ToSet(st.augments) } :
            st \in ToSet(body) }

MCStatements ==
  UNION { Within(text.body) \cup UNION { Within(g) : g \in Range(text.groupings) }
            \cup UNION { Within(a.body) : a \in ToSet(text.augments) } :
            text \in Range(MCModules) }

-----------------------------------------------------------------------------
(* Reference: the nodes the modules define, as a set.  Augments are        *)
(* applied wherever they can be, until nothing is left to apply.           *)

PlacesOf(nodes) == { n.place : n \in nodes }

RECURSIVE Defined(_, _, _)
\* What statements of module m define below place.
Defined(m, body, place) ==
  UNION { IF st.kw = "uses"
          THEN LET brought == UNION { Defined(h, Modules[h].groupings[st.arg[2]], place) :
                                        h \in { Homes(m, st.arg)[i] : i \in Holding(m, st.arg) } }
               IN  brought \cup UNION { Defined(m, a.body, place \o a.path) :
                     a \in { a \in ToSet(st.augments) : place \o a.path \in PlacesOf(brought) } }
          ELSE IF st.kw \in TRANSPARENT THEN Defined(m, st.body, place)
          ELSE { [place |-> Append(place, st.arg), module |-> m, kw |-> st.kw, keys |-> st.keys] }
                 \cup Defined(m, st.body, Append(place, st.arg)) :
            st \in ToSet(body) }

Text(k) == Modules[k[1]].augments[k[2]]

\* Where the i-th augment of module m goes: an absolute path.
TargetPlace(k) ==
  LET prefix == Text(k).path[1][1]
  IN  <<IF prefix = "" THEN k[1] ELSE Imports[k[1]][prefix]>>
        \o [ j \in DOMAIN Text(k).path |-> Text(k).path[j][2] ]

RECURSIVE Saturated(_, _)
Saturated(nodes, augments) ==
  LET ready == { k \in augments : TargetPlace(k) \in PlacesOf(nodes) }
  IN  IF ready = {} THEN nodes
      ELSE Saturated(nodes \cup UNION { Defined(k[1], Text(k).body, TargetPlace(k)) : k \in ready },
                     augments \ ready)

Plain ==
  UNION { Defined(m, Modules[m].body, <<m>>) :
            m \in { m \in DOMAIN Modules : Modules[m].kind = "module" } }

\* The i-th augment of the module at each position of the order.
Before(o, k) ==
  UNION { { <<o[j], i>> : i \in DOMAIN Modules[o[j]].augments } :
            j \in { j \in DOMAIN o : \E l \in DOMAIN o : j < l /\ o[l] = k[1] } }
    \cup { <<k[1], i>> : i \in 1 .. k[2] - 1 }

AllAugments == UNION { { <<m, i>> : i \in DOMAIN Modules[m].augments } : m \in DOMAIN Modules }

Standard == Saturated(Plain, AllAugments)

\* Every augment comes after those that make its target.
DependenciesFirst ==
  \A k \in AllAugments : TargetPlace(k) \in PlacesOf(Saturated(Plain, Before(order, k)))

\* Whatever the order of the files, the tree has no node the modules do not
\* define, and none twice; and it has all of them if each augment is read after
\* those it builds on ("augments last: their targets must already exist",
\* model.py:256).
OnePassIsEnoughInOrder ==
  Done => /\ SiblingsDiffer
          /\ ToSet(tree) \subseteq Standard
          /\ DependenciesFirst => ToSet(tree) = Standard
=============================================================================
