--------------------------- MODULE SelectionCheck ---------------------------
(***************************************************************************)
(* SelectNode over every candidate list drawn from a small set of nodes:   *)
(* the input (candidates, their GeoScore, GetLoadScore and whether they    *)
(* have the stream) is fixed by Init, and each step is one call of         *)
(* SelectNode on it (src/unnamed/part_002:239-252).                        *)
(***************************************************************************)
EXTENDS SelectionOps

CONSTANTS
  Cands,     \* names of possible candidates
  NoNode,    \* no node chosen yet
  NumNodes   \* numNodes passed by SelectNode to selectTopNodes (3)

ASSUME NumNodesAssumption == NumNodes \in Nat \ {0}
ASSUME CandsAssumption == IsFiniteSet(Cands) /\ NoNode \notin Cands

VARIABLES C, geo, load, has, chosen

vars == <<C, geo, load, has, chosen>>

Init ==
  /\ C \in SUBSET Cands
  /\ geo \in [C -> 0..2]
  /\ load \in [C -> 0..2]
  /\ has \in SUBSET C
  /\ chosen = NoNode

\* SelectNode returns a node chosen at random from the top list.
Pick ==
  /\ ~SelectNodeFails(C, geo, load, has, NumNodes)
  /\ chosen' \in SelectNode(C, geo, load, has, NumNodes)
  /\ UNCHANGED <<C, geo, load, has>>

\* SelectNode returns an error ("no nodes to select from").
PickFails ==
  /\ SelectNodeFails(C, geo, load, has, NumNodes)
  /\ chosen' = NoNode
  /\ UNCHANGED <<C, geo, load, has>>

Next == Pick \/ PickFails

Spec == Init /\ [][Next]_vars

-----------------------------------------------------------------------------
TypeOK ==
  /\ C \subseteq Cands
  /\ geo \in [C -> 0..2]
  /\ load \in [C -> 0..2]
  /\ has \subseteq C
  /\ chosen \in C \cup {NoNode}

\* A local (GeoScore 2) candidate that is not overloaded (load score 2).
Good(x) == geo[x] = 2 /\ load[x] = 2

\* The tiers of selectTopNodes (part_002:254-297) as seen from the node
\* SelectNode picks: when a local, not overloaded candidate has the stream
\* such a node is chosen; else, when a local not overloaded candidate
\* exists, one of those is chosen; else fewer than numNodes candidates have
\* a strictly higher weighted Score than the chosen one.
TierPreference ==
  chosen # NoNode =>
    /\ (\E x \in C : Good(x) /\ x \in has) => Good(chosen) /\ chosen \in has
    /\ (\E x \in C : Good(x)) => Good(chosen)
    /\ (\A x \in C : ~Good(x)) =>
         Cardinality({x \in C : Score(geo, load, has, x) >
                                Score(geo, load, has, chosen)}) < NumNodes

=============================================================================
