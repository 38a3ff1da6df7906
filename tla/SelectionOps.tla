---------------------------- MODULE SelectionOps ----------------------------
(***************************************************************************)
(* The pure selection algorithm of the catalyst balancer: selectTopNodes   *)
(* and SelectNode (src/unnamed/part_002:239-311). A candidate list is      *)
(* abstracted to what the algorithm reads of it: the set C of candidate    *)
(* names, their GeoScore and GetLoadScore, and the set of those that       *)
(* HasStream the requested stream. A list the code returns after           *)
(* rand.Shuffle or sort.Slice is a set here: the shuffle and the unstable  *)
(* sort over map order make any order (consistent with the sort) possible, *)
(* and SelectNode picks a uniformly random member of it.                   *)
(***************************************************************************)
EXTENDS Naturals, FiniteSets

\* Tier 3 weight: GeoScore + GetLoadScore + 2 when the node has the stream.
Score(geo, load, has, n) == geo[n] + load[n] + (IF n \in has THEN 2 ELSE 0)

\* truncateReturned: the first numNodes of a list, or all of it when
\* shorter; over an arbitrarily ordered list, any subset of that size.
truncateReturned(S, numNodes) ==
  {T \in SUBSET S : Cardinality(T) = IF Cardinality(S) < numNodes
                                     THEN Cardinality(S) ELSE numNodes}

\* Tier 1 and tier 2 of selectTopNodes.
LocalHasStreamNotOverloaded(C, geo, load, has) ==
  {n \in C : geo[n] = 2 /\ n \in has /\ load[n] = 2}
LocalNotOverloaded(C, geo, load) == {n \in C : geo[n] = 2 /\ load[n] = 2}

\* Mutant: the tier 3 list sorted ascending (comparator ">" turned "<").
WeightedTopAscending(C, geo, load, has, numNodes) ==
  {T \in truncateReturned(C, numNodes) :
     \A t \in T, o \in C \ T : Score(geo, load, has, t) <= Score(geo, load, has, o)}

\* Tier 3: the list sorted by descending Score, then truncated.
WeightedTop(C, geo, load, has, numNodes) ==
  {T \in truncateReturned(C, numNodes) :
     \A t \in T, o \in C \ T : Score(geo, load, has, t) >= Score(geo, load, has, o)}

\* selectTopNodes: the sets of nodes it may return.
selectTopNodes(C, geo, load, has, numNodes) ==
  LET tier1 == LocalHasStreamNotOverloaded(C, geo, load, has)
      tier2 == LocalNotOverloaded(C, geo, load)
  IN IF tier1 # {} THEN truncateReturned(tier1, numNodes)
     ELSE IF tier2 # {} THEN truncateReturned(tier2, numNodes)
     ELSE WeightedTop(C, geo, load, has, numNodes)

\* SelectNode fails on an empty candidate list or an empty top list.
SelectNodeFails(C, geo, load, has, numNodes) ==
  C = {} \/ {} \in selectTopNodes(C, geo, load, has, numNodes)

\* SelectNode: the nodes it may choose (numNodes is 3 in the code).
SelectNode(C, geo, load, has, numNodes) ==
  UNION selectTopNodes(C, geo, load, has, numNodes)

=============================================================================
