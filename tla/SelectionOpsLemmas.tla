------------------------- MODULE SelectionOpsLemmas -------------------------
(***************************************************************************)
(* Facts about the selection operators of SelectionOps.                    *)
(***************************************************************************)
EXTENDS SelectionOps, FiniteSetTheorems, TLAPS

\* Every list truncateReturned may return has at most numNodes members,
\* all of them from the list it was given.
LEMMA TruncateBound ==
  ASSUME NEW S, IsFiniteSet(S), NEW k \in Nat, NEW T \in truncateReturned(S, k)
  PROVE  /\ T \subseteq S
         /\ IsFiniteSet(T)
         /\ Cardinality(T) <= k
  <1>1. T \subseteq S /\ Cardinality(T) = IF Cardinality(S) < k
                                         THEN Cardinality(S) ELSE k
    BY DEF truncateReturned
  <1>2. Cardinality(S) \in Nat
    BY FS_CardinalityType
  <1>3. QED
    BY <1>1, <1>2, FS_Subset

\* Every node SelectNode may choose is one of the candidates it was given.
LEMMA SelectNodeInCandidates ==
  ASSUME NEW Cs, NEW g, NEW l, NEW h, NEW k
  PROVE  SelectNode(Cs, g, l, h, k) \subseteq Cs
  <1>1. selectTopNodes(Cs, g, l, h, k) \subseteq SUBSET Cs
    <2>1. \A S : S \subseteq Cs => truncateReturned(S, k) \subseteq SUBSET Cs
      BY DEF truncateReturned
    <2>2. WeightedTop(Cs, g, l, h, k) \subseteq SUBSET Cs
      BY <2>1 DEF WeightedTop
    <2>3. LocalHasStreamNotOverloaded(Cs, g, l, h) \subseteq Cs
      BY DEF LocalHasStreamNotOverloaded
    <2>4. LocalNotOverloaded(Cs, g, l) \subseteq Cs
      BY DEF LocalNotOverloaded
    <2>5. QED
      BY <2>1, <2>2, <2>3, <2>4 DEF selectTopNodes
  <1>2. QED
    BY <1>1 DEF SelectNode

\* The node chosen from a tier 3 list has fewer than numNodes candidates
\* with a strictly higher Score: all of those are in the list with it.
LEMMA WeightedTopBound ==
  ASSUME NEW Cs, IsFiniteSet(Cs), NEW g, NEW l, NEW h, NEW k \in Nat,
         NEW T \in WeightedTop(Cs, g, l, h, k), NEW n \in T,
         \A x \in Cs : Score(g, l, h, x) \in Nat
  PROVE  Cardinality({x \in Cs : Score(g, l, h, x) > Score(g, l, h, n)}) < k
  <1> DEFINE B == {x \in Cs : Score(g, l, h, x) > Score(g, l, h, n)}
  <1>1. /\ T \in truncateReturned(Cs, k)
        /\ \A t \in T, o \in Cs \ T : Score(g, l, h, t) >= Score(g, l, h, o)
    BY DEF WeightedTop
  <1>2. T \subseteq Cs /\ IsFiniteSet(T) /\ Cardinality(T) <= k
    BY <1>1, TruncateBound
  <1>3. B \subseteq T \ {n}
    BY <1>1, <1>2
  <1>4. IsFiniteSet(T \ {n}) /\ Cardinality(T \ {n}) = Cardinality(T) - 1
    BY <1>2, FS_RemoveElement
  <1>5. Cardinality(B) <= Cardinality(T \ {n})
    BY <1>3, <1>4, FS_Subset
  <1>6. Cardinality(T) \in Nat /\ Cardinality(B) \in Nat
    BY <1>2, <1>3, <1>4, FS_Subset, FS_CardinalityType
  <1>7. QED
    BY <1>2, <1>4, <1>5, <1>6

=============================================================================
