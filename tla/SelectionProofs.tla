--------------------------- MODULE SelectionProofs ---------------------------
(***************************************************************************)
(* Proof that SelectNode respects the tiers of selectTopNodes for every    *)
(* finite set of candidates, every GeoScore, load score and stream         *)
(* presence, and every numNodes > 0.                                       *)
(***************************************************************************)
EXTENDS SelectionCheck, SelectionOpsLemmas, TLAPS

\* Every node SelectNode may choose satisfies the three tier conditions.
LEMMA SelectNodeTiers ==
  ASSUME TypeOK, NEW n \in SelectNode(C, geo, load, has, NumNodes)
  PROVE  /\ (\E x \in C : Good(x) /\ x \in has) => Good(n) /\ n \in has
         /\ (\E x \in C : Good(x)) => Good(n)
         /\ (\A x \in C : ~Good(x)) =>
              Cardinality({x \in C : Score(geo, load, has, x) >
                                     Score(geo, load, has, n)}) < NumNodes
  <1> DEFINE t1 == LocalHasStreamNotOverloaded(C, geo, load, has)
             t2 == LocalNotOverloaded(C, geo, load)
  <1>1. IsFiniteSet(C)
    <2>1. C \subseteq Cands /\ IsFiniteSet(Cands)
      BY CandsAssumption DEF TypeOK
    <2>2. QED
      BY <2>1, FS_Subset
  <1>2. PICK T \in selectTopNodes(C, geo, load, has, NumNodes) : n \in T
    BY DEF SelectNode
  <1>3. CASE t1 # {}
    <2>1. T \in truncateReturned(t1, NumNodes)
      BY <1>2, <1>3 DEF selectTopNodes
    <2>2. n \in t1
      BY <1>2, <2>1 DEF truncateReturned
    <2>3. QED
      BY <2>2 DEF LocalHasStreamNotOverloaded, Good
  <1>4. CASE t1 = {} /\ t2 # {}
    <2>1. T \in truncateReturned(t2, NumNodes)
      BY <1>2, <1>4 DEF selectTopNodes
    <2>2. n \in t2
      BY <1>2, <2>1 DEF truncateReturned
    <2>3. ~\E x \in C : Good(x) /\ x \in has
      BY <1>4 DEF LocalHasStreamNotOverloaded, Good
    <2>4. QED
      BY <2>2, <2>3 DEF LocalNotOverloaded, Good
  <1>5. CASE t1 = {} /\ t2 = {}
    <2>1. T \in WeightedTop(C, geo, load, has, NumNodes)
      BY <1>2, <1>5 DEF selectTopNodes
    <2>2. \A x \in C : Score(geo, load, has, x) \in Nat
      BY DEF TypeOK, Score
    <2>3. Cardinality({x \in C : Score(geo, load, has, x) >
                                 Score(geo, load, has, n)}) < NumNodes
      BY <1>1, <1>2, <2>1, <2>2, NumNodesAssumption, WeightedTopBound
    <2>4. ~\E x \in C : Good(x)
      BY <1>5 DEF LocalNotOverloaded, Good
    <2>5. QED
      BY <2>3, <2>4
  <1>6. QED
    BY <1>3, <1>4, <1>5

\* The inductive invariant: the type invariant and the tier property.
Inv == TypeOK /\ TierPreference

\* TierPreference holds in every reachable state, for every value of the
\* constants.
THEOREM TierPreferenceHolds == Spec => []TierPreference
  <1>1. Init => Inv
    BY CandsAssumption DEF Init, Inv, TypeOK, TierPreference
  <1>2. Inv /\ [Next]_vars => Inv'
    <2> SUFFICES ASSUME Inv, [Next]_vars PROVE Inv'
      OBVIOUS
    <2>1. CASE Pick
      <3>1. chosen' \in SelectNode(C, geo, load, has, NumNodes)
            /\ UNCHANGED <<C, geo, load, has>>
        BY <2>1 DEF Pick
      <3>2. chosen' \in C
        BY <3>1, SelectNodeInCandidates
      <3>3. TypeOK'
        BY <3>1, <3>2 DEF Inv, TypeOK
      <3>4. TierPreference'
        BY <3>1, SelectNodeTiers DEF Inv, TierPreference, Good
      <3>5. QED
        BY <3>3, <3>4 DEF Inv
    <2>2. CASE PickFails
      BY <2>2, CandsAssumption DEF PickFails, Inv, TypeOK, TierPreference, Good
    <2>3. CASE UNCHANGED vars
      BY <2>3 DEF vars, Inv, TypeOK, TierPreference, Good
    <2>4. QED
      BY <2>1, <2>2, <2>3 DEF Next
  <1>3. Inv => TierPreference
    BY DEF Inv
  <1>4. QED
    BY <1>1, <1>2, <1>3, PTL DEF Spec

=============================================================================
