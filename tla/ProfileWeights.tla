--------------------------- MODULE ProfileWeights ---------------------------
(***************************************************************************)
(* gen/pgo_ASTbased.cpp: branch weights from counts.  Counts are uint64_t  *)
(* and weights uint32_t; both maxima are parameters.  No weights at all    *)
(* (a null MDNode) are the empty sequence.                                 *)
(***************************************************************************)
EXTENDS Integers, Sequences

CONSTANTS UINT32_MAX, UINT64_MAX

ASSUME WidthAssumption == /\ UINT32_MAX \in Nat \ {0}
                          /\ UINT64_MAX \in Nat
                          /\ UINT64_MAX >= UINT32_MAX

uint64_t == 0..UINT64_MAX

\* Arithmetic on uint64_t.
Wrap(n) == n % (UINT64_MAX + 1)

calculateWeightScale(MaxWeight) ==
  IF MaxWeight < UINT32_MAX THEN 1 ELSE MaxWeight \div UINT32_MAX + 1

scaleBranchWeight(Weight, Scale) == Weight \div Scale + 1

MaxCount(Counts) == CHOOSE w \in {Counts[i] : i \in DOMAIN Counts} : \A i \in DOMAIN Counts : Counts[i] <= w

createProfileWeights(Counts) ==
  IF Len(Counts) < 2 \/ MaxCount(Counts) = 0 THEN <<>>
  ELSE [i \in DOMAIN Counts |-> scaleBranchWeight(Counts[i], calculateWeightScale(MaxCount(Counts)))]

\* createProfileWeightsWhileLoop, createProfileWeightsForLoop
createProfileWeightsLoop(CondCount, LoopCount) ==
  IF CondCount = 0 THEN <<>>
  ELSE createProfileWeights(<<LoopCount, (IF CondCount > LoopCount THEN CondCount ELSE LoopCount) - LoopCount>>)
=============================================================================
