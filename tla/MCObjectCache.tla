--------------------------- MODULE MCObjectCache ---------------------------
(***************************************************************************)
(* The instance of ObjectCache that TLC checks.                            *)
(***************************************************************************)
EXTENDS ObjectCache, TLC

\* Two objects exceed the limit, one does not.
MCSize == [v \in Versions |-> 2]

Symmetry == Permutations(Compilers) \cup Permutations(Versions)
=============================================================================
