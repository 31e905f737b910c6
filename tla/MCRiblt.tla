------------------------------ MODULE MCRiblt ------------------------------
(* An instance of Riblt for TLC: every mapping of the symbols.              *)
EXTENDS Riblt, TLC

MCMappings == {f \in [Symbols -> SUBSET (0..MaxCells - 1)] : \A s \in Symbols : 0 \in f[s]}
Symmetry == Permutations(Symbols)
=============================================================================
