---------------------------- MODULE MCPrRegistry ----------------------------
(* The runs of PrRegistry.  Agents, steps and numbers are interchangeable.   *)
EXTENDS PrRegistry, TLC

Symmetry == Permutations(Agents) \union Permutations(Steps) \union Permutations(Numbers)
=============================================================================
