----------------------- MODULE MCPancakeswapV2Worker -----------------------
(* A small pair with a fee of a tenth, two positions. *)
EXTENDS PancakeswapV2Worker, TLC

SmallPair == [base |-> 20, farm |-> 30, supply |-> 24]
\* Positions are interchangeable.
Symmetry == Permutations(Ids)
EveryStrategy == {AllStrategies}
=============================================================================
