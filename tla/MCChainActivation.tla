------------------------- MODULE MCChainActivation -------------------------
(* Small trees of blocks for ChainActivation.                              *)
EXTENDS ChainActivation

MCBlocks == 0 .. 4
MCAddress == [b \in MCBlocks |-> b]

(* Two branches from the genesis block 0: 1-2 and 3-4.                     *)
TwoBranches == [b \in MCBlocks |-> CASE b = 2 -> 1 [] b = 4 -> 3 [] OTHER -> 0]
TwoBranchesAncestors ==
  [b \in MCBlocks |-> CASE b = 0 -> {0} [] b = 2 -> {0, 1, 2}
                        [] b = 4 -> {0, 3, 4} [] OTHER -> {0, b}]
TwoBranchesWork == [b \in MCBlocks |-> Cardinality(TwoBranchesAncestors[b])]
=============================================================================
