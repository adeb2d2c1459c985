------------------------- MODULE MCChainstateFlush -------------------------
(* A fork of two branches, 1-2 and 3-4, above the genesis block 0.         *)
(*   1 adds a and c            3 adds b (the transaction of block 2)       *)
(*   2 spends a, adds b        4 spends b, adds a (that of block 1) and    *)
(*                               spends the c it adds                      *)
EXTENDS ChainstateFlush

MCBlocks == 0 .. 4
MCParent == [b \in MCBlocks |-> CASE b = 2 -> 1 [] b = 4 -> 3 [] OTHER -> 0]
MCAncestors ==
  [b \in MCBlocks |-> CASE b = 0 -> {0} [] b = 2 -> {0, 1, 2}
                        [] b = 4 -> {0, 3, 4} [] OTHER -> {0, b}]
MCHeight == [b \in MCBlocks |-> CASE b = 0 -> 0 [] b \in {1, 3} -> 1 [] OTHER -> 2]
MCOutpoints == {"a", "b", "c"}
MCSpends == [b \in MCBlocks |-> CASE b = 2 -> {"a"} [] b = 4 -> {"b"} [] OTHER -> {}]
MCAdds ==
  [b \in MCBlocks |-> CASE b = 1 -> {"a", "c"} [] b = 2 -> {"b"}
                        [] b = 3 -> {"b"} [] b = 4 -> {"a"} [] OTHER -> {}]
MCPasses == [b \in MCBlocks |-> IF b = 4 THEN {"c"} ELSE {}]
MCUtxo[b \in MCBlocks] ==
  IF b = 0 THEN NoCoins ELSE ConnectCoins(b, MCUtxo[MCParent[b]])
=============================================================================
