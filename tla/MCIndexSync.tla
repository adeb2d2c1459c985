---------------------------- MODULE MCIndexSync ----------------------------
(* Two branches, 1-2 and 3-4, above the genesis block 0. *)
EXTENDS IndexSync

MCBlocks == 0 .. 4
MCParent == [b \in MCBlocks |-> CASE b = 2 -> 1 [] b = 4 -> 3 [] OTHER -> 0]
MCAncestors ==
  [b \in MCBlocks |-> CASE b = 0 -> {0} [] b = 2 -> {0, 1, 2}
                        [] b = 4 -> {0, 3, 4} [] OTHER -> {0, b}]
MCHeight == [b \in MCBlocks |-> CASE b = 0 -> 0 [] b \in {1, 3} -> 1 [] OTHER -> 2]
=============================================================================
