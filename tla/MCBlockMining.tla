--------------------------- MODULE MCBlockMining ---------------------------
(***************************************************************************)
(* Small instances of BlockMining.  Blocks of other miners are early, on   *)
(* time, or late enough to clamp a retarget and to trigger the testnet     *)
(* minimum-difficulty rule.                                                *)
(***************************************************************************)
EXTENDS BlockMining

MCTimeSteps == {-1, 2, 9}
=============================================================================
