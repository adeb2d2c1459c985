---------------------------- MODULE MCCoinsCache ----------------------------
(***************************************************************************)
(* Two outpoints and two coins of different memory usage: enough for an    *)
(* entry to be re-added with another coin, spent, and flushed twice.       *)
(***************************************************************************)
EXTENDS CoinsCache, TLC

CONSTANTS c1, c2

MCCoins == {c1, c2}
MCUsage == c1 :> 1 @@ c2 :> 3
=============================================================================
