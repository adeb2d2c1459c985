------------------------------- MODULE UtxoSet -------------------------------
(***************************************************************************)
(* What the stack of coins views promises: three maps from outpoints to    *)
(* coins, the one on disk, the one of the active chain tip and the one a   *)
(* block is being applied to.  Caching, flags and eviction are invisible.  *)
(***************************************************************************)
CONSTANTS Outpoints, Coins, Spent

VARIABLES
    disk,    \* CCoinsViewDB
    active,  \* CoinsTip()
    working  \* the view a block is connected or disconnected in

utxoVars == <<disk, active, working>>

UtxoInit ==
    /\ disk \in [Outpoints -> Coins \cup {Spent}]
    /\ active = disk
    /\ working = disk

Add(o, c) ==
    /\ working' = [working EXCEPT ![o] = c]
    /\ UNCHANGED <<disk, active>>

Spend(o) ==
    /\ working' = [working EXCEPT ![o] = Spent]
    /\ UNCHANGED <<disk, active>>

\* The block's changes become the active chain's, all of them at once.
Commit ==
    /\ active' = working
    /\ UNCHANGED <<disk, working>>

Discard ==
    /\ working' = active
    /\ UNCHANGED <<disk, active>>

Persist ==
    /\ disk' = active
    /\ UNCHANGED <<active, working>>

\* A coin of a UTXO snapshot is loaded beneath an unused working view.
Load(o, c) ==
    /\ working = active
    /\ active' = [active EXCEPT ![o] = c]
    /\ working' = active'
    /\ UNCHANGED disk

UtxoNext ==
    \/ \E o \in Outpoints : Spend(o)
    \/ \E o \in Outpoints, c \in Coins : Add(o, c) \/ Load(o, c)
    \/ Commit
    \/ Discard
    \/ Persist

UtxoSpec == UtxoInit /\ [][UtxoNext]_utxoVars
=============================================================================
