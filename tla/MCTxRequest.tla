---------------------------- MODULE MCTxRequest ----------------------------
EXTENDS TxRequest, TLC

CONSTANTS a, b, c, x

\* The preferred peer has the smallest hash.
MCSalt == [t \in {x} |-> (a :> 2) @@ (b :> 0) @@ (c :> 4)]
=============================================================================
