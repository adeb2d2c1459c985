---------------------------- MODULE MCTxDownload ----------------------------
EXTENDS TxDownload, TLC

CONSTANTS idP, P, M, C, D, E

\* M is P with another witness; C, D and E spend outputs of P.
MCTxid == (P :> idP) @@ (M :> idP) @@ (C :> C) @@ (D :> D) @@ (E :> E)
MCInputs == (P :> {<<"coin", 0>>}) @@ (M :> {<<"coin", 0>>})
            @@ (C :> {<<idP, 0>>}) @@ (D :> {<<idP, 1>>}) @@ (E :> {<<idP, 2>>})

\* E is heavier than what is reserved for a peer, and has many inputs.
MCWeight == [t \in Tx |-> CASE t = D -> 2 [] t = E -> 3 [] OTHER -> 1]
MCInputScore == [t \in Tx |-> IF t = E THEN 1 ELSE 0]

\* The second peer has a changed parent, and a child that pays or one that does not.
MCStocks == {(1 :> {P, C}) @@ (2 :> {P, M, C, child}) : child \in {D, E}}

MCMaxConnects == (1 :> 1) @@ (2 :> 1)
=============================================================================
