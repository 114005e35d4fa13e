------------------------------ MODULE MCTxPool ------------------------------
(* Three transactions: t1 and t2 spend the same key image, t2 and t3 touch  *)
(* the same multisig output, t1 and t3 ask for the same alias.              *)
EXTENDS TxPool, TLC

CONSTANTS t1, t2, t3, k1, k2, m1, a1

MCTx         == {t1, t2, t3}
MCKeyImage   == {k1, k2}
MCMultisigId == {m1}
MCAliasKey   == {a1}
MCKiOf       == (t1 :> {k1}) @@ (t2 :> {k1}) @@ (t3 :> {k2})
MCMsOf       == (t1 :> {}) @@ (t2 :> {m1}) @@ (t3 :> {m1})
MCAliasOf    == (t1 :> {a1}) @@ (t2 :> {}) @@ (t3 :> {a1})
=============================================================================
