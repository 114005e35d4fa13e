---------------------------- MODULE MCBlockchain ----------------------------
(* A tree of ten blocks on which every path of a switch is taken.  The two *)
(* branches a1-a2-a3 and b1-b2-b3 are two PoW blocks and a PoS one each,   *)
(* of the same work, and b3 has the greater stake hash.  t1 is on both, t2 *)
(* and t3 spend the same key image on different ones.  c2, a PoS fork of   *)
(* b1 that wins against a2, and d3, a fork of b2 with a greater stake hash *)
(* than b3, would win but only the main chain's checks find out what is    *)
(* wrong with them: the reward of c2, and the transaction t4 of d3, after  *)
(* another one that is fine.  e2, another fork of b1, spends a key image   *)
(* that b1 has spent.  The difficulty of PoW grows with the second PoW     *)
(* block and that of PoS with the first PoS block of a branch, so what the *)
(* node has kept may be of another chain.                                  *)
EXTENDS Blockchain, TLC

CONSTANTS g, a1, a2, a3, b1, b2, b3, c2, d3, e2, t1, t2, t3, t4, t5, k1, k2, k3, k4, k5, k6

MCBlock == {g, a1, a2, a3, b1, b2, b3, c2, d3, e2}
(* The tree without two of the forks, whose failures the whole tree shows. *)
MCFewBlocks == MCBlock \ {c2, e2}

Paths == (g :> <<g>>) @@ (a1 :> <<g, a1>>) @@ (a2 :> <<g, a1, a2>>)
      @@ (a3 :> <<g, a1, a2, a3>>) @@ (b1 :> <<g, b1>>) @@ (b2 :> <<g, b1, b2>>)
      @@ (b3 :> <<g, b1, b2, b3>>) @@ (c2 :> <<g, b1, c2>>) @@ (d3 :> <<g, b1, b2, d3>>)
      @@ (e2 :> <<g, b1, e2>>)
MCPathTo == [b \in Block |-> Paths[b]]
MCTx == {t1, t2, t3, t4, t5}
MCKeyImage == {k1, k2, k3, k4, k5, k6}
Contents == (g :> <<>>) @@ (a1 :> <<t1>>) @@ (a2 :> <<t2>>) @@ (a3 :> <<>>) @@ (b1 :> <<t3>>)
         @@ (b2 :> <<t1>>) @@ (b3 :> <<>>) @@ (c2 :> <<t1>>) @@ (d3 :> <<t5, t4>>) @@ (e2 :> <<t2>>)
MCTxsOf == [b \in Block |-> Contents[b]]
MCKiOf == (t1 :> {k1}) @@ (t2 :> {k2}) @@ (t3 :> {k2}) @@ (t4 :> {k6}) @@ (t5 :> {k5})
MCMinerKi == [b \in Block |-> CASE b \in {b3, d3} -> {k3} [] b \in {a3, c2} -> {k4} [] OTHER -> {}]
MCNextDiff == [b \in Block |->
    [k \in Kinds |-> IF k = "pow" THEN IF b \in {g, a1, b1, c2} THEN 4 ELSE 5
                     ELSE IF b \in {a3, b3, c2, d3} THEN 3 ELSE 2]]
MCProof == [b \in Block |-> CASE b = d3 -> 3 [] b = b3 -> 2 [] b = a3 -> 1 [] OTHER -> 0]

(* What the theorems of BlockchainProofs assume of the tree holds in this one. *)
ASSUME MCSettled == ForkChoiceSettled /\ WinnersNotShorter /\ WorkGrows
=============================================================================
