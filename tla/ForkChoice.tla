----------------------------- MODULE ForkChoice -----------------------------
(***************************************************************************)
(* Which of two branches of the tree of blocks a node follows: the rule of *)
(* is_reorganize_required (blockchain_storage.cpp) for branches that split *)
(* above hard_fork_01_starts_after_height, which on both nets is every     *)
(* branch, the height being 0 (currency_config.h).                         *)
(*                                                                         *)
(* There are two kinds of blocks, proof of stake and proof of work, each   *)
(* with difficulties of its own.  The work of a branch since the split is  *)
(* measured in both and made one number with the difficulties the two      *)
(* kinds have at the split, its scale.  The scale is taken from the main   *)
(* chain and, where that has no block of a kind since the split, from what *)
(* the node last computed for its next block, whenever that was: the rule  *)
(* is no order of blocks, and none of branches either.                     *)
(*                                                                         *)
(* What a block contains is fixed by its hash, so the tree of all blocks   *)
(* is a constant, and with it the difficulty of every block.               *)
(***************************************************************************)
EXTENDS Naturals, Sequences, FiniteSets

CONSTANTS
    Block, Genesis,
    PathTo,         \* PathTo[b]: the blocks from Genesis to b, prev_id by prev_id
    MinerKi,        \* MinerKi[b]: the key image of the stake of a PoS block, {} for a PoW block
    NextDiff,       \* NextDiff[b][k]: the difficulty of a block of kind k after b
    Proof           \* Proof[b]: stake hash or proof of work of b, as a number

DIFFICULTY_STARTER == 1

Kinds     == {"pos", "pow"}
Parent(b) == PathTo[b][Len(PathTo[b]) - 1]
Height(b) == Len(PathTo[b]) - 1
Top(c)    == c[Len(c)]
IsPos(b)  == MinerKi[b] # {}
Kind(b)   == IF IsPos(b) THEN "pos" ELSE "pow"

ASSUME TreeAssumption ==
    /\ Genesis \in Block
    /\ IsFiniteSet(Block) \* a block is known by its hash
    /\ PathTo \in [Block -> Seq(Block)]
    /\ \A b \in Block :
          /\ Len(PathTo[b]) > 0
          /\ PathTo[b][1] = Genesis
          /\ Top(PathTo[b]) = b
          /\ \A i \in 1..Len(PathTo[b]) : PathTo[PathTo[b][i]] = SubSeq(PathTo[b], 1, i)
    /\ PathTo[Genesis] = <<Genesis>>
    /\ MinerKi[Genesis] = {}
    /\ NextDiff \in [Block -> [Kinds -> Nat \ {0}]]
    /\ \A b \in Block \ {Genesis}, k \in Kinds : \* next_difficulty_2 looks at the blocks of kind k
          k # Kind(b) => NextDiff[b][k] = NextDiff[Parent(b)][k]
    /\ Proof \in [Block -> Nat]

(***************************************************************************)
(* The work of a branch.                                                   *)
(***************************************************************************)

\* block_extended_info::difficulty
Difficulty(b) == NextDiff[Parent(b)][Kind(b)]

\* get_current_sequence_factor: the blocks just before b that are of its kind
sequence_factor(b) ==
    LET path == PathTo[b]
        last == Len(path) - 1
    IN  Cardinality({i \in 2..last : \A j \in i..last : Kind(path[j]) = Kind(b)})

correct_difficulty_with_sequence_factor(n, diff) ==
    LET corrected[i \in 0..n] ==
            IF i = 0 THEN diff ELSE corrected[i - 1] - corrected[i - 1] \div 4
    IN  corrected[n]

\* cumulative_diff_precise_adjusted of the last block of each kind up to b
Work[b \in Block] ==
    IF b = Genesis THEN [k \in Kinds |-> 0]
    ELSE [Work[Parent(b)] EXCEPT ![Kind(b)] =
             @ + correct_difficulty_with_sequence_factor(sequence_factor(b), Difficulty(b))]

\* what the block index holds of it
cumulative_diff_precise_adjusted == [b \in Block |-> [k \in Kinds |-> Work[b][k]]]

\* the work of the branch that ends in b since its first s blocks
WorkSince(b, s) ==
    [k \in Kinds |-> cumulative_diff_precise_adjusted[b][k]
                     - cumulative_diff_precise_adjusted[PathTo[b][s]][k]]

(***************************************************************************)
(* The comparison.                                                         *)
(***************************************************************************)

get_a_to_b_relative_cumulative_difficulty(scale, a, b) ==
    LET AtLeast(d) == IF d > 0 THEN d ELSE DIFFICULTY_STARTER
        a_pow      == AtLeast(a["pow"])
        a_pos      == AtLeast(a["pos"])
        basic_sum  == a_pow + (a_pos * scale["pow"]) \div scale["pos"]
    IN  (basic_sum * a_pow * a_pos) \div (AtLeast(b["pow"]) * AtLeast(b["pos"]))

\* the branch of b takes over from the main chain, which ends in m: both have s blocks in common
Wins(scale, s, m, b) ==
    LET main == get_a_to_b_relative_cumulative_difficulty(scale, WorkSince(m, s), WorkSince(b, s))
        alt  == get_a_to_b_relative_cumulative_difficulty(scale, WorkSince(b, s), WorkSince(m, s))
    IN  \/ main < alt
        \/ main = alt /\ IsPos(m) /\ Proof[m] < Proof[b]

\* the difficulty of the first block of kind k that follows the first s blocks of chain c
get_x_difficulty_after_height(c, s, k, cached_next) ==
    LET after == {i \in (s + 1)..Len(c) : Kind(c[i]) = k}
    IN  IF after = {} THEN cached_next
        ELSE Difficulty(c[CHOOSE i \in after : \A j \in after : i <= j])

\* the scales a node with main chain c may use: what it has kept may be of any block's time
Scales(c, s) ==
    {scale \in [Kinds -> {NextDiff[b][k] : b \in Block, k \in Kinds}] :
        \A k \in Kinds : \E b \in Block :
            scale[k] = get_x_difficulty_after_height(c, s, k, NextDiff[b][k])}

\* chains c and e part after their first s blocks
ForkAt(c, e, s) ==
    /\ s \in 1..Len(c) /\ s < Len(c) /\ s < Len(e)
    /\ SubSeq(c, 1, s) = SubSeq(e, 1, s)
    /\ c[s + 1] # e[s + 1]

\* chain e is a branch that wins against chain c
Supersedes(e, c) ==
    \E s \in 1..Len(c) :
        /\ ForkAt(c, e, s)
        /\ \E scale \in Scales(c, s) : Wins(scale, s, Top(c), Top(e))

(***************************************************************************)
(* What the code does not make sure of and what some theorems assume.      *)
(***************************************************************************)

\* When a branch has won, no part of the chain it replaces wins in turn, by any scale the node
\* may use then.  The scales before and after a switch differ, so this is not a matter of course.
ForkChoiceSettled ==
    \A m, b \in Block : \A s \in 1..Len(PathTo[m]) :
        (/\ ForkAt(PathTo[m], PathTo[b], s)
         /\ \E scale \in Scales(PathTo[m], s) : Wins(scale, s, m, b))
        => \A scale \in Scales(PathTo[b], s), i \in (s + 1)..Len(PathTo[m]) :
              ~Wins(scale, s, b, PathTo[m][i])

\* A branch that wins is not shorter than the chain it replaces.
WinnersNotShorter ==
    \A m, b \in Block : \A s \in 1..Len(PathTo[m]) :
        (/\ ForkAt(PathTo[m], PathTo[b], s)
         /\ \E scale \in Scales(PathTo[m], s) : Wins(scale, s, m, b))
        => Height(m) <= Height(b)

\* The work of a chain does not shrink as it grows.
WorkGrows ==
    \A b \in Block, k \in Kinds : \A i \in 1..Len(PathTo[b]) :
        /\ cumulative_diff_precise_adjusted[b][k] \in Nat
        /\ cumulative_diff_precise_adjusted[PathTo[b][i]][k] <= cumulative_diff_precise_adjusted[b][k]
=============================================================================
