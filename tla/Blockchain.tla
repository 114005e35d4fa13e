----------------------------- MODULE Blockchain -----------------------------
(***************************************************************************)
(* The block thread of blockchain_storage (blockchain_storage.cpp): the    *)
(* main chain, the alternative blocks, the switch from one chain to        *)
(* another and what all of it does to the transaction pool.                *)
(*                                                                         *)
(* The main chain is in a database: the block thread works inside one      *)
(* database transaction, so there are two views of it, the one it is       *)
(* changing (blocks) and the one a reader or a restart sees (committed).   *)
(* The pool is in a database of its own, every change of which is final at *)
(* once.  Alternative blocks, their indexes and the invalid blocks live in *)
(* memory only and know nothing of transactions.  So does the difficulty   *)
(* of the next block, which the node computes for the chain it has at that *)
(* moment, keeps, and uses in the fork choice as long as nobody computes   *)
(* it again, whatever the chain is by then.                                *)
(*                                                                         *)
(* add_new_block holds the pool's lock (which keeps remove_stuck out) and  *)
(* m_alternative_chains_lock; the network may still add transactions to    *)
(* the pool between any two of its steps, and the process may end.         *)
(*                                                                         *)
(* What a block contains is fixed by its hash, so the tree of all blocks   *)
(* is a constant; which of them arrive, when and how often is not.         *)
(***************************************************************************)
EXTENDS ForkChoice

CONSTANTS
    Tx, KeyImage,
    TxsOf,          \* TxsOf[b]: bl.tx_hashes, a sequence
    KiOf,           \* KiOf[t]: the key images t spends
    BadBlock,       \* blocks that only the checks made on the main chain refuse
    BadSemantic,    \* transactions that fail validate_tx_semantic
    FutureBlock,    \* blocks whose timestamps are too far ahead of a clock that was set back
    MaxAltBlocks,   \* core_runtime_config::max_alt_blocks
    AltLivetime,    \* CURRENCY_ALT_BLOCK_LIVETIME_COUNT
    Asked,          \* bound: the kinds whose next difficulty other threads ask for
    MaxTime         \* bound: the clock runs from 0 to MaxTime

TxSet(b)   == {TxsOf[b][i] : i \in DOMAIN TxsOf[b]}
BlockKi(b) == MinerKi[b] \cup UNION {KiOf[t] : t \in TxSet(b)}
SeqSet(s)  == {s[i] : i \in DOMAIN s}

ASSUME ChainAssumption ==
    /\ TxsOf \in [Block -> Seq(Tx)]
    /\ KiOf \in [Tx -> SUBSET KeyImage]
    /\ MinerKi \in [Block -> SUBSET KeyImage]
    /\ TxsOf[Genesis] = <<>>
    /\ BadBlock \subseteq Block \ {Genesis}
    /\ BadSemantic \subseteq Tx
    /\ FutureBlock \subseteq Block
    /\ Asked \subseteq Kinds
    /\ MaxAltBlocks \in Nat /\ AltLivetime \in Nat /\ MaxTime \in Nat

VARIABLES
    blocks,         \* m_db_blocks as the block thread sees it
    committed,      \* m_db_blocks as everybody else sees it
    pool,           \* the transactions of m_tx_pool
    alt,            \* [chains, time, txs, keyimages]: m_alternative_chains, the core time each
                    \* was stored at, m_alternative_chains_txs and m_altblocks_keyimages
    invalid_blocks, \* m_invalid_blocks
    op,             \* what the block thread is doing
    cached,         \* m_cached_next_pos_difficulty, m_cached_next_pow_difficulty; 0: not known
    now,            \* core time
    clock           \* the machine's clock: "right", set "back", or "fixed" again

vars == <<blocks, committed, pool, alt, invalid_blocks, op, cached, now, clock>>

Idle == [pc |-> "idle"]
NoAlt == [chains |-> {}, time |-> [b \in Block |-> 0],
          txs |-> [t \in Tx |-> 0], keyimages |-> [ki \in KeyImage |-> {}]]

MainTxs(c)    == UNION {TxSet(c[i]) : i \in DOMAIN c}
Spent(c)      == UNION {BlockKi(c[i]) : i \in DOMAIN c}
have_block(b) == b \in SeqSet(blocks) \cup alt.chains \cup invalid_blocks

(***************************************************************************)
(* handle_block_to_main_chain.  The transactions come from the block       *)
(* message (onboard) or from the pool, in the block's order.               *)
(***************************************************************************)

check_block_timestamp_main(b) == ~(clock = "back" /\ b \in FutureBlock)

\* proof, timestamp and miner transaction: nothing is touched before they are checked
HeaderOk(b) ==
    /\ Parent(b) = Top(blocks)
    /\ check_block_timestamp_main(b)
    /\ MinerKi[b] \cap Spent(blocks) = {}

TxOk(b, i, onboard) ==
    LET earlier == MinerKi[b] \cup UNION {KiOf[TxsOf[b][j]] : j \in 1..(i - 1)}
    IN  /\ TxsOf[b][i] \in (pool \cup onboard) \ BadSemantic
        /\ KiOf[TxsOf[b][i]] \cap (Spent(blocks) \cup earlier) = {}

\* the transactions added before the first one that fails
Processed(b, onboard) ==
    {TxsOf[b][i] : i \in {k \in DOMAIN TxsOf[b] : \A j \in 1..k : TxOk(b, j, onboard)}}

Connectable(b, onboard) ==
    HeaderOk(b) /\ b \notin BadBlock /\ \A i \in DOMAIN TxsOf[b] : TxOk(b, i, onboard)

\* the first transaction that fails is known and well formed but its inputs are wrong
WrongInputs(b, onboard) ==
    /\ HeaderOk(b)
    /\ \E i \in DOMAIN TxsOf[b] :
          /\ ~TxOk(b, i, onboard)
          /\ \A j \in 1..(i - 1) : TxOk(b, j, onboard)
          /\ TxsOf[b][i] \in (pool \cup onboard) \ BadSemantic

\* the block is added; take_tx removes its transactions from the pool
ConnectBlock(b) ==
    /\ blocks' = Append(blocks, b)
    /\ pool' = pool \ TxSet(b)

\* mutant: the transactions of a block that fails are not put back
purge_block_data_lost(b, onboard) == pool \ TxSet(b)

\* purge_block_data_from_blockchain puts the processed transactions into the pool,
\* those that came with the block included; the one that failed is put back if it was there
purge_block_data_from_blockchain(b, onboard) ==
    IF HeaderOk(b) THEN pool \cup Processed(b, onboard) ELSE pool

\* mutant: one block too many is popped
PopBlocks_one_more(n) ==
    /\ blocks' = SubSeq(blocks, 1, n - 1)
    /\ pool' = pool \cup MainTxs(SubSeq(blocks, n, Len(blocks)))

\* pop_block_from_blockchain for a list of blocks: the transactions return to the pool
PopBlocks(n) ==
    /\ blocks' = SubSeq(blocks, 1, n)
    /\ pool' = pool \cup MainTxs(SubSeq(blocks, n + 1, Len(blocks)))

(***************************************************************************)
(* The alternative blocks.                                                 *)
(***************************************************************************)

\* mutant: append_altblock_keyimages_to_big_heap is not called
add_alt_block_no_keyimages(a, b) ==
    [a EXCEPT !.chains = @ \cup {b}, !.time[b] = now,
              !.txs = [t \in Tx |-> IF t \in TxSet(b) THEN @[t] + 1 ELSE @[t]]]

add_alt_block(a, b) ==
    [chains    |-> a.chains \cup {b},
     time      |-> [a.time EXCEPT ![b] = now],
     txs       |-> [t \in Tx |-> IF t \in TxSet(b) THEN a.txs[t] + 1 ELSE a.txs[t]],
     keyimages |-> [ki \in KeyImage |-> IF ki \in BlockKi(b) THEN a.keyimages[ki] \cup {b}
                                         ELSE a.keyimages[ki]]]

\* the key images of a transaction that is neither in the pool nor in the chain stay
PurgedKi(b, found) == MinerKi[b] \cup UNION {KiOf[t] : t \in TxSet(b) \cap found}

\* mutant: the counter of the transactions is not decreased
do_erase_altblocks_no_txs(a, S, found) ==
    [a EXCEPT !.chains = @ \ S,
              !.keyimages = [ki \in KeyImage |-> @[ki] \ {b \in S : ki \in PurgedKi(b, found)}]]

\* do_erase_altblock for every block of S
do_erase_altblocks(a, S, found) ==
    [a EXCEPT !.chains = @ \ S,
              !.txs = [t \in Tx |-> LET n == Cardinality({b \in S : t \in TxSet(b)})
                                    IN  IF @[t] > n THEN @[t] - n ELSE 0],
              !.keyimages = [ki \in KeyImage |-> @[ki] \ {b \in S : ki \in PurgedKi(b, found)}]]

is_tx_related_to_altblock(t) == alt.txs[t] > 0

\* prune_aged_alt_blocks with the main chain c: the blocks that fell too far behind
AgedAltBlocks(a, c) == {b \in a.chains : Len(c) > Height(b) /\ Len(c) - Height(b) > AltLivetime}

\* prune_aged_alt_blocks: the sets alts_to_delete may hold when the scan ends.  The scan keeps
\* an entry whose time is not less than that of all kept before, in the order of an unordered map.
AltsToDelete(a, c) ==
    LET count == IF Cardinality(a.chains) > MaxAltBlocks
                 THEN Cardinality(a.chains) - MaxAltBlocks ELSE 0
        rest  == a.chains \ AgedAltBlocks(a, c)
    IN  {D \in SUBSET rest :
            /\ Cardinality(D) <= count
            /\ (count > 0 /\ rest # {}) => \E d \in D : \A b \in rest : a.time[b] <= a.time[d]
            /\ \A d, e \in D : d # e => a.time[d] # a.time[e]}

\* those of D leave the container only: their transactions and key images stay indexed
prune_aged_alt_blocks(a, c, D, found) ==
    LET aged == do_erase_altblocks(a, AgedAltBlocks(a, c), found)
    IN  [aged EXCEPT !.chains = @ \ D]

(***************************************************************************)
(* handle_alternative_block.                                               *)
(***************************************************************************)

\* alt_chain without b itself: the ancestors of b that are alternative blocks, front first
AltAncestors(b) ==
    LET path == PathTo[b]
        from == {i \in 1..Len(path) : \A j \in i..(Len(path) - 1) : path[j] \in alt.chains}
        low  == CHOOSE i \in from : \A j \in from : i <= j
    IN  SubSeq(path, low, Len(path) - 1)

SplitHeight(b) == Height(b) - Len(AltAncestors(b))

ConnectedToMain(b) ==
    /\ SplitHeight(b) > 0
    /\ Len(blocks) >= SplitHeight(b)
    /\ blocks[SplitHeight(b)] = PathTo[b][SplitHeight(b)]

check_block_timestamp(b) == ~(clock = "back" /\ b \in FutureBlock /\ IsPos(b))

\* mutant: the key images of the other blocks of the alternative chain are not looked up
validate_alt_block_txs_no_heap(b, onboard) ==
    /\ TxSet(b) \subseteq onboard \cup pool \cup MainTxs(blocks)
    /\ BlockKi(b) \cap Spent(SubSeq(blocks, 1, SplitHeight(b))) = {}

\* the transactions are known, and no key image is spent on the main chain below
\* the split, earlier in this block, or by a block of this alternative chain
validate_alt_block_txs(b, onboard) ==
    /\ TxSet(b) \subseteq onboard \cup pool \cup MainTxs(blocks)
    /\ BlockKi(b) \cap Spent(SubSeq(blocks, 1, SplitHeight(b))) = {}
    /\ \A i, j \in DOMAIN TxsOf[b] : i # j => KiOf[TxsOf[b][i]] \cap KiOf[TxsOf[b][j]] = {}
    /\ \A t \in TxSet(b) : KiOf[t] \cap MinerKi[b] = {}
    /\ \A ki \in BlockKi(b) : alt.keyimages[ki] \cap (SeqSet(AltAncestors(b)) \cup {b}) = {}

AltAcceptable(b, onboard) ==
    /\ Parent(b) \in alt.chains \cup SeqSet(blocks)
    /\ ConnectedToMain(b)
    /\ check_block_timestamp(b)
    /\ validate_alt_block_txs(b, onboard)
    /\ b \notin alt.chains

(***************************************************************************)
(* The difficulty of the next block, and the fork choice that uses it.     *)
(***************************************************************************)

\* get_next_diff_conditional for the kind of b, once its parent and its timestamp are checked
CachedByCheckOf(b) ==
    IF Parent(b) = Top(blocks) /\ check_block_timestamp_main(b)
    THEN [cached EXCEPT ![Kind(b)] = NextDiff[Top(blocks)][Kind(b)]]
    ELSE cached

get_cached_next_difficulty(k) == IF cached[k] = 0 THEN NextDiff[Top(blocks)][k] ELSE cached[k]

\* the difficulties at the split, and what is kept once they are known
SplitScale(s) ==
    [k \in Kinds |-> get_x_difficulty_after_height(blocks, s, k, get_cached_next_difficulty(k))]
CachedByChoice(s) ==
    [k \in Kinds |-> IF \E i \in (s + 1)..Len(blocks) : Kind(blocks[i]) = k
                      THEN cached[k] ELSE get_cached_next_difficulty(k)]

\* mutant: an alternative chain that is merely as good as the main chain wins
is_reorganize_required_ge(b) ==
    LET s == SplitHeight(b)
    IN  ~Wins(SplitScale(s), s, b, Top(blocks))

is_reorganize_required(b) ==
    LET s == SplitHeight(b)
    IN  Wins(SplitScale(s), s, Top(blocks), b)

Init ==
    /\ blocks = <<Genesis>>
    /\ committed = <<Genesis>>
    /\ pool = {}
    /\ alt = NoAlt
    /\ invalid_blocks = {}
    /\ op = Idle
    /\ cached = [k \in Kinds |-> 0]
    /\ now = 0
    /\ clock = "right"

(***************************************************************************)
(* add_new_block: a block on top of the main chain.                        *)
(***************************************************************************)

add_new_block(b, onboard) ==
    /\ op.pc = "idle" /\ ~have_block(b)
    /\ Parent(b) = Top(blocks)
    /\ op' = [pc |-> "main", block |-> b, onboard |-> onboard]
    /\ UNCHANGED <<blocks, committed, pool, alt, invalid_blocks, cached, now, clock>>

handle_block_to_main_chain ==
    /\ op.pc = "main"
    /\ \/ /\ Connectable(op.block, op.onboard)
          /\ ConnectBlock(op.block)
          /\ op' = [pc |-> "commit"]
          /\ UNCHANGED invalid_blocks
       \/ /\ ~Connectable(op.block, op.onboard)
          /\ pool' = purge_block_data_from_blockchain(op.block, op.onboard)
          /\ invalid_blocks' = invalid_blocks
                \cup {b \in {op.block} : WrongInputs(b, op.onboard)}
          /\ blocks' = committed
          /\ op' = Idle
    /\ cached' = CachedByCheckOf(op.block)
    /\ UNCHANGED <<committed, alt, now, clock>>

commit_transaction ==
    /\ op.pc = "commit"
    /\ committed' = blocks
    /\ op' = Idle
    /\ UNCHANGED <<blocks, pool, alt, invalid_blocks, cached, now, clock>>

(***************************************************************************)
(* add_new_block: any other block.                                         *)
(***************************************************************************)

\* found by get_transaction_from_pool_or_db
Findable == pool \cup MainTxs(blocks)

\* the end of handle_alternative_block when no reorganize is required
StoredOrPruned(a) ==
    IF Cardinality(a.chains) > MaxAltBlocks
    THEN \E D \in AltsToDelete(a, blocks) : alt' = prune_aged_alt_blocks(a, blocks, D, Findable)
    ELSE alt' = a

\* mutant: a chain that is as long wins, not the one with more work
handle_alternative_block_longest(b, onboard) ==
    /\ op.pc = "idle" /\ ~have_block(b)
    /\ b # Genesis /\ Parent(b) # Top(blocks)
    /\ AltAcceptable(b, onboard)
    /\ cached' = CachedByChoice(SplitHeight(b))
    /\ IF Height(b) >= Height(Top(blocks))
       THEN /\ alt' = add_alt_block(alt, b)
            /\ op' = [pc |-> "disconnect", alt_chain |-> Append(AltAncestors(b), b)]
       ELSE /\ StoredOrPruned(add_alt_block(alt, b))
            /\ op' = Idle
    /\ UNCHANGED <<blocks, committed, pool, invalid_blocks, now, clock>>

handle_alternative_block(b, onboard) ==
    /\ op.pc = "idle" /\ ~have_block(b)
    /\ b # Genesis /\ Parent(b) # Top(blocks)
    /\ AltAcceptable(b, onboard)
    /\ cached' = CachedByChoice(SplitHeight(b))
    /\ IF is_reorganize_required(b)
       THEN /\ alt' = add_alt_block(alt, b)
            /\ op' = [pc |-> "disconnect", alt_chain |-> Append(AltAncestors(b), b)]
       ELSE /\ StoredOrPruned(add_alt_block(alt, b))
            /\ op' = Idle
    /\ UNCHANGED <<blocks, committed, pool, invalid_blocks, now, clock>>

(***************************************************************************)
(* switch_to_alternative_blockchain.                                       *)
(***************************************************************************)

SwitchSplit == Height(op.alt_chain[1])

disconnect_old_chain ==
    /\ op.pc = "disconnect"
    /\ PopBlocks(SwitchSplit)
    /\ op' = [pc |-> "connect", alt_chain |-> op.alt_chain, next |-> 1,
              old |-> SubSeq(blocks, SwitchSplit + 1, Len(blocks)), swapped |-> 0]
    /\ UNCHANGED <<committed, alt, invalid_blocks, cached, now, clock>>

\* mutant: a block leaves the alternative ones as soon as it is connected
connect_alt_block_erasing ==
    LET b == op.alt_chain[op.next]
    IN  /\ op.pc = "connect" /\ Connectable(b, TxSet(b))
        /\ ConnectBlock(b)
        /\ alt' = do_erase_altblocks(alt, {b}, Findable)
        /\ op' = [op EXCEPT !.next = @ + 1,
                            !.pc = IF op.next = Len(op.alt_chain) THEN "push" ELSE "connect"]
        /\ cached' = CachedByCheckOf(b)
        /\ UNCHANGED <<committed, invalid_blocks, now, clock>>

connect_alt_block ==
    LET b == op.alt_chain[op.next]
    IN  /\ op.pc = "connect"
        /\ \/ /\ Connectable(b, TxSet(b))
              /\ ConnectBlock(b)
              /\ op' = [op EXCEPT !.next = @ + 1,
                                  !.pc = IF op.next = Len(op.alt_chain) THEN "push" ELSE "connect"]
              /\ UNCHANGED invalid_blocks
           \/ /\ ~Connectable(b, TxSet(b))
              /\ pool' = purge_block_data_from_blockchain(b, TxSet(b))
              /\ invalid_blocks' = invalid_blocks \cup {c \in {b} : WrongInputs(c, TxSet(c))}
              /\ op' = [op EXCEPT !.pc = "rollback"]
              /\ UNCHANGED blocks
        /\ cached' = CachedByCheckOf(b)
        /\ UNCHANGED <<committed, alt, now, clock>>

\* mutant: the blocks of the failed subchain stay
rollback_pop_forgotten ==
    /\ op.pc = "rollback"
    /\ op' = [op EXCEPT !.pc = "restore"]
    /\ UNCHANGED <<blocks, pool, committed, alt, invalid_blocks, cached, now, clock>>

\* rollback_blockchain_switching: remove the failed subchain ...
rollback_pop ==
    /\ op.pc = "rollback"
    /\ PopBlocks(SwitchSplit)
    /\ op' = [op EXCEPT !.pc = "restore"]
    /\ UNCHANGED <<committed, alt, invalid_blocks, cached, now, clock>>

\* ... and return the original chain, block by block.  A block that was already offered to
\* the alternative chains has given its transactions away and depends on the pool.
NextToRestore == op.old[Len(blocks) - SwitchSplit + 1]
OnboardToRestore ==
    IF Len(blocks) - SwitchSplit + 1 <= op.swapped THEN {} ELSE TxSet(NextToRestore)
AfterRollback == IF op.next > Len(op.alt_chain) THEN "erase" ELSE "discard"

rollback_restore ==
    /\ op.pc = "restore"
    /\ Len(blocks) < SwitchSplit + Len(op.old)
    /\ \/ /\ Connectable(NextToRestore, OnboardToRestore)
          /\ ConnectBlock(NextToRestore)
          /\ UNCHANGED <<op, invalid_blocks>>
       \/ /\ ~Connectable(NextToRestore, OnboardToRestore) \* PANIC!!!
          /\ pool' = purge_block_data_from_blockchain(NextToRestore, OnboardToRestore)
          /\ invalid_blocks' = invalid_blocks
                \cup {c \in {NextToRestore} : WrongInputs(c, OnboardToRestore)}
          /\ op' = [op EXCEPT !.pc = AfterRollback]
          /\ UNCHANGED blocks
    /\ cached' = CachedByCheckOf(NextToRestore)
    /\ UNCHANGED <<committed, alt, now, clock>>

rollback_done ==
    /\ op.pc = "restore"
    /\ Len(blocks) = SwitchSplit + Len(op.old)
    /\ op' = [op EXCEPT !.pc = AfterRollback]
    /\ UNCHANGED <<blocks, committed, pool, alt, invalid_blocks, cached, now, clock>>

\* mutant: the whole alternative chain is marked as invalid
discard_alt_chain_all ==
    /\ op.pc = "discard"
    /\ invalid_blocks' = invalid_blocks \cup SeqSet(op.alt_chain)
    /\ alt' = do_erase_altblocks(alt, SeqSet(op.alt_chain), Findable)
    /\ blocks' = committed
    /\ op' = Idle
    /\ UNCHANGED <<committed, pool, cached, now, clock>>

\* the block that could not be connected and those after it are marked and dropped, then
\* add_new_block aborts the database transaction.  m_db_blocks keeps the size it had (see
\* DbAccessor): when the rollback panicked the node no longer sees the end of its chain, and
\* what it does then is not followed any further, until it is restarted.
discard_alt_chain ==
    LET S == SeqSet(SubSeq(op.alt_chain, op.next, Len(op.alt_chain)))
    IN  /\ op.pc = "discard"
        /\ invalid_blocks' = invalid_blocks \cup S
        /\ alt' = do_erase_altblocks(alt, S, Findable)
        /\ blocks' = SubSeq(committed, 1, Len(blocks))
        /\ op' = IF Len(blocks) = Len(committed) THEN Idle ELSE [pc |-> "stale_size"]
        /\ UNCHANGED <<committed, pool, cached, now, clock>>

\* the old chain becomes an alternative one, each block through handle_alternative_block
push_old_block ==
    LET b == op.old[op.swapped + 1]
    IN  /\ op.pc = "push" /\ op.swapped < Len(op.old)
        /\ \/ /\ AltAcceptable(b, TxSet(b))
              /\ cached' = CachedByChoice(SplitHeight(b))
              /\ IF is_reorganize_required(b)
                 THEN /\ alt' = add_alt_block(alt, b) \* "Detected recursive reorganzie"
                      /\ op' = [op EXCEPT !.swapped = @ + 1, !.pc = "rollback"]
                 ELSE /\ StoredOrPruned(add_alt_block(alt, b))
                      /\ op' = [op EXCEPT !.swapped = @ + 1]
           \/ /\ ~AltAcceptable(b, TxSet(b))
              /\ op' = [op EXCEPT !.swapped = @ + 1, !.pc = "rollback"]
              /\ UNCHANGED <<alt, cached>>
        /\ UNCHANGED <<blocks, committed, pool, invalid_blocks, now, clock>>

push_done ==
    /\ op.pc = "push" /\ op.swapped = Len(op.old)
    /\ op' = [op EXCEPT !.pc = "erase"]
    /\ UNCHANGED <<blocks, committed, pool, alt, invalid_blocks, cached, now, clock>>

\* mutant: the blocks that joined the main chain stay alternative blocks
erase_alt_chain_forgotten ==
    /\ op.pc = "erase"
    /\ op' = [pc |-> "commit"]
    /\ UNCHANGED <<blocks, committed, pool, alt, invalid_blocks, cached, now, clock>>

\* mutant: the database transaction is not committed
erase_alt_chain_no_commit ==
    /\ op.pc = "erase"
    /\ alt' = do_erase_altblocks(alt, SeqSet(op.alt_chain), Findable)
    /\ op' = Idle
    /\ UNCHANGED <<blocks, committed, pool, invalid_blocks, cached, now, clock>>

\* "REORGANIZE SUCCESS!"; an iterator that prune_aged_alt_blocks has erased is not followed
erase_alt_chain ==
    /\ op.pc = "erase"
    /\ SeqSet(op.alt_chain) \subseteq alt.chains
    /\ alt' = do_erase_altblocks(alt, SeqSet(op.alt_chain), Findable)
    /\ op' = [pc |-> "commit"]
    /\ UNCHANGED <<blocks, committed, pool, invalid_blocks, cached, now, clock>>

BlockThread ==
    \/ handle_block_to_main_chain
    \/ commit_transaction
    \/ disconnect_old_chain
    \/ connect_alt_block
    \/ rollback_pop
    \/ rollback_restore
    \/ rollback_done
    \/ discard_alt_chain
    \/ push_old_block
    \/ push_done
    \/ erase_alt_chain

(***************************************************************************)
(* The other threads.                                                      *)
(***************************************************************************)

\* core::handle_incoming_tx; what it checks is the subject of TxPool
handle_incoming_tx(t) ==
    /\ t \notin pool \cup MainTxs(committed) \cup BadSemantic
    /\ pool' = pool \cup {t}
    /\ UNCHANGED <<blocks, committed, alt, invalid_blocks, op, cached, now, clock>>

remove_stuck_transactions(t) ==
    /\ op.pc = "idle" /\ t \in pool
    /\ ~is_tx_related_to_altblock(t)
    /\ pool' = pool \ {t}
    /\ UNCHANGED <<blocks, committed, alt, invalid_blocks, op, cached, now, clock>>

\* create_block_template, scan_pos, pre_validate_relayed_block and the rpc calls that tell the
\* difficulty: under m_read_lock, which the block thread holds from a block to its commit
get_next_diff_conditional(k) ==
    /\ op.pc = "idle"
    /\ cached' = [cached EXCEPT ![k] = NextDiff[Top(blocks)][k]]
    /\ UNCHANGED <<blocks, committed, pool, alt, invalid_blocks, op, now, clock>>

\* core::on_idle
prune_alt_blocks_on_idle ==
    /\ op.pc = "idle" /\ alt.chains # {}
    /\ \E D \in AltsToDelete(alt, blocks) :
          alt' = prune_aged_alt_blocks(alt, blocks, D, Findable)
    /\ UNCHANGED <<blocks, committed, pool, invalid_blocks, op, cached, now, clock>>

Tick ==
    /\ now < MaxTime
    /\ now' = now + 1
    /\ UNCHANGED <<blocks, committed, pool, alt, invalid_blocks, op, cached, clock>>

\* once, the machine's time is wrongly set for a few hours back, and later set right
SetClock ==
    /\ FutureBlock # {}
    /\ \/ clock = "right" /\ clock' = "back"
       \/ clock = "back" /\ clock' = "fixed"
    /\ UNCHANGED <<blocks, committed, pool, alt, invalid_blocks, op, cached, now>>

\* console command: pops inside one database transaction, without the pool's lock
truncate_blockchain(n) ==
    /\ op.pc = "idle" /\ n < Len(blocks)
    /\ PopBlocks(n)
    /\ committed' = SubSeq(blocks, 1, n)
    /\ alt' = NoAlt
    /\ UNCHANGED <<invalid_blocks, op, cached, now, clock>>

\* console command
clear_altblocks ==
    /\ op.pc = "idle" /\ alt # NoAlt
    /\ alt' = NoAlt
    /\ UNCHANGED <<blocks, committed, pool, invalid_blocks, op, cached, now, clock>>

\* the process ends, between any two steps, and starts again
Restart ==
    /\ blocks' = committed
    /\ alt' = NoAlt
    /\ invalid_blocks' = {}
    /\ op' = Idle
    /\ cached' = [k \in Kinds |-> 0]
    /\ UNCHANGED <<committed, pool, now, clock>>

Deliver(b) == \E onboard \in {{}, TxSet(b)} :
                 b # Genesis /\ (add_new_block(b, onboard) \/ handle_alternative_block(b, onboard))

NodeNext ==
    \/ \E b \in Block : Deliver(b)
    \/ BlockThread
    \/ \E t \in Tx : handle_incoming_tx(t)
    \/ \E t \in Tx : remove_stuck_transactions(t)
    \/ \E k \in Asked : get_next_diff_conditional(k)
    \/ prune_alt_blocks_on_idle
    \/ Tick
    \/ SetClock

Next ==
    \/ NodeNext
    \/ \E n \in 1..Cardinality(Block) : truncate_blockchain(n)
    \/ clear_altblocks
    \/ Restart

Spec == Init /\ [][Next]_vars

(***************************************************************************)
(* Fairness: the block thread finishes what it began, peers offer a block  *)
(* again and again with its transactions until the node has it, and a      *)
(* wrong clock is set right.  Nobody truncates the chain for ever.         *)
(***************************************************************************)
LiveSpec ==
    /\ Init /\ [][NodeNext]_vars
    /\ WF_vars(BlockThread)
    /\ \A b \in Block \ {Genesis} :
          SF_vars(add_new_block(b, TxSet(b)) \/ handle_alternative_block(b, TxSet(b)))
    /\ WF_vars(clock = "back" /\ SetClock)

(***************************************************************************)
(* Properties.                                                             *)
(***************************************************************************)

Steps == {"idle", "main", "commit", "disconnect", "connect", "rollback", "restore",
          "discard", "push", "erase", "stale_size"}

\* Every variable has its type, and the block thread knows, at each step of a
\* switch, what that step needs.
TypeOK ==
    /\ blocks \in Seq(Block) /\ Len(blocks) > 0
    /\ committed \in Seq(Block) /\ Len(committed) > 0
    /\ pool \subseteq Tx
    /\ alt \in [chains : SUBSET Block, time : [Block -> Nat], txs : [Tx -> Nat],
                keyimages : [KeyImage -> SUBSET Block]]
    /\ invalid_blocks \subseteq Block
    /\ op.pc \in Steps
    /\ op.pc = "main" => op.block \in Block
    /\ op.pc \notin {"idle", "main", "commit", "stale_size"} =>
          op.alt_chain \in Seq(Block) /\ op.alt_chain # <<>>
    /\ op.pc \in {"connect", "rollback", "restore", "discard", "push", "erase"} =>
          /\ op.old \in Seq(Block)
          /\ op.swapped \in 0..Len(op.old)
          /\ op.next \in 1..(Len(op.alt_chain) + 1)
    /\ cached \in [Kinds -> Nat]
    /\ now \in 0..MaxTime
    /\ clock \in {"right", "back", "fixed"}

\* Between two blocks everybody sees the chain the block thread left behind, and it is a
\* chain from the genesis block (validate_blockchain_prev_links, "EPIC FAIL!").
ChainCommitted ==
    op.pc = "idle" => blocks = committed /\ blocks = PathTo[Top(blocks)]

\* the blocks whose branches, from the genesis block on, spend no key image twice
SpendingOnce ==
    {b \in Block : \A i, j \in 1..Len(PathTo[b]) :
        i # j => BlockKi(PathTo[b][i]) \cap BlockKi(PathTo[b][j]) = {}}

\* No branch spends a key image twice: neither the main chain nor any alternative
\* block with its ancestors, wherever those ancestors were when it was checked
\* (validate_alt_block_input, cases b1 to b3, and check_tx_inputs).
NoDoubleSpend == alt.chains \cup {Top(blocks)} \subseteq SpendingOnce

\* What the node keeps is valid: the committed blocks are one chain from the genesis block,
\* and no branch, committed or alternative, spends twice.
ChainsValid == ChainCommitted /\ NoDoubleSpend

\* "PANIC!!! failed to add (again) block while chain switching during the rollback!":
\* every block of the original chain can be put back.
NoPanic ==
    (op.pc = "restore" /\ Len(blocks) < SwitchSplit + Len(op.old))
        => Connectable(NextToRestore, OnboardToRestore)

\* "Detected recursive reorganzie": pushing the old chain back as an alternative one never
\* asks for another switch while one is in progress.
NoRecursiveReorganize ==
    (op.pc = "push" /\ op.swapped < Len(op.old))
        => ~is_reorganize_required(op.old[op.swapped + 1])

\* what may become of the committed chain in one step
GrowsOrGivesWay ==
    \/ Len(committed') >= Len(committed) /\ SubSeq(committed', 1, Len(committed)) = committed
    \/ Supersedes(committed', committed)
    \/ \E n \in 1..Cardinality(Block) : truncate_blockchain(n)

\* The committed chain grows, or gives way to a branch that wins against it by the difficulties
\* the two have at their split (is_reorganize_required): no switch that failed half way, no
\* rollback and no restart leaves a shorter or a weaker one.  Only the operator truncates it.
BetterChainOnly == [][GrowsOrGivesWay]_vars

\* Between two blocks no block is both on the main chain and alternative, and no
\* block the node has is one that it holds for invalid (have_block's three sets).
BlockSetsDisjoint ==
    op.pc = "idle" =>
        /\ SeqSet(blocks) \cap alt.chains = {}
        /\ invalid_blocks \cap (SeqSet(blocks) \cup alt.chains) = {}

\* m_alternative_chains_txs says how many alternative blocks a transaction is related
\* to, no matter how many switches and rollbacks moved blocks in and out.
AltTxCounts == \A t \in Tx : alt.txs[t] = Cardinality({b \in alt.chains : t \in TxSet(b)})

\* m_altblocks_keyimages misses no key image of an alternative block.
AltKeyImagesComplete == \A b \in alt.chains : \A ki \in BlockKi(b) : b \in alt.keyimages[ki]

\* The iterators switch_to_alternative_blockchain holds stay valid until it erases them.
SwitchIteratorsValid ==
    op.pc \notin {"idle", "main", "commit", "stale_size"} => SeqSet(op.alt_chain) \subseteq alt.chains

\* A switch never meets what it cannot handle: the old chain can be put back, pushing it
\* asks for no further switch, and no iterator it holds is erased under it
\* (switch_to_alternative_blockchain, rollback_blockchain_switching).
SwitchSound == NoPanic /\ NoRecursiveReorganize /\ SwitchIteratorsValid

\* The containers of alternative blocks agree with each other, with the main chain and
\* with the blocks held for invalid, after any sequence of switches and rollbacks.
AltContainersAgree == BlockSetsDisjoint /\ AltTxCounts

\* A transaction the node has, in the pool or on the chain, is only ever dropped by
\* remove_stuck_transactions, while no block is handled, and only if no alternative block
\* needs it: no failed block, failed switch, rollback or truncation loses it.  (A process
\* that ends before commit_transaction does lose what take_tx took: two databases.)
Known == pool \cup MainTxs(blocks)
TxsKept ==
    [][Restart \/ \A t \in Known :
          t \in Known' \/ (op.pc = "idle" /\ ~is_tx_related_to_altblock(t))]_vars

ValidBranch(b) ==
    /\ SeqSet(PathTo[b]) \cap BadBlock = {}
    /\ MainTxs(PathTo[b]) \cap BadSemantic = {}
    /\ b \in SpendingOnce

\* the blocks that win against every valid block not below them, whatever scale the node uses
BestBlocks ==
    {b \in Block :
        /\ ValidBranch(b)
        /\ \A c \in Block \ SeqSet(PathTo[b]) :
              ValidBranch(c) =>
                  \E s \in 1..Len(PathTo[c]) :
                      /\ ForkAt(PathTo[c], PathTo[b], s)
                      /\ \A scale \in Scales(PathTo[c], s) : Wins(scale, s, c, b)}

\* A node to which its peers offer every block ends up on the best valid chain and stays
\* there, in whatever order the blocks arrive, whatever failed before, and whatever
\* difficulties it kept from the chains it was on.
Converges == \A b \in BestBlocks : <>[](Top(committed) = b)
=============================================================================
