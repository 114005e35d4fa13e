------------------------------- MODULE TxPool -------------------------------
(***************************************************************************)
(* The transaction pool, class tx_memory_pool (tx_pool.cpp, tx_pool.h),    *)
(* together with the one caller that feeds it from the network,            *)
(* core::handle_incoming_tx / core::add_new_tx (currency_core.cpp).        *)
(*                                                                         *)
(* The pool keeps its transactions and the names and addresses of the      *)
(* aliases they ask for in a database; the index of the key images they    *)
(* spend and the set of transactions lent to a block under verification    *)
(* live in memory.  Every write is one database transaction, so it is one  *)
(* action; the checks that add_tx makes before it writes are separate      *)
(* actions, because nothing stops the other threads between them.          *)
(*                                                                         *)
(* What the pool asks the blockchain (are the inputs valid, is the         *)
(* transaction expired, is the alias registered, is it related to an       *)
(* alternative block) may change at any moment, so each answer is a        *)
(* nondeterministic choice: what is shown holds for every blockchain.      *)
(***************************************************************************)
EXTENDS Naturals, FiniteSets

CONSTANTS
    Tx,         \* transaction ids
    KeyImage,   \* key images of txin_to_key inputs
    MultisigId, \* multisig ids of txin_multisig inputs and multisig outputs
    AliasKey,   \* alias names and the addresses they are registered for
    KiOf,       \* KiOf[t]: the key images the inputs of t spend
    MsOf,       \* MsOf[t]: the multisig ids t refers to
    AliasOf,    \* AliasOf[t]: name and address of t's alias entry, {} if none
    NoTx        \* no transaction

ASSUME PoolAssumption ==
    /\ KiOf \in [Tx -> SUBSET KeyImage]
    /\ MsOf \in [Tx -> SUBSET MultisigId]
    /\ AliasOf \in [Tx -> SUBSET AliasKey]
    /\ NoTx \notin Tx

VARIABLES
    db_transactions, \* m_db_transactions: "none", "relayed" or "kept" (tx_details.kept_by_block)
    db_aliases,      \* m_db_alias_names and m_db_alias_addresses
    key_images,      \* m_key_images; an entry that is erased is {}
    taken_txs,       \* m_taken_txs
    incoming,        \* the thread inside handle_incoming_tx (m_incoming_tx_lock: one at a time)
    template,        \* what the thread inside fill_block_template read, all "none" if there is none
    purging          \* a purge_transactions call has cleared the database and not yet m_key_images

vars == <<db_transactions, db_aliases, key_images, taken_txs, incoming, template, purging>>

EntryKind == {"none", "relayed", "kept"}
Idle      == [pc |-> "idle", kept |-> FALSE, tx |-> NoTx]
NoRead    == [t \in Tx |-> "none"]

InPool(t) == db_transactions[t] # "none"

(***************************************************************************)
(* The indexes.                                                            *)
(***************************************************************************)

\* get_key_images_from_tx_pool: the index that the stored transactions call for
IndexOf(trs) == [ki \in KeyImage |-> {t \in Tx : trs[t] # "none" /\ ki \in KiOf[t]}]

insert_key_images(t) ==
    [ki \in KeyImage |-> IF ki \in KiOf[t] THEN key_images[ki] \cup {t} ELSE key_images[ki]]

\* mutant: the whole entry is dropped although another transaction spends the key image too
remove_key_images_shared(S) ==
    [ki \in KeyImage |-> IF \E t \in S : ki \in KiOf[t] THEN {} ELSE key_images[ki]]

\* mutant: an entry shared by two transactions is left as it is
remove_key_images_counted(S) ==
    [ki \in KeyImage |-> IF Cardinality(key_images[ki]) > 1 THEN key_images[ki]
                          ELSE key_images[ki] \ S]

remove_key_images(S) == [ki \in KeyImage |-> key_images[ki] \ {t \in S : ki \in KiOf[t]}]

insert_alias_info(t) == db_aliases \cup AliasOf[t]

\* mutant: the alias of a removed transaction stays
remove_alias_info_forgotten(S) == db_aliases

\* the entry is erased whoever else in the pool asks for the same alias
remove_alias_info(S) == db_aliases \ UNION {AliasOf[t] : t \in S}

have_tx(t) == InPool(t) \/ t \in taken_txs

\* mutant: off by one in the count of transactions that spend the key image
have_tx_keyimges_as_spent_twice(t) == \E ki \in KiOf[t] : Cardinality(key_images[ki]) > 1

have_tx_keyimges_as_spent(t) == \E ki \in KiOf[t] : key_images[ki] # {}

\* check_tx_multisig_ins_and_outs against the pool: it scans the transactions, no index
MultisigIdInPool(t) == \E u \in Tx : InPool(u) /\ MsOf[u] \cap MsOf[t] # {}

(***************************************************************************)
(* Writes, each inside one database transaction.                           *)
(***************************************************************************)

do_insert_transaction(t, kind) ==
    /\ db_transactions' = [db_transactions EXCEPT ![t] = kind]
    /\ key_images' = insert_key_images(t)
    /\ db_aliases' = insert_alias_info(t)

EraseTransactions(S) ==
    /\ db_transactions' = [t \in Tx |-> IF t \in S THEN "none" ELSE db_transactions[t]]
    /\ key_images' = remove_key_images(S)
    /\ db_aliases' = remove_alias_info(S)

Init ==
    /\ db_transactions = NoRead
    /\ db_aliases = {}
    /\ key_images = IndexOf(NoRead)
    /\ taken_txs = {}
    /\ incoming = Idle
    /\ template = NoRead
    /\ purging = FALSE

(***************************************************************************)
(* handle_incoming_tx: from the network or RPC (kept FALSE), or from the   *)
(* initial pre-download (kept TRUE).                                       *)
(***************************************************************************)

UnchangedPool  == UNCHANGED <<db_transactions, db_aliases, key_images>>
UnchangedIdle  == UNCHANGED <<taken_txs, template, purging>>

\* core::add_new_tx asks the pool, then the blockchain; then add_tx begins
handle_incoming_tx(t, kept) ==
    /\ incoming.pc = "idle"
    /\ ~have_tx(t)
    /\ incoming' = [pc |-> "alias", kept |-> kept, tx |-> t]
    /\ UnchangedPool /\ UnchangedIdle

\* checkpoint zone, hard fork terms, input types, expiration, amounts, fee,
\* registered alias, wrong inputs: an early return of add_tx
RejectIncoming ==
    /\ incoming.pc # "idle"
    /\ incoming' = Idle
    /\ UnchangedPool /\ UnchangedIdle

\* mutant: a transaction kept by a block falls through to the checks of relayed ones
validate_alias_info_all ==
    /\ incoming.pc = "alias"
    /\ incoming.kept \/ AliasOf[incoming.tx] \cap db_aliases = {}
    /\ incoming' = [incoming EXCEPT !.pc = "key_images"]
    /\ UnchangedPool /\ UnchangedIdle

\* validate_alias_info looks the alias up in the pool only for a tx not kept by a block
validate_alias_info ==
    /\ incoming.pc = "alias"
    /\ incoming.kept \/ AliasOf[incoming.tx] \cap db_aliases = {}
    /\ incoming' = [incoming EXCEPT !.pc = IF incoming.kept THEN "insert" ELSE "key_images"]
    /\ UnchangedPool /\ UnchangedIdle

check_key_images ==
    /\ incoming.pc = "key_images"
    /\ ~have_tx_keyimges_as_spent(incoming.tx)
    /\ incoming' = [incoming EXCEPT !.pc = "multisig"]
    /\ UnchangedPool /\ UnchangedIdle

check_tx_multisig_ins_and_outs ==
    /\ incoming.pc = "multisig"
    /\ ~MultisigIdInPool(incoming.tx)
    /\ incoming' = [incoming EXCEPT !.pc = "insert"]
    /\ UnchangedPool /\ UnchangedIdle

insert_incoming ==
    /\ incoming.pc = "insert"
    /\ do_insert_transaction(incoming.tx, IF incoming.kept THEN "kept" ELSE "relayed")
    /\ incoming' = Idle
    /\ UnchangedIdle

(***************************************************************************)
(* The thread that adds, switches or truncates the blockchain.             *)
(***************************************************************************)

\* a transaction of a popped block, or one put back after its block failed:
\* add_tx with kept_by_block and from_core, for which no check of the pool is made
add_tx_from_core(t) ==
    /\ do_insert_transaction(t, "kept")
    /\ UNCHANGED <<taken_txs, incoming, template, purging>>

take_tx(t) ==
    /\ InPool(t)
    /\ EraseTransactions({t})
    /\ taken_txs' = taken_txs \cup {t}
    /\ UNCHANGED <<incoming, template, purging>>

on_finalize_db_transaction ==
    /\ taken_txs' = {}
    /\ UnchangedPool
    /\ UNCHANGED <<incoming, template, purging>>

\* the idle thread: S is what is too old, expired or spent deep enough, and in no alternative block
remove_stuck_transactions(S) ==
    /\ S # {} /\ \A t \in S : InPool(t)
    /\ EraseTransactions(S)
    /\ UNCHANGED <<taken_txs, incoming, template, purging>>

\* the process ends at any point and starts again: init, load_keyimages_cache
Restart ==
    /\ key_images' = IndexOf(db_transactions)
    /\ taken_txs' = {}
    /\ incoming' = Idle
    /\ template' = NoRead
    /\ purging' = FALSE
    /\ UNCHANGED <<db_transactions, db_aliases>>

Next ==
    \/ \E t \in Tx, kept \in BOOLEAN : handle_incoming_tx(t, kept)
    \/ RejectIncoming
    \/ validate_alias_info
    \/ check_key_images
    \/ check_tx_multisig_ins_and_outs
    \/ insert_incoming
    \/ \E t \in Tx : add_tx_from_core(t)
    \/ \E t \in Tx : take_tx(t)
    \/ on_finalize_db_transaction
    \/ \E S \in SUBSET Tx : remove_stuck_transactions(S)
    \/ Restart

Spec == Init /\ [][Next]_vars

(***************************************************************************)
(* A node that also makes block templates (miner, stratum, RPC).           *)
(* fill_block_template works on a read-only snapshot and takes no lock of  *)
(* the pool; when the inputs of a transaction prove wrong it stores the    *)
(* copy it read, with last_failed_height and last_failed_id updated.       *)
(***************************************************************************)

fill_block_template_read ==
    /\ template = NoRead
    /\ template' = db_transactions
    /\ UnchangedPool
    /\ UNCHANGED <<taken_txs, incoming, purging>>

fill_block_template_write(t) ==
    /\ template[t] # "none"
    /\ db_transactions' = [db_transactions EXCEPT ![t] = template[t]]
    /\ UNCHANGED <<db_aliases, key_images, taken_txs, incoming, template, purging>>

fill_block_template_end ==
    /\ template # NoRead
    /\ template' = NoRead
    /\ UnchangedPool
    /\ UNCHANGED <<taken_txs, incoming, purging>>

MiningNext ==
    \/ Next
    \/ fill_block_template_read
    \/ \E t \in Tx : fill_block_template_write(t)
    \/ fill_block_template_end

MiningSpec == Init /\ [][MiningNext]_vars

(***************************************************************************)
(* A node that makes templates and whose operator resets the pool over RPC *)
(* (on_reset_transaction_pool): purge_transactions clears the database in  *)
(* one transaction and the key images afterwards.                          *)
(***************************************************************************)

purge_transactions_db ==
    /\ ~purging
    /\ db_transactions' = NoRead
    /\ purging' = TRUE
    /\ UNCHANGED <<db_aliases, key_images, taken_txs, incoming, template>>

\* mutant: m_key_images is not cleared
purge_transactions_no_key_images ==
    /\ purging
    /\ purging' = FALSE
    /\ UNCHANGED <<db_transactions, db_aliases, key_images, taken_txs, incoming, template>>

purge_transactions_key_images ==
    /\ purging
    /\ key_images' = IndexOf(NoRead)
    /\ purging' = FALSE
    /\ UNCHANGED <<db_transactions, db_aliases, taken_txs, incoming, template>>

ResetNext ==
    \/ MiningNext
    \/ purge_transactions_db
    \/ purge_transactions_key_images

ResetSpec == Init /\ [][ResetNext]_vars

(***************************************************************************)
(* Properties.                                                             *)
(***************************************************************************)

\* Every variable has its type, and only a transaction that is not kept by a
\* block goes through the key image and multisig checks of add_tx.
TypeOK ==
    /\ db_transactions \in [Tx -> EntryKind]
    /\ db_aliases \subseteq AliasKey
    /\ key_images \in [KeyImage -> SUBSET Tx]
    /\ taken_txs \subseteq Tx
    /\ incoming \in [pc : {"idle", "alias", "key_images", "multisig", "insert"},
                     kept : BOOLEAN, tx : Tx \cup {NoTx}]
    /\ incoming.pc # "idle" => incoming.tx \in Tx
    /\ incoming.pc \in {"key_images", "multisig"} => ~incoming.kept
    /\ template \in [Tx -> EntryKind]
    /\ purging \in BOOLEAN

\* The key image index of the running node is the one that a restart would
\* build from the database (load_keyimages_cache): no key image of a pool
\* transaction is missing, none outlives its transaction.
KeyImagesIndexed == key_images = IndexOf(db_transactions)

\* Two transactions accepted from the network never spend the same key image
\* or touch the same multisig output, whatever blocks are added, popped or
\* rejected while they are verified (add_tx's checks under m_incoming_tx_lock).
NoRelayedConflict ==
    \A t, u \in Tx :
        (db_transactions[t] = "relayed" /\ db_transactions[u] = "relayed" /\ t # u)
            => KiOf[t] \cap KiOf[u] = {} /\ MsOf[t] \cap MsOf[u] = {}

\* A key image in the index belongs to a pool transaction, so that removing a
\* transaction always frees its inputs for another one (have_tx_keyimg_as_spent).
\* While purge_transactions runs the index is allowed to lag.
NoOrphanKeyImage ==
    ~purging => \A ki \in KeyImage : \A t \in key_images[ki] : InPool(t) /\ ki \in KiOf[t]

\* An alias that add_tx reports as being in the pool is asked for by a
\* transaction of the pool (validate_alias_info, on_tx_remove).
AliasMarksBacked == db_aliases \subseteq UNION {AliasOf[t] : t \in {u \in Tx : InPool(u)}}
=============================================================================
