---------------------------- MODULE TxPoolProofs ----------------------------
(***************************************************************************)
(* Theorems about the transaction pool, for every set of transactions and  *)
(* every way they share key images, multisig outputs and aliases.          *)
(***************************************************************************)
EXTENDS TxPool, TLAPS

USE DEF EntryKind

(***************************************************************************)
(* Types.                                                                  *)
(***************************************************************************)

\* The pool starts with empty containers (tx_memory_pool::init on a new database).
LEMMA TypeInit == Init => TypeOK
<1> SUFFICES ASSUME Init PROVE TypeOK
    OBVIOUS
<1>1. NoRead \in [Tx -> EntryKind]
    BY DEF NoRead
<1>2. IndexOf(NoRead) \in [KeyImage -> SUBSET Tx]
    BY DEF IndexOf
<1>3. /\ Idle \in [pc : {"idle", "alias", "key_images", "multisig", "insert"},
                  kept : BOOLEAN, tx : Tx \cup {NoTx}]
      /\ Idle.pc = "idle"
    BY DEF Idle
<1>4. purging \in BOOLEAN
    BY DEF Init
<1>. QED BY <1>1, <1>2, <1>3, <1>4 DEF Init, TypeOK

\* What do_insert_transaction writes has the types of the containers.
LEMMA InsertType ==
    ASSUME TypeOK, NEW t \in Tx, NEW kind \in {"relayed", "kept"},
           do_insert_transaction(t, kind)
    PROVE  /\ db_transactions' \in [Tx -> EntryKind]
           /\ db_aliases' \subseteq AliasKey
           /\ key_images' \in [KeyImage -> SUBSET Tx]
BY PoolAssumption DEF TypeOK, do_insert_transaction, insert_key_images, insert_alias_info

\* What an erasure writes has the types of the containers (m_db_transactions.erase, on_tx_remove).
LEMMA EraseType ==
    ASSUME TypeOK, NEW S \in SUBSET Tx, EraseTransactions(S)
    PROVE  /\ db_transactions' \in [Tx -> EntryKind]
           /\ db_aliases' \subseteq AliasKey
           /\ key_images' \in [KeyImage -> SUBSET Tx]
BY PoolAssumption DEF TypeOK, EraseTransactions, remove_key_images, remove_alias_info

\* Every step of the node, block templates and pool resets included, keeps the types.
LEMMA TypeStep == TypeOK /\ [MiningNext \/ ResetNext]_vars => TypeOK'
<1> SUFFICES ASSUME TypeOK, [MiningNext \/ ResetNext]_vars PROVE TypeOK'
    OBVIOUS
<1> USE PoolAssumption
<1>1. ASSUME NEW t \in Tx, NEW kept \in BOOLEAN, handle_incoming_tx(t, kept) PROVE TypeOK'
    BY <1>1 DEF handle_incoming_tx, UnchangedPool, UnchangedIdle, TypeOK
<1>2. CASE RejectIncoming
    BY <1>2 DEF RejectIncoming, UnchangedPool, UnchangedIdle, Idle, TypeOK
<1>3. CASE validate_alias_info
    BY <1>3 DEF validate_alias_info, UnchangedPool, UnchangedIdle, TypeOK
<1>4. CASE check_key_images
    BY <1>4 DEF check_key_images, UnchangedPool, UnchangedIdle, TypeOK
<1>5. CASE check_tx_multisig_ins_and_outs
    BY <1>5 DEF check_tx_multisig_ins_and_outs, UnchangedPool, UnchangedIdle, TypeOK
<1>6. CASE insert_incoming
    <2>1. incoming.tx \in Tx
        BY <1>6 DEF insert_incoming, TypeOK
    <2>2. PICK kind \in {"relayed", "kept"} : do_insert_transaction(incoming.tx, kind)
        BY <1>6 DEF insert_incoming
    <2>. QED BY <1>6, <2>1, <2>2, InsertType DEF insert_incoming, UnchangedIdle, Idle, TypeOK
<1>7. ASSUME NEW t \in Tx, add_tx_from_core(t) PROVE TypeOK'
    BY <1>7, InsertType DEF add_tx_from_core, TypeOK
<1>8. ASSUME NEW t \in Tx, take_tx(t) PROVE TypeOK'
    BY <1>8, EraseType DEF take_tx, TypeOK
<1>9. CASE on_finalize_db_transaction
    BY <1>9 DEF on_finalize_db_transaction, UnchangedPool, TypeOK
<1>10. ASSUME NEW S \in SUBSET Tx, remove_stuck_transactions(S) PROVE TypeOK'
    BY <1>10, EraseType DEF remove_stuck_transactions, TypeOK
<1>11. CASE Restart
    BY <1>11 DEF Restart, Idle, NoRead, IndexOf, TypeOK
<1>12. CASE fill_block_template_read
    BY <1>12 DEF fill_block_template_read, UnchangedPool, TypeOK
<1>13. ASSUME NEW t \in Tx, fill_block_template_write(t) PROVE TypeOK'
    BY <1>13 DEF fill_block_template_write, TypeOK
<1>14. CASE fill_block_template_end
    BY <1>14 DEF fill_block_template_end, UnchangedPool, NoRead, TypeOK
<1>15. CASE purge_transactions_db
    BY <1>15 DEF purge_transactions_db, NoRead, TypeOK
<1>16. CASE purge_transactions_key_images
    BY <1>16 DEF purge_transactions_key_images, NoRead, IndexOf, TypeOK
<1>17. CASE UNCHANGED vars
    BY <1>17 DEF vars, TypeOK
<1>. QED
    BY <1>1, <1>2, <1>3, <1>4, <1>5, <1>6, <1>7, <1>8, <1>9, <1>10, <1>11, <1>12, <1>13, <1>14,
       <1>15, <1>16, <1>17 DEF MiningNext, ResetNext, Next

\* The pool's variables keep their types, and a transaction kept by a block never
\* enters the checks add_tx makes for relayed ones.
THEOREM TypeCorrect == Spec => []TypeOK
<1>1. TypeOK /\ [Next]_vars => TypeOK'
    BY TypeStep DEF MiningNext
<1>. QED BY TypeInit, <1>1, PTL DEF Spec

(***************************************************************************)
(* The key image index.                                                    *)
(***************************************************************************)

\* on_tx_add keeps the index equal to the one the database calls for, also
\* when the transaction was in the pool already.
LEMMA InsertIndex ==
    ASSUME TypeOK, KeyImagesIndexed, NEW t \in Tx, NEW kind \in {"relayed", "kept"},
           do_insert_transaction(t, kind)
    PROVE  KeyImagesIndexed'
<1> USE PoolAssumption
<1>1. ASSUME NEW ki \in KeyImage
      PROVE  (IF ki \in KiOf[t] THEN key_images[ki] \cup {t} ELSE key_images[ki])
                = {u \in Tx : db_transactions'[u] # "none" /\ ki \in KiOf[u]}
    BY DEF KeyImagesIndexed, IndexOf, do_insert_transaction, TypeOK
<1>. QED BY <1>1 DEF KeyImagesIndexed, IndexOf, do_insert_transaction, insert_key_images

\* on_tx_remove keeps the index equal to the one the database calls for.
LEMMA EraseIndex ==
    ASSUME TypeOK, KeyImagesIndexed, NEW S \in SUBSET Tx, EraseTransactions(S)
    PROVE  KeyImagesIndexed'
<1> USE PoolAssumption
<1>1. ASSUME NEW ki \in KeyImage
      PROVE  key_images[ki] \ {t \in S : ki \in KiOf[t]}
                = {u \in Tx : db_transactions'[u] # "none" /\ ki \in KiOf[u]}
    BY DEF KeyImagesIndexed, IndexOf, EraseTransactions, TypeOK
<1>. QED BY <1>1 DEF KeyImagesIndexed, IndexOf, EraseTransactions, remove_key_images

\* Every step of a node that neither mines nor resets its pool keeps the index exact.
LEMMA IndexStep == TypeOK /\ KeyImagesIndexed /\ [Next]_vars => KeyImagesIndexed'
<1> SUFFICES ASSUME TypeOK, KeyImagesIndexed, [Next]_vars PROVE KeyImagesIndexed'
    OBVIOUS
<1> USE DEF UnchangedPool, KeyImagesIndexed
<1>1. ASSUME NEW t \in Tx, NEW kept \in BOOLEAN, handle_incoming_tx(t, kept) PROVE KeyImagesIndexed'
    BY <1>1 DEF handle_incoming_tx
<1>2. CASE RejectIncoming
    BY <1>2 DEF RejectIncoming
<1>3. CASE validate_alias_info
    BY <1>3 DEF validate_alias_info
<1>4. CASE check_key_images
    BY <1>4 DEF check_key_images
<1>5. CASE check_tx_multisig_ins_and_outs
    BY <1>5 DEF check_tx_multisig_ins_and_outs
<1>6. CASE insert_incoming
    <2>1. incoming.tx \in Tx
        BY <1>6 DEF insert_incoming, TypeOK
    <2>2. PICK kind \in {"relayed", "kept"} : do_insert_transaction(incoming.tx, kind)
        BY <1>6 DEF insert_incoming
    <2>. QED BY <2>1, <2>2, InsertIndex
<1>7. ASSUME NEW t \in Tx, add_tx_from_core(t) PROVE KeyImagesIndexed'
    BY <1>7, InsertIndex DEF add_tx_from_core
<1>8. ASSUME NEW t \in Tx, take_tx(t) PROVE KeyImagesIndexed'
    BY <1>8, EraseIndex DEF take_tx
<1>9. CASE on_finalize_db_transaction
    BY <1>9 DEF on_finalize_db_transaction
<1>10. ASSUME NEW S \in SUBSET Tx, remove_stuck_transactions(S) PROVE KeyImagesIndexed'
    BY <1>10, EraseIndex DEF remove_stuck_transactions
<1>11. CASE Restart
    BY <1>11 DEF Restart
<1>12. CASE UNCHANGED vars
    BY <1>12 DEF vars
<1>. QED
    BY <1>1, <1>2, <1>3, <1>4, <1>5, <1>6, <1>7, <1>8, <1>9, <1>10, <1>11, <1>12 DEF Next

\* The index of the running node is always the one a restart would rebuild.
THEOREM IndexExact == Spec => []KeyImagesIndexed
<1>1. Init => KeyImagesIndexed
    BY DEF Init, KeyImagesIndexed
<1>. QED BY <1>1, IndexStep, TypeCorrect, PTL DEF Spec

(***************************************************************************)
(* No two relayed transactions conflict.  What makes it inductive is that  *)
(* the transaction between its checks and its insertion conflicts with no  *)
(* relayed one: only handle_incoming_tx adds relayed transactions, and one *)
(* call runs at a time.                                                    *)
(***************************************************************************)

\* The transaction under verification, once past the key image check and the
\* multisig check of add_tx, conflicts with no relayed transaction of the pool.
PendingCompatible ==
    ~incoming.kept =>
        \A u \in Tx : (db_transactions[u] = "relayed" /\ u # incoming.tx) =>
            /\ incoming.pc \in {"multisig", "insert"} => KiOf[incoming.tx] \cap KiOf[u] = {}
            /\ incoming.pc = "insert" => MsOf[incoming.tx] \cap MsOf[u] = {}

\* The strengthening of NoRelayedConflict that the steps of the node preserve.
PoolInv == TypeOK /\ KeyImagesIndexed /\ NoRelayedConflict /\ PendingCompatible

\* Steps of the other threads only take relayed transactions away.
LEMMA FewerRelayed ==
    ASSUME PoolInv, UNCHANGED incoming,
           \A u \in Tx : db_transactions'[u] = "relayed" => db_transactions[u] = "relayed"
    PROVE  NoRelayedConflict' /\ PendingCompatible'
BY DEF PoolInv, NoRelayedConflict, PendingCompatible

\* Every step of the node preserves the strengthened invariant.
LEMMA ConflictStep == PoolInv /\ [Next]_vars => PoolInv'
<1> SUFFICES ASSUME PoolInv, [Next]_vars PROVE NoRelayedConflict' /\ PendingCompatible'
    BY TypeStep, IndexStep DEF PoolInv, MiningNext
<1> USE PoolAssumption DEF UnchangedPool
<1>1. ASSUME NEW t \in Tx, NEW kept \in BOOLEAN, handle_incoming_tx(t, kept)
      PROVE  NoRelayedConflict' /\ PendingCompatible'
    BY <1>1 DEF handle_incoming_tx, PoolInv, NoRelayedConflict, PendingCompatible
<1>2. CASE RejectIncoming
    BY <1>2 DEF RejectIncoming, Idle, PoolInv, NoRelayedConflict, PendingCompatible
<1>3. CASE validate_alias_info
    <2>1. incoming'.kept = incoming.kept /\ (~incoming.kept => incoming'.pc = "key_images")
        BY <1>3 DEF validate_alias_info, PoolInv, TypeOK
    <2>. QED BY <1>3, <2>1 DEF validate_alias_info, PoolInv, NoRelayedConflict, PendingCompatible
<1>4. CASE check_key_images
    <2>1. /\ incoming.tx \in Tx
          /\ incoming' = [incoming EXCEPT !.pc = "multisig"]
          /\ incoming'.tx = incoming.tx /\ incoming'.pc = "multisig"
        BY <1>4 DEF check_key_images, PoolInv, TypeOK
    <2>2. \A u \in Tx : InPool(u) => KiOf[incoming.tx] \cap KiOf[u] = {}
        BY <1>4, <2>1 DEF check_key_images, have_tx_keyimges_as_spent, PoolInv, KeyImagesIndexed,
                          IndexOf, InPool
    <2>. QED BY <1>4, <2>1, <2>2 DEF check_key_images, InPool, PoolInv, NoRelayedConflict,
                                     PendingCompatible
<1>5. CASE check_tx_multisig_ins_and_outs
    <2>1. /\ incoming.tx \in Tx
          /\ incoming.pc = "multisig"
          /\ incoming'.kept = incoming.kept
          /\ incoming'.tx = incoming.tx /\ incoming'.pc = "insert"
        BY <1>5 DEF check_tx_multisig_ins_and_outs, PoolInv, TypeOK
    <2>2. \A u \in Tx : InPool(u) => MsOf[incoming.tx] \cap MsOf[u] = {}
        BY <1>5, <2>1 DEF check_tx_multisig_ins_and_outs, MultisigIdInPool
    <2>. QED BY <1>5, <2>1, <2>2 DEF check_tx_multisig_ins_and_outs, InPool, PoolInv,
                                     NoRelayedConflict, PendingCompatible
<1>6. CASE insert_incoming
    <2>1. incoming.tx \in Tx /\ incoming.pc = "insert"
        BY <1>6 DEF insert_incoming, PoolInv, TypeOK
    <2>2. PendingCompatible'
        BY <1>6 DEF insert_incoming, Idle, PendingCompatible
    <2>3. CASE incoming.kept
        <3>1. db_transactions' = [db_transactions EXCEPT ![incoming.tx] = "kept"]
            BY <1>6, <2>3 DEF insert_incoming, do_insert_transaction
        <3>. QED BY <2>1, <2>2, <3>1 DEF PoolInv, TypeOK, NoRelayedConflict
    <2>4. CASE ~incoming.kept
        <3>1. db_transactions' = [db_transactions EXCEPT ![incoming.tx] = "relayed"]
            BY <1>6, <2>4 DEF insert_incoming, do_insert_transaction
        <3>2. \A u \in Tx : (db_transactions[u] = "relayed" /\ u # incoming.tx) =>
                  KiOf[incoming.tx] \cap KiOf[u] = {} /\ MsOf[incoming.tx] \cap MsOf[u] = {}
            BY <2>1, <2>4 DEF PoolInv, PendingCompatible
        <3>. QED BY <2>1, <2>2, <3>1, <3>2 DEF PoolInv, TypeOK, NoRelayedConflict
    <2>. QED BY <2>3, <2>4
<1>7. ASSUME NEW t \in Tx, add_tx_from_core(t) PROVE NoRelayedConflict' /\ PendingCompatible'
    <2>1. db_transactions' = [db_transactions EXCEPT ![t] = "kept"]
        BY <1>7 DEF add_tx_from_core, do_insert_transaction
    <2>. QED BY <1>7, <2>1, FewerRelayed DEF add_tx_from_core, PoolInv, TypeOK
<1>8. ASSUME NEW t \in Tx, take_tx(t) PROVE NoRelayedConflict' /\ PendingCompatible'
    BY <1>8, FewerRelayed DEF take_tx, EraseTransactions
<1>9. CASE on_finalize_db_transaction
    BY <1>9, FewerRelayed DEF on_finalize_db_transaction
<1>10. ASSUME NEW S \in SUBSET Tx, remove_stuck_transactions(S)
       PROVE  NoRelayedConflict' /\ PendingCompatible'
    BY <1>10, FewerRelayed DEF remove_stuck_transactions, EraseTransactions
<1>11. CASE Restart
    BY <1>11 DEF Restart, Idle, PoolInv, NoRelayedConflict, PendingCompatible
<1>12. CASE UNCHANGED vars
    BY <1>12, FewerRelayed DEF vars
<1>. QED
    BY <1>1, <1>2, <1>3, <1>4, <1>5, <1>6, <1>7, <1>8, <1>9, <1>10, <1>11, <1>12 DEF Next

\* Two transactions relayed to this node are never both in its pool when they
\* spend the same key image or touch the same multisig output.
THEOREM NoConflict == Spec => []NoRelayedConflict
<1>1. Init => PoolInv
    <2>1. Init => NoRelayedConflict /\ PendingCompatible
        BY DEF Init, NoRead, Idle, NoRelayedConflict, PendingCompatible
    <2>. QED BY <2>1, TypeInit DEF Init, PoolInv, KeyImagesIndexed
<1>2. PoolInv => NoRelayedConflict
    BY DEF PoolInv
<1>. QED BY <1>1, <1>2, ConflictStep, PTL DEF Spec

(***************************************************************************)
(* The alias marks.  A mark that outlives an erasure belongs to none of    *)
(* the transactions erased, so one that stays asks for it.                 *)
(***************************************************************************)

\* The transactions of the pool that ask for an alias back its mark, in the database d.
Backed(aliases, d) == \A a \in aliases : \E t \in Tx : d[t] # "none" /\ a \in AliasOf[t]

\* AliasMarksBacked, mark by mark.
LEMMA BackedMarks == AliasMarksBacked <=> Backed(db_aliases, db_transactions)
BY DEF AliasMarksBacked, Backed, InPool

\* The same for the state after a step.
LEMMA BackedMarksNext == AliasMarksBacked' <=> Backed(db_aliases', db_transactions')
BY DEF AliasMarksBacked, Backed, InPool

\* insert_alias_info marks what the inserted transaction asks for.
LEMMA InsertBacked ==
    ASSUME TypeOK, AliasMarksBacked, NEW t \in Tx, NEW kind \in {"relayed", "kept"},
           do_insert_transaction(t, kind)
    PROVE  AliasMarksBacked'
<1>1. ASSUME NEW a \in db_aliases'
      PROVE  \E u \in Tx : db_transactions'[u] # "none" /\ a \in AliasOf[u]
    <2>1. db_transactions' = [db_transactions EXCEPT ![t] = kind] /\ db_aliases' = db_aliases \cup AliasOf[t]
        BY DEF do_insert_transaction, insert_alias_info
    <2>2. CASE a \in AliasOf[t]
        BY <2>1, <2>2 DEF TypeOK
    <2>3. CASE a \in db_aliases
        <3>1. PICK u \in Tx : db_transactions[u] # "none" /\ a \in AliasOf[u]
            BY <2>3, BackedMarks DEF Backed
        <3>. QED BY <2>1, <3>1 DEF TypeOK
    <2>. QED BY <1>1, <2>1, <2>2, <2>3
<1>. QED BY <1>1, BackedMarksNext DEF Backed

\* remove_alias_info erases every mark of what leaves, so none is left unbacked.
LEMMA EraseBacked ==
    ASSUME TypeOK, AliasMarksBacked, NEW S \in SUBSET Tx, EraseTransactions(S)
    PROVE  AliasMarksBacked'
<1>1. ASSUME NEW a \in db_aliases'
      PROVE  \E u \in Tx : db_transactions'[u] # "none" /\ a \in AliasOf[u]
    <2>1. a \in db_aliases /\ \A t \in S : a \notin AliasOf[t]
        BY <1>1 DEF EraseTransactions, remove_alias_info
    <2>2. PICK u \in Tx : db_transactions[u] # "none" /\ a \in AliasOf[u]
        BY <2>1, BackedMarks DEF Backed
    <2>. QED BY <2>1, <2>2 DEF EraseTransactions
<1>. QED BY <1>1, BackedMarksNext DEF Backed

\* Every step of a node whose pool is not purged keeps the marks backed.
LEMMA AliasStep == TypeOK /\ AliasMarksBacked /\ [Next]_vars => AliasMarksBacked'
<1> SUFFICES ASSUME TypeOK, AliasMarksBacked, [Next]_vars PROVE AliasMarksBacked'
    OBVIOUS
<1>1. CASE UNCHANGED <<db_transactions, db_aliases>>
    BY <1>1 DEF AliasMarksBacked, InPool
<1>2. ASSUME NEW t \in Tx, NEW kept \in BOOLEAN, handle_incoming_tx(t, kept) PROVE AliasMarksBacked'
    BY <1>1, <1>2 DEF handle_incoming_tx, UnchangedPool
<1>3. CASE insert_incoming
    <2>1. incoming.tx \in Tx
        BY <1>3 DEF insert_incoming, TypeOK
    <2>2. PICK kind \in {"relayed", "kept"} : do_insert_transaction(incoming.tx, kind)
        BY <1>3 DEF insert_incoming
    <2>. QED BY <2>1, <2>2, InsertBacked
<1>4. ASSUME NEW t \in Tx, add_tx_from_core(t) PROVE AliasMarksBacked'
    BY <1>4, InsertBacked DEF add_tx_from_core
<1>5. ASSUME NEW t \in Tx, take_tx(t) PROVE AliasMarksBacked'
    BY <1>5, EraseBacked DEF take_tx
<1>6. ASSUME NEW S \in SUBSET Tx, remove_stuck_transactions(S) PROVE AliasMarksBacked'
    BY <1>6, EraseBacked DEF remove_stuck_transactions
<1>7. CASE RejectIncoming \/ validate_alias_info \/ check_key_images
              \/ check_tx_multisig_ins_and_outs \/ on_finalize_db_transaction
    BY <1>1, <1>7 DEF RejectIncoming, validate_alias_info, check_key_images,
                      check_tx_multisig_ins_and_outs, on_finalize_db_transaction, UnchangedPool
<1>8. CASE Restart
    BY <1>1, <1>8 DEF Restart
<1>9. CASE UNCHANGED vars
    BY <1>1, <1>9 DEF vars
<1>. QED BY <1>2, <1>3, <1>4, <1>5, <1>6, <1>7, <1>8, <1>9 DEF Next

\* An alias that add_tx refuses because it is in the pool is asked for by a
\* transaction of the pool, as long as the pool is not purged.
THEOREM AliasesBacked == Spec => []AliasMarksBacked
<1>1. Init => AliasMarksBacked
    BY DEF Init, AliasMarksBacked
<1>. QED BY <1>1, AliasStep, TypeCorrect, PTL DEF Spec

(***************************************************************************)
(* A node that makes templates and whose pool is reset.  Its index may     *)
(* miss transactions (the write-back of fill_block_template) but holds no  *)
(* key image of one that is gone, unless a purge is between its two steps. *)
(***************************************************************************)

\* Every step of such a node leaves no key image behind.
LEMMA OrphanStep == TypeOK /\ NoOrphanKeyImage /\ [ResetNext]_vars => NoOrphanKeyImage'
<1> SUFFICES ASSUME TypeOK, NoOrphanKeyImage, [ResetNext]_vars, ~purging',
                    NEW ki \in KeyImage, NEW t \in key_images'[ki]
             PROVE  db_transactions'[t] # "none" /\ ki \in KiOf[t]
    BY DEF NoOrphanKeyImage, InPool
<1> USE PoolAssumption DEF NoOrphanKeyImage, InPool
<1>1. CASE UNCHANGED <<db_transactions, key_images, purging>>
    BY <1>1
<1>2. ASSUME NEW u \in Tx, NEW kind \in {"relayed", "kept"}, do_insert_transaction(u, kind),
             UNCHANGED purging
      PROVE  db_transactions'[t] # "none" /\ ki \in KiOf[t]
    BY <1>2 DEF do_insert_transaction, insert_key_images, TypeOK
<1>3. ASSUME NEW S \in SUBSET Tx, EraseTransactions(S), UNCHANGED purging
      PROVE  db_transactions'[t] # "none" /\ ki \in KiOf[t]
    BY <1>3 DEF EraseTransactions, remove_key_images, TypeOK
<1>4. ASSUME NEW u \in Tx, NEW kept \in BOOLEAN, handle_incoming_tx(u, kept)
      PROVE  db_transactions'[t] # "none" /\ ki \in KiOf[t]
    BY <1>1, <1>4 DEF handle_incoming_tx, UnchangedPool, UnchangedIdle
<1>5. CASE insert_incoming
    <2>1. incoming.tx \in Tx /\ UNCHANGED purging
        BY <1>5 DEF insert_incoming, UnchangedIdle, TypeOK
    <2>2. PICK kind \in {"relayed", "kept"} : do_insert_transaction(incoming.tx, kind)
        BY <1>5 DEF insert_incoming
    <2>. QED BY <1>2, <2>1, <2>2
<1>6. ASSUME NEW u \in Tx, add_tx_from_core(u) PROVE db_transactions'[t] # "none" /\ ki \in KiOf[t]
    BY <1>2, <1>6 DEF add_tx_from_core
<1>7. ASSUME NEW u \in Tx, take_tx(u) PROVE db_transactions'[t] # "none" /\ ki \in KiOf[t]
    BY <1>3, <1>7 DEF take_tx
<1>8. ASSUME NEW S \in SUBSET Tx, remove_stuck_transactions(S)
      PROVE  db_transactions'[t] # "none" /\ ki \in KiOf[t]
    BY <1>3, <1>8 DEF remove_stuck_transactions
<1>9. CASE RejectIncoming \/ validate_alias_info \/ check_key_images
              \/ check_tx_multisig_ins_and_outs \/ on_finalize_db_transaction
    BY <1>1, <1>9 DEF RejectIncoming, validate_alias_info, check_key_images, UnchangedPool,
                      check_tx_multisig_ins_and_outs, on_finalize_db_transaction, UnchangedIdle
<1>10. CASE Restart
    BY <1>10 DEF Restart, IndexOf
<1>11. CASE fill_block_template_read \/ fill_block_template_end
    BY <1>1, <1>11 DEF fill_block_template_read, fill_block_template_end, UnchangedPool
<1>12. ASSUME NEW u \in Tx, fill_block_template_write(u)
       PROVE  db_transactions'[t] # "none" /\ ki \in KiOf[t]
    BY <1>12 DEF fill_block_template_write, TypeOK
<1>13. CASE purge_transactions_db
    BY <1>13 DEF purge_transactions_db
<1>14. CASE purge_transactions_key_images
    BY <1>14 DEF purge_transactions_key_images, IndexOf, NoRead
<1>15. CASE UNCHANGED vars
    BY <1>1, <1>15 DEF vars
<1>. QED
    BY <1>4, <1>5, <1>6, <1>7, <1>8, <1>9, <1>10, <1>11, <1>12, <1>13, <1>14, <1>15
       DEF ResetNext, MiningNext, Next

\* Removing a transaction always frees its inputs for another one, whatever block
\* templates are made and however often the pool is reset.
THEOREM NoOrphan == ResetSpec => []NoOrphanKeyImage
<1>1. Init => NoOrphanKeyImage
    BY DEF Init, NoOrphanKeyImage, IndexOf, NoRead
<1>2. TypeOK /\ [ResetNext]_vars => TypeOK'
    BY TypeStep
<1>. QED BY <1>1, <1>2, TypeInit, OrphanStep, PTL DEF ResetSpec
=============================================================================
