----------------------------- MODULE WalletSync -----------------------------
(***************************************************************************)
(* A wallet (wallet2) that follows a daemon whose main chain reorganizes:  *)
(* refresh pulls blocks from the last common block on, detaches what the   *)
(* daemon left and applies what it has now; transfer and scan_tx_pool come *)
(* in between.  A restart from the stored file is a wallet that has not    *)
(* taken its last steps: what it had sent meanwhile is then in the daemon's*)
(* pool like a transaction of others (Foreign).                            *)
(*                                                                         *)
(* The daemon, its chain and its pool are external: blocks are the nodes   *)
(* of a given tree and its main chain is the path to tip.  Of a            *)
(* transaction only the wallet's own outputs matter: those it spends, In,  *)
(* and those it creates, Out.  Every wallet call runs under the wallet's   *)
(* lock, so between two calls of the daemon the wallet is alone.           *)
(***************************************************************************)
EXTENDS ChainShortener, SequencesExt

CONSTANTS
  Genesis, Parent,  \* the tree of blocks: Parent[b] for every b but Genesis
  TxsOf,            \* the transactions of a block, the miner's first
  In, Out,          \* own outputs a transaction spends (a set), creates (a sequence)
  Coinbase,         \* transactions that only a block brings
  Foreign,          \* transactions others, or copies of this wallet, send
  Sendable,         \* transactions this wallet may send
  FirstTip, Tips,   \* blocks the daemon's main chain ends with: first, later
  MinimumHeights,   \* values of m_minimum_height
  MaxCount,         \* COMMAND_RPC_GET_BLOCKS_FAST_MAX_COUNT (4000)
  MaxMoves          \* bound: changes of the main chain

Blocks == DOMAIN Parent \cup {Genesis}
Transactions == DOMAIN In
Outputs == UNION {ToSet(Out[t]) : t \in Transactions}

Path[b \in Blocks] == IF b = Genesis THEN <<>> ELSE Append(Path[Parent[b]], b)

ASSUME SyncAssumption ==
  /\ {MaxCount, MaxMoves} \subseteq Nat /\ MaxCount > 1
  /\ DOMAIN Out = Transactions /\ DOMAIN TxsOf = Blocks
  /\ FirstTip \in Tips /\ Tips \subseteq Blocks
  /\ \A h \in MinimumHeights : h \in Nat /\ h <= Len(Path[FirstTip])

VARIABLES
  tip, pool, moves,     \* the daemon
  m_minimum_height,
  wallet,               \* the wallet's state, see NewWallet
  phase,                \* "idle", or "pull" inside refresh
  fetched,              \* blocks_fetched # 0 in this refresh
  thrown,               \* a self check of the wallet has thrown
  interrupted,          \* refresh returned early after it had changed the wallet
  torn,                 \* a block was left half processed
  exempt                \* outputs whose reservation was lost, see Loosened

vars == <<tip, pool, moves, m_minimum_height, wallet, phase, fetched,
          thrown, interrupted, torn, exempt>>
daemon == <<tip, pool, moves>>
ghosts == <<interrupted, torn, exempt>>

-----------------------------------------------------------------------------
(* The daemon's chain (external).                                          *)

Height(b) == Len(Path[b])
AtHeight(b, h) == IF h = 0 THEN Genesis ELSE Path[b][h]
OnPath(id, b) == id = Genesis \/ id \in ToSet(Path[b])
TxsOn(path) == UNION {ToSet(TxsOf[path[h]]) : h \in DOMAIN path}

Creates(txs) == UNION {ToSet(Out[t]) : t \in txs}
Spends(txs)  == UNION {In[t] : t \in txs}
Valid(t, b) ==
  LET confirmed == TxsOn(Path[b])
  IN  /\ t \notin confirmed
      /\ In[t] \subseteq Creates(confirmed) \ Spends(confirmed)
Conflicts(t, txs) == \E u \in txs \ {t} : In[t] \cap In[u] # {}

Fork(b, c) == Max({h \in 0..Min({Height(b), Height(c)}) : AtHeight(b, h) = AtHeight(c, h)})

\* The main chain ends with another block: it has grown, or gave way to a
\* branch, which may be of the same height or lower.  The transactions of
\* the blocks it leaves return to the pool.
reorganize ==
  /\ moves < MaxMoves
  /\ \E b \in Tips :
       /\ ~OnPath(b, tip) /\ Fork(b, tip) >= m_minimum_height
       /\ TxsOn(Path[b]) \cap Sendable \subseteq pool \cup TxsOn(Path[tip])
       /\ \E kept \in SUBSET (pool \cup (TxsOn(Path[tip]) \ Coinbase)) :
            /\ \A t \in kept : Valid(t, b) /\ ~Conflicts(t, kept)
            /\ \A t \in (pool \cup (TxsOn(Path[tip]) \ Coinbase)) \ kept :
                  ~Valid(t, b) \/ Conflicts(t, kept)
            /\ pool' = kept
       /\ tip' = b
  /\ moves' = moves + 1
  /\ UNCHANGED <<m_minimum_height, wallet, phase, fetched, thrown, ghosts>>

\* a transaction of others, or one the wallet sends again (resend_unconfirmed)
pool_add ==
  /\ \E t \in (Foreign \cup DOMAIN wallet.m_unconfirmed_txs) \ pool :
       Valid(t, tip) /\ ~Conflicts(t, pool) /\ pool' = pool \cup {t}
  /\ UNCHANGED <<tip, moves, m_minimum_height, wallet, phase, fetched, thrown, ghosts>>

pool_drop ==
  /\ \E t \in pool : pool' = pool \ {t}
  /\ UNCHANGED <<tip, moves, m_minimum_height, wallet, phase, fetched, thrown, ghosts>>

-----------------------------------------------------------------------------
(* The wallet's state and the functions refresh is made of.                *)

NewWallet ==
  [m_chain |-> NewChain(Genesis),
   m_transfers |-> <<>>,         \* [out, height, spent, spent_height]
   m_key_images |-> <<>>,        \* own output -> index in m_transfers
   m_unconfirmed_txs |-> <<>>,   \* transaction -> [is_income, selected]
   m_unconfirmed_in |-> {},      \* m_unconfirmed_in_transfers
   m_transfer_history |-> <<>>]  \* [tx, height, is_income]

Without(f, keys) == [k \in DOMAIN f \ keys |-> f[k]]
With(f, k, v) == [j \in DOMAIN f \cup {k} |-> IF j = k THEN v ELSE f[j]]

\* indices of the transfers a transaction spends
Spent(w, t) == {w.m_key_images[o] : o \in In[t] \cap DOMAIN w.m_key_images}

\* The first part of process_new_transaction, up to the daemon's answer with
\* the global indexes of the outputs: process_unconfirmed and the inputs.
process_inputs(w, t, height) ==
  [w EXCEPT
     !.m_unconfirmed_txs = Without(@, {t}),
     !.m_transfers = [i \in DOMAIN @ |->
        IF i \in Spent(w, t) THEN [@[i] EXCEPT !.spent = TRUE, !.spent_height = height]
                             ELSE @[i]]]

NewOutputs(w, t) == SelectSeq(Out[t], LAMBDA o : o \notin DOMAIN w.m_key_images)

\* the outputs, then handle_money_received2 or handle_money_spent2
process_outputs(w, t, height) ==
  LET new == NewOutputs(w, t)
      own == Spent(w, t) # {}
      n   == Len(w.m_transfers)
  IN  [w EXCEPT
         !.m_transfers = @ \o [i \in DOMAIN new |->
            [out |-> new[i], height |-> height, spent |-> FALSE, spent_height |-> 0]],
         !.m_key_images = [o \in DOMAIN @ \cup ToSet(new) |->
            IF o \in ToSet(new) THEN n + (CHOOSE i \in DOMAIN new : new[i] = o) ELSE @[o]],
         !.m_transfer_history =
            IF own THEN Append(@, [tx |-> t, height |-> height, is_income |-> t \in Coinbase])
            ELSE IF new # <<>> THEN Append(@, [tx |-> t, height |-> height, is_income |-> TRUE])
            ELSE @]

process_new_transaction(w, t, height) == process_outputs(process_inputs(w, t, height), t, height)

\* mutants: the height itself stays; the flag goes with the height; the key
\* images stay; the transfers, or the history, keep the height itself
RolledBackAbove(tr, including_height) ==
  IF tr.spent_height > including_height THEN [tr EXCEPT !.spent_height = 0] ELSE tr
RolledBackToUnspent(tr, including_height) ==
  IF tr.spent_height >= including_height
  THEN [tr EXCEPT !.spent_height = 0, !.spent = FALSE] ELSE tr
AllKeyImages(w, including_height) == w.m_key_images
DetachedAbove(w, including_height) ==
  {i \in DOMAIN w.m_transfers : w.m_transfers[i].height > including_height}
EntriesUpTo(w, including_height) ==
  SelectSeq(w.m_transfer_history, LAMBDA e : e.height <= including_height)

\* the transfers from the first one at or above the height on
Detached(w, including_height) ==
  LET from == {i \in DOMAIN w.m_transfers : w.m_transfers[i].height >= including_height}
  IN  IF from = {} THEN {} ELSE Min(from)..Len(w.m_transfers)
DetachFails(w, including_height) ==
  \E i \in Detached(w, including_height) : \/ w.m_transfers[i].out \notin DOMAIN w.m_key_images
                                           \/ w.m_transfers[i].height < including_height
KeptKeyImages(w, including_height) ==
  Without(w.m_key_images, {w.m_transfers[i].out : i \in Detached(w, including_height)})
RolledBack(tr, including_height) ==
  IF tr.spent_height >= including_height THEN [tr EXCEPT !.spent_height = 0] ELSE tr
KeptEntries(w, including_height) ==
  SelectSeq(w.m_transfer_history, LAMBDA e : e.height < including_height)

detach_blockchain(w, including_height) ==
  LET kept  == DOMAIN w.m_transfers \ Detached(w, including_height)
      moved == {e \in ToSet(w.m_transfer_history) \ ToSet(KeptEntries(w, including_height)) :
                  e.tx \notin Coinbase}
  IN  [w EXCEPT
         !.m_chain = detach(@, including_height),
         !.m_transfers = [i \in kept |-> RolledBack(@[i], including_height)],
         !.m_key_images = KeptKeyImages(w, including_height),
         !.m_unconfirmed_txs = [t \in DOMAIN @ \cup {e.tx : e \in moved} |->
            IF t \in DOMAIN @ THEN @[t]
            ELSE [is_income |-> (CHOOSE e \in moved : e.tx = t).is_income, selected |-> {}]],
         !.m_transfer_history = KeptEntries(w, including_height)]

-----------------------------------------------------------------------------
(* handle_pulled_blocks: a fold over the blocks of the answer.  The record *)
(* holds the wallet and the function's local variables; next says what to  *)
(* do with the block at hand, removed collects the detached outputs.       *)

Start(w, been_matched) ==
  [w |-> w, last_matched_index |-> 0, been_matched_block |-> been_matched, added |-> 0,
   removed |-> {}, next |-> "skip"]

\* mutant: a full reset does not count as a match
MatchedBefore(s, found) == s.been_matched_block
Matched(s, found) == s.been_matched_block \/ found = "reset"

Locate(s, b) ==
  LET size  == s.w.m_chain.m_local_bc_size
      found == check_if_block_matched(s.w.m_chain, Height(b), b)
      last  == IF found = "reset" THEN 0 ELSE s.last_matched_index
      throw == [s EXCEPT !.next = "throw"]
  IN
  CASE size # 1 /\ Height(b) > size ->
         IF Height(b) # m_minimum_height THEN throw
         ELSE [s EXCEPT !.w.m_chain = NewChain(@.m_genesis), !.next = "skip"]
    [] Height(b) = size ->
         IF s.been_matched_block THEN [s EXCEPT !.next = "process"] ELSE throw
    [] OTHER ->
         IF CheckFails(s.w.m_chain, Height(b)) THEN throw
         ELSE IF found = "matched"
              THEN [s EXCEPT !.last_matched_index = Height(b), !.been_matched_block = TRUE,
                             !.next = "skip"]
         ELSE IF ~Matched(s, found) \/ DetachFails(s.w, last + 1) THEN throw
         ELSE [s EXCEPT !.w = detach_blockchain(@, last + 1), !.last_matched_index = last,
                        !.been_matched_block = TRUE, !.next = "process",
                        !.removed = @ \cup {s.w.m_transfers[i].out : i \in Detached(s.w, last + 1)}]

EntryFails(w, height) ==
  \/ /\ height # w.m_chain.m_local_bc_size
     /\ height # m_minimum_height /\ w.m_chain.m_local_bc_size > 1
  \/ PushFails(w.m_chain, height)

process_new_blockchain_entry(s, b) ==
  LET processed == FoldLeft(LAMBDA w, t : process_new_transaction(w, t, Height(b)), s.w, TxsOf[b])
  IN  IF EntryFails(s.w, Height(b)) THEN [s EXCEPT !.next = "throw"]
      ELSE [s EXCEPT !.w = [processed EXCEPT !.m_chain = push_new_block_id(@, b, Height(b))],
                     !.added = @ + 1, !.next = "skip"]

HandleBlock(s, b) ==
  IF s.next = "throw" THEN s
  ELSE LET located == Locate(s, b) IN
       IF located.next = "process" THEN process_new_blockchain_entry(located, b) ELSE located

\* The outcome, as the only element of a set.
handle_pulled_blocks(w, blocks) ==
  LET HandleAll(s, bs) == FoldLeft(LAMBDA S, b : {HandleBlock(v, b) : v \in S}, {s}, bs)
  IN  IF blocks # <<>> /\ blocks[1] = Genesis /\ w.m_chain.m_local_bc_size = 1
      THEN HandleAll(Start(w, TRUE), Tail(blocks))
      ELSE HandleAll(Start(w, FALSE), blocks)

\* The same, when the daemon does not tell the global indexes of the n-th
\* transaction of the last block: what has been done of that block stays.
HandledUpTo(w, blocks, n) ==
  LET b == Last(blocks)
      Processed(v) ==
        process_inputs(FoldLeft(LAMBDA u, t : process_new_transaction(u, t, Height(b)), v,
                                SubSeq(TxsOf[b], 1, n - 1)),
                       TxsOf[b][n], Height(b))
  IN  {[s EXCEPT !.w = Processed(@)] :
         s \in {s \in {Locate(s, b) : s \in {s \in handle_pulled_blocks(w, Front(blocks)) :
                                               s.next # "throw"}} : s.next = "process"}}

\* the daemon's answer: MaxCount blocks from the first known id of the
\* history on, as the only element of a set
Answers ==
  {[i \in 1..Min({MaxCount, Height(tip) - start + 1}) |-> AtHeight(tip, start + i - 1)] :
     start \in {Max({m_minimum_height} \cup
                    {e[1] : e \in {e \in get_short_chain_history(wallet.m_chain) : OnPath(e[2], tip)}})}}

AnswerFails(blocks) ==
  \/ HistoryFails(wallet.m_chain)
  \/ /\ wallet.m_chain.m_local_bc_size <= Height(blocks[1])
     /\ Height(blocks[1]) # m_minimum_height

-----------------------------------------------------------------------------
(* refresh.                                                                *)

Pending(w) == {t \in DOMAIN w.m_unconfirmed_txs : ~w.m_unconfirmed_txs[t].is_income}

\* the transfers the outdated or expired transactions gone had selected
Selected(w, gone) ==
  {i \in UNION {w.m_unconfirmed_txs[t].selected : t \in gone} :
     i \in DOMAIN w.m_transfers /\ w.m_transfers[i].spent_height = 0}
Unmarked(w, indices) ==
  [w EXCEPT !.m_transfers = [i \in DOMAIN @ |-> IF i \in indices THEN [@[i] EXCEPT !.spent = FALSE]
                                                                 ELSE @[i]]]
\* mutant: only what an outdated transaction had selected becomes unspent
NothingUnbacked(w) == {}
Unbacked(w) ==
  {i \in DOMAIN w.m_transfers : /\ w.m_transfers[i].spent /\ w.m_transfers[i].spent_height = 0
                                /\ w.m_transfers[i].out \notin Spends(Pending(w))}
Forget(w, gone) ==
  [Unmarked(w, Selected(w, gone)) EXCEPT !.m_unconfirmed_txs = Without(@, gone)]
scan_unconfirmed_outdate_tx(w, gone) == Unmarked(Forget(w, gone), Unbacked(Forget(w, gone)))

\* outputs that lose their mark with gone though another transaction spends them
Released(w, gone) ==
  {w.m_transfers[i].out : i \in Selected(w, gone)} \cap Spends(Pending(w) \ gone)

\* the end of refresh: on_idle if there were blocks
EndRefresh(w, got, removed) ==
  /\ phase' = "idle"
  /\ \E gone \in IF got THEN SUBSET DOMAIN w.m_unconfirmed_txs ELSE {{}} :
       /\ wallet' = IF got THEN scan_unconfirmed_outdate_tx(w, gone) ELSE w
       /\ exempt' = exempt \cup removed \cup Released(w, gone)
  /\ interrupted' = (interrupted /\ ~got)

\* an early return: the wallet keeps what it has, without on_idle
GiveUp(w, got, removed) ==
  /\ phase' = "idle" /\ wallet' = w /\ exempt' = exempt \cup removed
  /\ interrupted' = (interrupted \/ got)

PullAgain(w, removed) == wallet' = w /\ exempt' = exempt \cup removed /\ UNCHANGED phase

refresh ==
  /\ phase = "idle" /\ phase' = "pull" /\ fetched' = FALSE
  /\ UNCHANGED <<daemon, m_minimum_height, wallet, thrown, ghosts>>

\* One round of the loop, with all blocks of the answer.  When a self check
\* throws, refresh returns.
pull_blocks ==
  /\ phase = "pull"
  /\ \E blocks \in Answers : \E s \in handle_pulled_blocks(wallet, blocks) :
       LET got == fetched \/ s.added > 0 IN
       IF AnswerFails(blocks) THEN GiveUp(wallet, fetched, {}) /\ fetched' = FALSE /\ thrown' = TRUE
       ELSE IF s.next = "throw" THEN GiveUp(s.w, got, s.removed) /\ fetched' = FALSE /\ thrown' = TRUE
       ELSE IF s.added > 0
            THEN PullAgain(s.w, s.removed) /\ fetched' = TRUE /\ UNCHANGED <<interrupted, thrown>>
            ELSE EndRefresh(s.w, fetched, s.removed) /\ fetched' = FALSE /\ UNCHANGED thrown
  /\ UNCHANGED <<daemon, m_minimum_height, torn>>

\* the caller's stop flag is set after the first n blocks of the answer
stop ==
  /\ phase = "pull"
  /\ \E blocks \in Answers :
       /\ ~AnswerFails(blocks)
       /\ \E n \in 1..(Len(blocks) - 1) : \E s \in handle_pulled_blocks(wallet, SubSeq(blocks, 1, n)) :
            s.next # "throw" /\ EndRefresh(s.w, fetched \/ s.added > 0, s.removed)
  /\ fetched' = FALSE
  /\ UNCHANGED <<daemon, m_minimum_height, thrown, torn>>

\* API_RETURN_CODE_BUSY, or stopped before the answer
busy ==
  /\ phase = "pull" /\ EndRefresh(wallet, fetched, {}) /\ fetched' = FALSE
  /\ UNCHANGED <<daemon, m_minimum_height, thrown, torn>>

\* no_connection_to_daemon for the fourth time
no_connection ==
  /\ phase = "pull" /\ GiveUp(wallet, fetched, {}) /\ fetched' = FALSE
  /\ UNCHANGED <<daemon, m_minimum_height, thrown, torn>>

\* fetch_tx_global_indixes fails within a block: the connection is lost, and
\* pull_blocks is tried again unless it was the fourth time, or the daemon
\* is busy or has left the block, and refresh returns.
fetch_tx_global_indixes ==
  /\ phase = "pull"
  /\ \E blocks \in Answers :
       /\ ~AnswerFails(blocks)
       /\ \E m \in DOMAIN blocks : \E n \in DOMAIN TxsOf[blocks[m]] :
            /\ Out[TxsOf[blocks[m]][n]] # <<>>
            /\ \E s \in HandledUpTo(wallet, SubSeq(blocks, 1, m), n) :
                 \/ /\ PullAgain(s.w, s.removed)
                    /\ fetched' = (fetched \/ s.added > 0) /\ interrupted' = TRUE
                 \/ GiveUp(s.w, TRUE, s.removed) /\ fetched' = FALSE
  /\ torn' = TRUE
  /\ UNCHANGED <<daemon, m_minimum_height, thrown>>

-----------------------------------------------------------------------------
(* What happens between two refreshes.                                     *)

Marked(w, indices) ==
  [w EXCEPT !.m_transfers = [i \in DOMAIN @ |-> IF i \in indices THEN [@[i] EXCEPT !.spent = TRUE]
                                                                 ELSE @[i]]]

\* transfer: the selected transfers are marked, the transaction is sent and
\* recorded.  When the answer is lost the marks are taken back though the
\* daemon has the transaction; a refusal leaves everything as it was.
transfer ==
  /\ phase = "idle"
  /\ \E t \in Sendable \ pool :
       /\ In[t] \subseteq DOMAIN wallet.m_key_images
       /\ \A i \in Spent(wallet, t) : ~wallet.m_transfers[i].spent
       /\ t \notin DOMAIN wallet.m_unconfirmed_txs
       /\ Valid(t, tip) /\ ~Conflicts(t, pool) /\ pool' = pool \cup {t}
       /\ \/ wallet' = [Marked(wallet, Spent(wallet, t)) EXCEPT !.m_unconfirmed_txs =
                           With(@, t, [is_income |-> FALSE, selected |-> Spent(wallet, t)])]
          \/ UNCHANGED wallet
  /\ UNCHANGED <<tip, moves, m_minimum_height, phase, fetched, thrown, ghosts>>

\* one transaction of the pool
ScanTx(w, t) ==
  LET known    == t \in DOMAIN w.m_unconfirmed_txs
      selected == Spent(w, t)
      seen     == [w EXCEPT !.m_unconfirmed_in = @ \cup {t}]
      noted    == [seen EXCEPT !.m_unconfirmed_txs =
                     With(@, t, [is_income |-> selected = {}, selected |-> selected])]
  IN  CASE selected = {} /\ Out[t] = <<>> -> w
        [] (selected # {} \/ Out[t] # <<>>) /\ known -> seen
        [] OTHER -> Marked(noted, selected)

scan_tx_pool ==
  /\ phase = "idle"
  /\ LET old == wallet.m_unconfirmed_in
     IN  wallet' = FoldSet(LAMBDA t, w : ScanTx(w, t),
                           [wallet EXCEPT !.m_unconfirmed_in = old \cap pool], pool \ old)
  /\ UNCHANGED <<daemon, m_minimum_height, phase, fetched, thrown, ghosts>>

-----------------------------------------------------------------------------
Init ==
  /\ tip = FirstTip /\ pool = {} /\ moves = 0
  /\ m_minimum_height \in MinimumHeights
  /\ interrupted = FALSE /\ torn = FALSE /\ exempt = {}
  /\ wallet = NewWallet /\ phase = "idle" /\ fetched = FALSE
  /\ thrown = FALSE

Daemon == reorganize \/ pool_add \/ pool_drop
Next ==
  \/ Daemon
  \/ refresh \/ pull_blocks \/ stop \/ busy \/ no_connection
  \/ fetch_tx_global_indixes
  \/ transfer \/ scan_tx_pool

\* The wallet's server refreshes every two seconds, and if it keeps calling
\* the daemon, complete answers keep coming, whatever the wallet makes of
\* them: strong fairness of pull_blocks, which is enabled when phase = "pull".
Spec ==
  /\ Init /\ [][Next]_vars /\ WF_vars(refresh)
  /\ []<>(phase = "pull") => []<><<pull_blocks>>_vars

-----------------------------------------------------------------------------
(* Properties.                                                             *)

Size == wallet.m_chain.m_local_bc_size
Held == {l \in Maps : Size - 1 \in DOMAIN wallet.m_chain.maps[l]}

\* the last block the wallet has processed
Top == IF Size = 1 THEN Genesis ELSE wallet.m_chain.maps[Min(Held)][Size - 1]

Scanned == {h \in 1..(Size - 1) : h >= m_minimum_height}

\* Types; the index of every key image is one of m_transfers, though detach
\* shortens it.
TypeOK ==
  /\ tip \in Tips /\ pool \subseteq Transactions
  /\ wallet.m_key_images \in [DOMAIN wallet.m_key_images -> DOMAIN wallet.m_transfers]
  /\ DOMAIN wallet.m_key_images \subseteq Outputs
  /\ DOMAIN wallet.m_unconfirmed_txs \cup wallet.m_unconfirmed_in \subseteq Transactions
  /\ phase \in {"idle", "pull"} /\ exempt \subseteq Outputs
  /\ {fetched, thrown, interrupted, torn} \subseteq BOOLEAN

\* No self check of the wallet or of the chain shortener throws, however the
\* daemon reorganizes and wherever a refresh was broken off.
NoInternalError == ~thrown

\* All ids the wallet holds, of every level, are of one chain: the one its
\* last block ends.
ChainExact ==
  /\ Size = 1 \/ Held # {}
  /\ Height(Top) = Size - 1
  /\ \A l \in Maps : \A h \in DOMAIN wallet.m_chain.maps[l] :
        h < Size /\ wallet.m_chain.maps[l][h] = AtHeight(Top, h)

\* The shortened chain is always one chain, and no look-up in it, detach or
\* self check of the wallet ends in an error.
ShortenerSound == NoInternalError /\ ChainExact

\* The transfers are the outputs of that chain, each once, at its height and
\* under its key image: no detach leaves one behind or takes one too many.
TransfersExact ==
  torn \/
  /\ {<<tr.out, tr.height>> : tr \in ToSet(wallet.m_transfers)} =
       UNION {Creates(ToSet(TxsOf[AtHeight(Top, h)])) \X {h} : h \in Scanned}
  /\ Cardinality(ToSet(wallet.m_transfers)) = Len(wallet.m_transfers)
  /\ DOMAIN wallet.m_key_images = {tr.out : tr \in ToSet(wallet.m_transfers)}
  /\ \A o \in DOMAIN wallet.m_key_images : wallet.m_transfers[wallet.m_key_images[o]].out = o

\* A transfer has the height of the block of that chain that spends it, or
\* none, and is marked spent when it has one.
SpentExact ==
  torn \/ \A tr \in ToSet(wallet.m_transfers) :
    LET at == {h \in Scanned : tr.out \in Spends(ToSet(TxsOf[AtHeight(Top, h)]))}
    IN  IF at = {} THEN tr.spent_height = 0 ELSE tr.spent /\ {tr.spent_height} = at

\* The history is the list of the wallet's transactions in that chain.
OwnTxs(h) ==
  LET known == UNION {Creates(ToSet(TxsOf[AtHeight(Top, j)])) : j \in {i \in Scanned : i <= h}}
      own   == SelectSeq(TxsOf[AtHeight(Top, h)],
                         LAMBDA t : Out[t] # <<>> \/ In[t] \cap known # {})
  IN  [i \in DOMAIN own |-> [tx |-> own[i], height |-> h,
                             is_income |-> In[own[i]] \cap known = {} \/ own[i] \in Coinbase]]
HistoryExact ==
  torn \/ wallet.m_transfer_history =
             FoldLeft(LAMBDA acc, h : IF h \in Scanned THEN acc \o OwnTxs(h) ELSE acc, <<>>,
                      [h \in 1..(Size - 1) |-> h])

\* What the wallet knows of the chain is exactly what the chain holds:
\* transfers, their spending and the history, after any sequence of
\* reorganizations, rescans and refreshes that were broken off.
WalletExact == TransfersExact /\ SpentExact /\ HistoryExact

\* Between refreshes, unless one was broken off after it had changed the wallet,
\* an output is held back as spent only for a block or for a pending
\* transaction: money is not lost with a transaction that vanishes.
PhantomFree ==
  (phase = "idle" /\ ~interrupted) =>
    \A tr \in ToSet(wallet.m_transfers) :
      tr.spent => tr.spent_height > 0 \/ tr.out \in Spends(Pending(wallet))

\* What a pending transaction spends is not offered for another one, but for
\* the exemptions: its transfer was once removed by a detach, or another
\* transaction that had it selected became outdated.
Reserved ==
  \A tr \in ToSet(wallet.m_transfers) :
    tr.out \in Spends(Pending(wallet)) \ exempt => tr.spent

\* The spent marks are right in both directions: none without a cause, and
\* none missing where a pending transaction needs it.
SpentMarksBacked == PhantomFree /\ Reserved

\* The wallet reaches the daemon's last block once the chain rests.
CatchesUp == <>[](Top = tip)
=============================================================================
