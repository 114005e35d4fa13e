# A TLA+ model of chinet-core

This directory models the part of the node that decides what is true (the
transaction pool, the blockchain with its alternative chains and
reorganizations, and the database layer with the cache and the lock they share
state through) and the clients that follow it: the wallet's synchronisation
with a chain that reorganizes, its escrow contracts, and the graphical wallet's
session and list of contracts. TLC checks the modules on small instances; TLAPS
proves the safety of the pool, the blockchain, the lock, the database accessor,
the escrow contracts with the GUI's list of them and the GUI's session, for all
instances. `PROJECT.json` lists
components, runs, mutants, the map from definitions to source lines, findings,
hazards and theorems in a form for tools.

Contents: inventory, modules and code, runs, bounds, fairness, what the model
shows of the code, proofs, what is not modelled, plan.

## Inventory

| part | source | state | operations | hard behaviour |
|---|---|---|---|---|
| transaction pool | `currency_core/tx_pool.*` | database of transactions, alias names and addresses; in memory: index of key images, transactions lent to a block | `add_tx`, `take_tx`, `remove_stuck_transactions`, `fill_block_template`, `purge_transactions`, `init` | checks and insertion are separate; three threads write; half of the state is lost with the process |
| blockchain storage | `currency_core/blockchain_storage.*` | database of blocks, transactions, spent keys...; in memory: alternative blocks and two indexes of them, invalid blocks | `add_new_block`, `handle_alternative_block`, `switch_to_alternative_blockchain`, `rollback_blockchain_switching`, `prune_aged_alt_blocks`, `truncate_blockchain` | a switch of many steps that can fail at each of them; database transactions undo one half of the state only |
| core | `currency_core/currency_core.*` | `m_incoming_tx_lock` | `handle_incoming_tx`, `on_idle` | glue between the threads |
| database accessor | `common/db_abstract_accessor.h` | per thread stacks of transactions, containers with caches and cached sizes | begin, commit, abort, get, set, erase, clear, size | one cache for the writer and the readers |
| LMDB backend | `common/db_backend_lmdb.cpp` | per thread transactions, the write lock | begin, commit, abort, get, set | nesting of read-only and write transactions |
| cache with write isolation | `epee/cache_helper.h` | the writer's thread, the cache | `isolated_access`, `set_isolation_mode`, `reset_isolation_mode` | a handover from writer to writer |
| shared_recursive_mutex | `epee/readwrite_lock.h` | number of readers, a mutex, a condition variable, per thread counters | `lock`, `unlock`, `lock_shared`, `unlock_shared` | recursion, lost wakeups |
| block template, miner, stratum | `tx_pool.cpp`, `miner.cpp`, `stratum/` | the current job | `fill_block_template`, `is_transaction_ready_to_go` | cached verdicts about transactions |
| fork choice | `currency_core/blockchain_storage.*` | the next difficulties last computed | `is_reorganize_required`, `get_x_difficulty_after_height`, `get_next_diff_conditional` | no order of chains, and a kept value of another chain in it |
| difficulty, checkpoints | `difficulty.cpp`, `checkpoints.cpp` | cached target data, checkpoint zone | `next_difficulty_2`, `is_in_checkpoint_zone` | arithmetic at a width, rules by height |
| attachment services | `bc_attachments_service_manager.cpp`, `bc_offers_service.cpp` | index of offers | push, pop | must mirror every pop of a block |
| protocol handler | `currency_protocol/` | per connection: state, requested objects | request and response of chain and objects | lost answers, many peers |
| p2p node | `p2p/` | white, gray and anchor lists | handshake, ping | untrusted lists |
| wallet, synchronisation | `wallet/wallet2.*`, `wallet_chain_shortener.*` | transfers, key images, history, unconfirmed transactions, the shortened chain | `refresh`, `pull_blocks`, `detach_blockchain`, `scan_tx_pool`, `transfer` | reorganizations deeper than what is remembered; refreshes cut off anywhere |
| wallet, escrow | `wallet/wallet2.cpp`, `wallet2_escrow.cpp` | contracts and their states | `process_contract_info` and its handlers, expirations, `accept_proposal`... | every transaction is seen twice, in the pool and in a block, and may expire |
| wallets manager | `wallet/wallets_manager.*` | open wallets by id, a worker thread each | open, run, close, signals to the GUI | calls of the GUI against worker threads |
| graphical wallet | `gui/qt-daemon/layout/html_source/src/app`, `application/mainwindow.cpp` | list of wallets, master password, secure file, contracts as shown, time and height last told | handlers of signals, pages, lock, quit | asynchronous answers, stale state, an idle lock, restarts |
| RPC, daemon, command line wallet, cryptography, serialisation | `rpc/`, `daemon/`, ... | none of their own | | |

How they interact. The network threads call `core::handle_incoming_tx`, which
lets one of them at a time into `add_tx`, and `core::handle_incoming_block`,
which calls `add_new_block`. `add_new_block` opens a write transaction of the
blockchain's database and keeps it until the block, or the whole switch it
caused, is done; while it works it moves transactions out of the pool
(`take_tx`) and back (`add_tx` with `kept_by_block` and `from_core`), each in a
transaction of the pool's own database. It holds the pool's lock, which keeps
`remove_stuck_transactions` of the idle thread out but not `add_tx`. RPC
threads read with `m_read_lock`, a shared membership of the mutex that the
writer takes exclusively when it commits.

A wallet asks the daemon for the blocks after the last one they have in common,
naming the ids its shortened chain holds, until there are no more; between two
such refreshes it reads the daemon's pool and sends transactions. Each wallet
of the GUI has a worker thread that does this and raises signals. The GUI is a
web page inside the process: it calls the backend, which answers in the order
of the calls, and is sent signals in the order they are raised; between any two
of them the user, the idle timer and a 30 second interval act.

What makes the parts correct:

- pool: the index of key images says exactly what the pool's transactions
  spend, so that two transactions from the network never conflict and a removed
  one frees its inputs; an alias is reserved only by a transaction in the pool;
- blockchain: between two blocks everybody sees one chain, which grows or gives
  way to a branch that wins against it; no branch spends twice; a failed switch
  changes nothing; no transaction is lost; the indexes of the alternative
  blocks match them;
- database: a reader never sees or caches what is not in its view of the
  database; writers hand the cache over cleanly; a commit ends;
- mutex: it is a read-write lock, and a waiting writer gets in;
- wallet: its transfers, spent marks and history are those of one chain of
  blocks, which in the end is the daemon's; no output stays reserved for a
  transaction that is gone, and none is offered twice;
- contracts in the GUI: each one is listed once, in a state that stands for the
  wallet's; what the page offers the wallet will do; nothing counts as agreed
  before it is confirmed;
- session: the password that unlocks is the one that reads the secure file at
  the next start, the list of wallets is what is open, and quitting saves it.

## Modules and code

Definitions keep the names of the functions they model. A definition under a
comment "mutant" is a plausible slip in the definition after it; no
specification uses it, it is there to show that the property it is paired with
in `PROJECT.json` notices that slip.

**TxPool** (`MCTxPool`, `TxPoolProofs`). One action per database transaction of
`tx_memory_pool`; `add_tx` for a transaction from outside is a sequence of
actions (`handle_incoming_tx`, `validate_alias_info`, `check_key_images`,
`check_tx_multisig_ins_and_outs`, `insert_incoming`, with `RejectIncoming` for
every early return), because other threads act in between. The answers of the
blockchain (inputs valid, expired, alias registered) are nondeterministic. A
transaction is an identity with the sets of key images, multisig ids and alias
keys it uses. Three specifications: `Spec`, a relaying node; `MiningSpec`, with
`fill_block_template`; `ResetSpec`, with the RPC that purges the pool as well.

**ForkChoice** is the comparison of two branches of the tree of blocks, as pure
operators on constants: `is_reorganize_required` for a split above
`hard_fork_01_starts_after_height`. That is every split: the height is 0 on both
nets (`currency_config.h:241`, `:245`) and a connection at height 0 is refused
(`blockchain_storage.cpp:1719`), so the older rule, lines 1925 to 1945, is never
reached and not modelled. There are two kinds of blocks, each with a difficulty
after every block (`NextDiff`) and work that is corrected by the number of
blocks of its kind in a row (`cumulative_diff_precise_adjusted`). `Wins(scale,
s, m, b)` compares what two branches have done of each kind since the split with
the difficulties of the two kinds there, the `scale`; equal ones are decided by
the stake hash (`Proof`) if the main chain ends in proof of stake. Where the
main chain has no block of a kind since the split, the scale is what the node
has kept, so `Scales` is the set of all it may use, and `Supersedes(e, c)` says
that chain e wins against chain c by one of them. This is no order, neither of
blocks nor of branches, and nothing in the modules takes it for one.

**Blockchain** (`MCBlockchain`, `BlockchainProofs`). The block thread of
`blockchain_storage`. What a block contains is fixed by its hash, so the tree
of blocks is a constant (`PathTo`, `TxsOf`, `KiOf`, `NextDiff`...), and the
order in which blocks arrive is free. `cached` are
`m_cached_next_pos_difficulty` and its twin: set by the check of a block on the
main chain, by other threads that ask (`get_next_diff_conditional`) and, if
unset, by the fork choice; never reset when the chain changes. `blocks` is the
chain inside the open database transaction, `committed` what everybody else and
a restart see; `alt` is the record of the three in-memory containers.
`switch_to_alternative_blockchain` is split where its loops iterate
(`disconnect_old_chain`, `connect_alt_block`, `push_old_block`,
`erase_alt_chain`) and `rollback_blockchain_switching` likewise, so that
incoming transactions, a change of the clock and the end of the process come
between any two steps. The disconnection and the pops of a rollback are one
step each: they cannot fail half way, and the only other thread that sees the
pool in between, `handle_incoming_tx`, is free before and after. Aliases,
outputs and rewards are abstracted: `BadBlock` are the blocks that only the
checks on the main chain refuse. When a rollback panics the node is left with a
cached size of the chain that is wrong (see DbAccessor); the model follows it
no further than to a state (`stale_size`) that only a restart leaves.

**DbAccessor** (`MCDbAccessor`, `DbAccessorProofs`). Threads, their stack of
transactions in the accessor and in LMDB, one cached container, the cached
size, the read-write lock in the form of RWLock and
`m_alternative_chains_lock`. A read is three steps: cache, database, fill; the
end of a transaction is five: lock, wait, backend, pop of the stack with the
switch of the isolation, unlock. Specifications: `Spec`, the blockchain's
database with readers that hold `m_read_lock`; `SearchSpec`, with
`search_by_id`, which does not hold it; `TruncateSpec`, with
`truncate_blockchain`; `PoolSpec`, the pool's database. LMDB itself is
external: a write transaction works on a copy of its parent, a read-only one on
a snapshot.

**RWLock** is the abstract lock. **SharedMutex** (`MCSharedMutex`,
`SharedMutexProofs`) is `shared_recursive_mutex`, one step per access to a
shared variable; what is done under `cv_mutex` is one step. `Lock ==
INSTANCE RWLock WITH ...` is the refinement mapping: a thread shares while its
recursion count is positive and it is no writer, the claim is the ownership of
`exclusive_lock` by a thread that is not just passing through it, and it is
granted once `lock` has returned.

**ChainShortener** holds the functions of `wallet_chain_shortener` as operators
on a record: the ids of the last blocks, of every second, of every fourth (20,
10, 100 and 1000 in the code, constants here), what a new block and a detach
make of them, the short history sent to the daemon and the comparison of a block
with what is remembered. Operators ending in `Fails` are the self checks that
throw; `HistoryFails` joins the one of the first ids with those of every look-up
the walk back through the maps makes (`LookedUp`).

**WalletSync** (`MCWalletSync`) is `wallet2::refresh` against a daemon whose tip
moves in a tree of blocks. One action is one exchange with the daemon:
`pull_blocks` processes a whole answer, by a fold of `HandleBlock` over its
blocks; `stop`, `busy`, `no_connection` and `fetch_tx_global_indixes` are the
ways in which it ends early, the last in the middle of a block. `transfer` and
`scan_tx_pool` come between refreshes, under the same lock. Of a transaction
only the wallet's outputs matter: those it spends and those it creates. The
daemon (`reorganize`, `pool_add`, `pool_drop`) is external. A restart is not an
action: `store` writes the whole state at once, so a wallet restarted from its
file is one that has not taken its last steps, and what it had sent meanwhile is
a transaction of others. History variables: `interrupted` (a refresh returned
early after it had changed the wallet), `torn` (a block was left half
processed), `exempt` (outputs whose reservation the code loses, see below).

**EscrowWallet** is the table `m_contracts` and the transactions that move it: a
transaction is a contract and a kind; it is published, waits in the pool, is
mined, expires or is outdated. `process_contract_info` is a function of the
contract, as in the code, and every change raises the signal the GUI gets.
**GuiContracts** (`MCGuiContracts`, `GuiContractsProofs`,
`GuiContractsAgreeProofs`) composes it with the GUI's handlers: two
queues, of calls and of signals and answers; one action per handler, per button
and per timer. `StateAfterTransfer` and `StateAfterOpen` are the two places
where the GUI translates a state, and differ as the code's do.

**GuiSession** (`MCGuiSession`, `GuiSessionProofs`, `GuiSessionWalletProofs`)
is the GUI from start-up to quitting with the part of the backend it talks to.
Only calls change that part and only answers show it, so the execution of a
call and its callback are one step, at any time after the call was made; user,
idle timer, request to quit and the end of the process come in between. A
wallet is an id and the path of its file; two paths of the instance hold the
same keys. The login also calls `runWallet` for each wallet it has opened; that
fails only for a wallet closed meanwhile, and its callback at most goes to
another page, so it is left out.

The modules are tied together by what they assume of each other: DbAccessor
uses the lock as RWLock, which SharedMutex is shown to implement; Blockchain
uses `blocks` and `committed` the way DbAccessor's transactions behave; TxPool
leaves every answer of the blockchain open, and Blockchain lets the pool accept
any transaction TxPool could; WalletSync's daemon moves to any other tip of its
tree that is not below its own, grown or on another branch, of a greater, the
same or a smaller height, which is all that Blockchain's fork choice can do,
and returns the transactions of the blocks it leaves to the pool; GuiContracts
extends EscrowWallet.

## Runs

| run | checks | states |
|---|---|---|
| TxPool | `KeyImagesIndexed`, `NoRelayedConflict`, `AliasMarksBacked`, `TypeOK` | 3 344 |
| TxPoolReset | `NoOrphanKeyImage` with templates and a purge | 1 134 194 |
| Blockchain | all safety of a switch: `ChainsValid` (`ChainCommitted`, `NoDoubleSpend`), `SwitchSound` (`NoPanic`, `NoRecursiveReorganize`, `SwitchIteratorsValid`), `BetterChainOnly`, `AltContainersAgree` (`BlockSetsDisjoint`, `AltTxCounts`), `AltKeyImagesComplete`, `TxsKept`, `TypeOK` | 60 710 |
| BlockchainAdverse | what survives a wrong clock and a full list of alternative blocks: `ChainsValid`, `TxsKept` | 111 248 |
| BlockchainLive | `Converges` | 13 066 |
| DbAccessor | `CacheCoherent`, `ReaderConsistent`, `IsolationExclusive`, `CommitEnds`, `TypeOK` | 145 028 |
| DbAccessorPool | `IsolationExclusive` with nested read-only transactions | 65 780 (symmetry) |
| SharedMutex | `ReadersCounted`, `ImplementsRWLock`, `WriterEnters`, `TypeOK` | 759 |
| WalletSync | `ShortenerSound` (`NoInternalError`, `ChainExact`), `WalletExact` (`TransfersExact`, `SpentExact`, `HistoryExact`), `SpentMarksBacked` (`PhantomFree`, `Reserved`), `CatchesUp`, `TypeOK` | 59 370 |
| GuiContracts | `ContractsAgree` (`ListComplete`, `ShownAgrees`), `OffersSound` (`NoExpiredOffer`, `OffersHonoured`), `StartedIsConfirmed`, `ShownWhenDeep`, `TypeOK` | 1 314 604 |
| GuiSession | `PasswordsAgree` (`FileUnderMaster`, `UnlockedByPassword`), `WalletsListed` (`UniqueWallets`, `ListIsOpen`), `QuitSaves`, `QuitCompletes`, `TypeOK` | 1 426 455 |

In brackets are the parts a property is the conjunction of; each part has a
mutant of its own.

One more run, `TxPoolMiningConflict`, ends in a violation; it is described under
"What the model shows of the code".

### Bounds

- TxPool: three transactions, one pair in conflict over a key image, one over a
  multisig output, one over an alias. Every conflict is between two
  transactions, so a third one that helps to bring it about is enough; the
  theorems remove the bound.
- Blockchain: ten blocks, drawn in `MCBlockchain`: two branches of three blocks
  of the same work whose tops are both proof of stake, a transaction on both
  branches, a pair that spends the same key image on different ones, and three
  forks: one that only the main chain's checks refuse, one with a transaction
  of wrong semantic behind a good one, one that spends again what its parent
  has spent. So every branch of a switch, of a failed switch and of a rollback
  is taken. The difficulty of proof of work grows from 4 to 5 with the second
  such block, that of proof of stake from 2 to 3 with the first, so the scale
  at a split depends on what was kept: whether a proof of stake block outweighs
  a proof of work block is a matter of it. Yet b3 is the one valid block that
  wins by every scale (`BestBlocks`). `Asked` bounds what other threads ask
  for: the next difficulties of both kinds, and none in BlockchainAdverse,
  where no property depends on them. `MaxAltBlocks` is 9 where the limit is not
  the subject (there are at most 9 alternative blocks) and 3, less than a
  switch needs, in BlockchainAdverse; `AltLivetime` is 2 in Blockchain, where
  ageing is to happen. `MaxTime`, the bound of the core time, is 1 in
  BlockchainAdverse: the time a block was stored at matters only when pruning
  has to choose, at the limit. `FutureBlock` is the top of the first branch
  there, and the tree is without two of the forks (`MCFewBlocks`), whose
  failures the run Blockchain has; the fork with the ill-formed transaction
  still makes a switch fail while the clock is wrong.
- DbAccessor: three threads (a writer, the next writer, a reader), one key, two
  values, `MaxNesting` 2. Keys do not interact but for the size. The
  run for the pool has two threads and uses the symmetry of threads and values.
- SharedMutex: three threads, `MaxRecursion` 2. Two readers that leave while a
  writer waits are the smallest case for a lost wakeup. The proofs remove the
  bound.

- WalletSync: a tree of 14 blocks, drawn in `MCWalletSync`: a branch that leaves
  within the last ids the wallet remembers one by one (four) and one that leaves
  below them, so that the levels above are used; a transaction that is on two
  branches at different heights, one that conflicts with a stake block, one the
  wallet sends itself. The tips have heights 5, 5, 6 and 8, so the daemon also
  changes a block for one of the same height and goes back to a lower branch.
  `MaxCount` 4 makes a synchronisation take several
  answers; `MaxMoves` 2 lets a second reorganization meet what the first has
  left. `MinimumHeights` has the start at the genesis and one above it.
- GuiContracts: see `MCGuiContracts`; `MaxOpens` 2, so that the list is filled a
  second time; `MaxQueue` 1 stops the wallet from raising signals while one is
  waiting, but answers and the daemon's state queue behind it. `Confirmations`
  is 1 for the code's 10, `WalletId` 1, a height at which that confirms. The
  theorems remove these bounds. `MaxHeight` 3 is too small for the dropped
  release described below, which needs 5: the exceptions for it in
  `ShownAgrees` and `StartedIsConfirmed` come from the proof.
- GuiSession: two passwords, three wallet files, two of them with the same keys,
  `MaxOps` 4 actions of the user (a lock, a password, and two on wallets),
  `MaxSessions` 2, as what one session leaves in the file only the next reads.
  The theorems remove these bounds; they were needed, see `crossed` below.

Deadlock is checked in every passing run of the node's modules. GuiContracts,
GuiSession and WalletSync say `CHECK_DEADLOCK FALSE`: at the bound of heights,
actions or moves, or after a quit, the system may rest.

### Fairness

- `BlockchainLive`: the block thread goes on (weak fairness: it is one thread
  in a loop with no wait but for locks that are free); a block is delivered if
  it is acceptable again and again (strong fairness: peers offer a block that
  the node asks for until it has it); a clock that was set back is set right.
  Nothing is assumed about the pool, pruning or time. The operator does not
  truncate or clear, and the process does not end.
- `DbAccessor`: a call that was begun goes on, and a function that holds
  `m_read_lock` or `m_alternative_chains_lock` releases it, by the scope of its
  guard, after finitely many calls. Nobody is forced to begin anything.
- `SharedMutex`: a thread inside one of the four functions goes on; an
  owner leaves, after however many recursions. No spurious wakeup is assumed,
  and none is needed.
- `WalletSync`: the wallet refreshes again and again (`wallet_rpc_server` does
  every two seconds), and a wallet that keeps calling gets a complete answer
  again and again (strong fairness of `pull_blocks`, written without `ENABLED`,
  which here is `phase = "pull"`): interruptions do not go on for ever. Nothing
  is assumed of the daemon, which moves a bounded number of times, nor of the
  user.
- `GuiContracts`: signals are delivered (the Qt event loop), the daemon's state
  is signalled (the main loop of `wallets_manager` sends it and `MainWindow`
  passes it on whenever it has changed), the interval fires. Nothing is assumed
  of the user and the wallet.
- `GuiSession`: calls are executed and answered. Nothing is assumed of the user.

## What the model shows of the code

The run `TxPoolMiningConflict` states what a comment and a test of the
repository say, and TLC shows how the code gets around it:
`fill_block_template` stores the entry it read at its start, if a transaction
proves not ready, without looking whether it is still there. A transaction that
was taken or removed meanwhile comes back without its key images, and one that
spends the same inputs is accepted beside it.

The other disagreements are the limits of properties that the passing runs
check. To see one, check the property under the constants or the specification
given, or without the exception its comment names; no run is kept for them.

The node:

- `CommitEnds` does not hold with `truncate_blockchain` (`TruncateSpec`), which
  commits with `m_alternative_chains_lock` held while `have_block`, holding
  `m_read_lock`, waits for it.
- `CacheCoherent` does not hold with `search_by_id` (`SearchSpec`), a reader
  outside the read-write lock: it fills the cache with what was erased
  meanwhile.
- `SizeCoherent` does not hold: the cached size of a container survives an
  abort, because `on_write_transaction_abort` does not invalidate it.
- `NoRelayedConflict` does not survive a purge (`ResetSpec`):
  `purge_transactions` clears the key images after its database transaction; a
  transaction inserted in between stays without them. Nor does
  `AliasMarksBacked`: the alias names and addresses are not cleared at all.
- An alias mark is shared by the transactions that ask for the alias, and the
  first that leaves erases it (`remove_alias_info`), so two transactions of the
  network for one alias can meet in the pool when a third one, kept by a block,
  comes and goes.
- `NoRecursiveReorganize` needs a fork choice that is settled once a branch has
  won (`ForkChoiceSettled`), which the code does not make sure of:
  `get_x_difficulty_after_height` takes the difficulty of a kind of which the
  main chain has no block since the split from the value it has kept, on the
  ground that it "is current", but nothing resets that value when the chain
  moves. Say the last two blocks before a split are proof of stake and the
  difficulty of that kind rose from 1 to 2 with the second: 1 was kept when that
  block was checked. The main chain goes on with two proof of work blocks (10,
  then 12, 9 after the correction), the other with one of proof of work (10) and
  one of proof of stake (2). By the kept 1 the latter wins with 31 to 27. After
  the switch its own proof of stake block says 2, by which the former wins with
  22 to 21: "Detected recursive reorganzie", the node goes back to the chain
  that has lost, and the two blocks of it that were pushed stay among the
  alternative ones, against `BlockSetsDisjoint`. TLC gets there in 25 states on
  a tree of these nine blocks.
- `NoPanic` needs a right clock (`FutureBlock = {a3}`): if it is set back during
  a switch that fails, the rollback cannot put the old chain back.
- `Converges` needs it too (`FutureBlock = {a3}`, `BadBlock` and `BadSemantic`
  empty): if the push of the old chain fails because of the clock, the blocks
  pushed so far stay among the alternative ones although the rollback has put
  them back on the main chain. Every later switch then fails on "returned as it
  already exist" until they age out, are cleared, or the process restarts.
- `AltTxCounts` needs room (`MaxAltBlocks` at least 9): over `max_alt_blocks`
  pruning drops entries without their counts and key images. It drops the
  newest, where the comment in `prune_aged_alt_blocks` wants the oldest gone.
  The newest may be of the very chain that a switch is connecting, so
  `SwitchIteratorsValid` needs room, too; the model does not follow the code
  past the use of an erased iterator.
- `m_altblocks_keyimages` misses nothing (`AltKeyImagesComplete`) but may hold
  too much: the key images of an erased alternative block stay when a
  transaction of it is neither in the pool nor on the chain.
- `CacheCoherent` does not hold of the pool's database (`PoolSpec`): its lock is
  a dummy that no reader takes.

The wallet:

- If `fetch_tx_global_indixes` fails in the middle of a block
  (`wallet2.cpp:462`), what was done of the block stays. If the daemon then has
  another block at that height, it is applied without a detach, and transfers or
  spent marks of the first one remain; if it has the same one, entries of the
  history are written twice (`torn`).
- A refresh that loses its connection after it has fetched blocks returns
  without `on_idle` (2182): outputs of vanished transactions stay marked as
  spent until the next block (`interrupted`).
- `selected_indicies` of a pending transaction are positions in `m_transfers`.
  After a detach they may point to other transfers, and an outdated transaction
  unmarks those (2092). A transfer that a detach removed and a later block
  brought back is not marked for the pending transaction that spends it
  (`exempt`).
- A minimum height of 1 (`MinimumHeights = {0, 1}`), which a chain of 1441
  blocks gives, makes `handle_pulled_blocks` throw in every refresh, and so does
  a fork at or below `m_minimum_height`, which `reorganize` therefore excludes.
- `detach_blockchain` rolls back neither `m_multisig_transfers` nor
  `m_contracts`; `tr_index > m_transfers.size()` (2019) should be `>=`.
- A transaction of the pool that spends an output the wallet has not seen yet is
  recorded as income and not looked at again; one that is read from the pool
  while the wallet still has its block stays among the unconfirmed ones.
- `worker_func` (`wallets_manager.cpp:1969`) notes the daemon's height after the
  refresh, not the one it has refreshed to, so a block that came meanwhile, or a
  reorganization at the same height, waits for the next block.

The contracts and the GUI's list of them:

- `handle_proposal` and `handle_contract` do not look at the state they
  overwrite: a transaction seen in the pool, overtaken there and then mined puts
  the contract back (`overtaken`). The GUI, on the other hand, ignores the state
  that comes with a transaction it knows (`app.component.ts:288`), so a
  cancellation that was refused when first seen stays unseen when accepted.
- The wallet drops an expired cancellation, or its acceptance, without a signal:
  the GUI goes on showing 130, or 601.
- If the request and its acceptance both wait in the pool and the acceptance is
  dropped, the GUI has the contract at 601 and height 0, the wallet has it back
  at accepted. When the request is mined after that, the handler keeps the 601
  of the transaction it knows, but takes over the height that comes with it
  (`app.component.ts:288`), and the interval (520) then promotes 601 to 6: a
  contract is shown as cancelled that is only accepted (`ReleaseDropped`). This
  was met in the attempt to prove `StartedIsConfirmed`, which without the
  exception is violated from `MaxHeight` 5 on.
- `prepareContractsAfterOpen` checks the expiration of a proposal but not of a
  cancellation (state 5), counts the confirmations of an acceptance from the
  height of a later, expired cancellation, and shows contracts whose
  transactions are older than the recent history as 140.
- `setValue` without `password` (`purchase.component.ts:147`) throws, so no
  contract is ever marked as viewed and state 120 never occurs.
- `setRefreshStacking` sends the id of a wallet as a height
  (`variables.service.ts:148`); `StartedIsConfirmed` holds because ids are
  small.
- Expiration is `<` in two handlers and `<=` in the third.

The session:

- The answer to a close removes the wallet that is current when it comes
  (`sidebar.component.ts:88`); after a quick selection of another wallet the
  list loses the wrong one (`strayed`).
- A password change or a login that is answered after the idle lock lifts it
  again (`unlocking`), and an answer after the lock leaves the login page.
- After a wrong password `appPass` holds it: quitting from there stores the
  list, still empty, under the backend's password, still the empty one, over the
  user's file. Quitting while the login is still opening wallets stores a part
  of the list, and a wallet that could not be opened is forgotten by the next
  store (`promise` is made only by a quit that nothing disturbs).
- Resetting at the lock screen empties the list and leaves the wallets open in
  the backend; opening one of them again fails. A store on its way at that
  moment creates the file again.
- The login opens the wallets of the file without looking at their keys
  (`login.component.ts:165`), so a wallet may be listed twice when the user
  opens one while a login is on its way, or when a login and a reset of the file
  are (`crossed`). A way that no request to quit is part of takes seven
  actions, more than the run has: no password at the start, a wallet, a
  password, the wallet closed, lock, login, and before its answer another file
  with the same keys. It was the attempt to prove `UniqueWallets` under a
  narrower exception that led to it.
- Changing to an empty password changes nothing in the backend; the second
  argument of `store_secure_app_data` is ignored.
- `setCurrentWallet(0)` in the wallet page selects nothing when the first wallet
  opened has another id.

## Proofs

Every proof is for all values of the constants that satisfy the named
assumption of the module, which TLC evaluates in every run. Each rests on an
inductive invariant; those of the database, the chain, the contracts and the
session were checked with TLC on the runs' instances before they were proved.
TypeOK of each proved module is a theorem too (`TypeCorrect`).

`TxPoolProofs` (from `PoolAssumption`, which says what kind of functions the
constants are):

- `IndexExact`: `Spec => []KeyImagesIndexed`, inductive together with the type
  invariant;
- `NoConflict`: `Spec => []NoRelayedConflict`. This is not inductive: between a
  check of `add_tx` and the insertion the pool changes. The strengthened
  invariant `PoolInv` says in addition what the incoming transaction has
  established at each label, that it conflicts with no *relayed* transaction of
  the pool over key images once past the first check, nor over multisig ids
  once past the second; it is preserved because only the thread under
  `m_incoming_tx_lock` inserts relayed transactions, all other insertions being
  kept by a block. `KeyImagesIndexed` is what turns an empty index entry into
  the absence of a conflict; `TxPoolMiningConflict` shows what happens without
  it;
- `AliasesBacked`: `Spec => []AliasMarksBacked`;
- `NoOrphan`: `ResetSpec => []NoOrphanKeyImage`, for the node that makes
  templates and whose pool is purged.

`SharedMutexProofs` (for every finite set of threads and every depth, from
`MutexAssumption`):

- `Invariance`: `Spec => []Inv`, where `Inv` joins `TypeOK`, `ReadersCounted`
  and `Positions` (who may own `exclusive_lock` at which label);
- `CountExact`: `Spec => []ReadersCounted`. The count is a cardinality, so each
  step rests on lemmas about adding and removing one thread;
- `Refinement`: `Spec => ImplementsRWLock`, each step being a step of RWLock or
  a stutter under the mapping. The step where a writer is granted the lock
  needs `ReadersCounted`, to conclude from a count of zero that nobody shares,
  and the step where a reader enters needs `Positions`.

`DbAccessorProofs` (for any threads, values and depth of nesting, finitely many
keys, from `DbAssumption`): `IsolationHolds`, `CacheIsCoherent` and
`ReadersConsistent`, all from `DbInvariant`, `Spec => []DbInv`. `DbInv` ties the
four records of who writes to each other: the backend's write lock, the
accessor's stack, the isolation of the cache and the read-write lock (`Nested`,
`Owned`), which are switched at different steps of a begin or an end. What the
cache holds is stated against the database of its owner (`CacheAgrees`):
everybody's, or the view of the writer, which takes the cache over only when its
view is still what was committed last (`Fresh`). An abort, where the backend's
half comes before the cache's, is the one exception, and no reader sees it,
because the thread that is there holds the lock exclusively.

`PoolIsolation` and `PoolTypeCorrect` state `IsolationExclusive` and `TypeOK` of
the pool's database, from `PoolInvariant`, `PoolSpec => []PoolInv`. There the
backend's transactions and the accessor's stack have different shapes: a
read-only transaction is counted in the backend's entry around it, while the
stack has an item for each. `Aligned` gives each entry the run of items it
stands for, as many as it counts (`Width`), such that the entries that are write
transactions begin at the items that are: so both sides agree on whether a
thread is a writer (`AlignedFacts`), an end that counts an entry down takes a
read-only item off, and one that removes an entry takes off the item it began
with. `Booked` is the stack with the begin or end that is on its way already
done. `BackendBegins` and `BackendPops` show that `Aligned` survives both halves
of the backend for stacks of any depth, without induction, because an entry's
place is a witness and not computed. TLC checked `PoolInv` first, with three
transactions inside one another.

`BlockchainProofs` (for every finite tree of blocks, every content of the
blocks and any bounds, from `ChainAssumption`): `ChainsAreValid`,
`KeyImagesIndexed` for `AltKeyImagesComplete`, and the action property
`TransactionsKept`, all from `ChainInvariant`, `Spec => []ChainInv`. `ChainInv`
says that the committed chain, the one inside the open database transaction and
the branch under every alternative block are paths from the genesis block that
spend nothing twice (`DataSound`), what the block thread carries from step to
step of a switch (`OpSound`), and how far its chain has moved from the committed
one at each of them (`ViewSound`): below the split they are equal, and what was
disconnected is what the committed chain has above it. That is what a rollback,
at whatever step it begins, puts back. The clock and the pruning are free here,
so the theorems cover what BlockchainAdverse checks.

`SwitchesAreSound`, `OnlyBetterChains` and `ContainersAgree` state
`SwitchSound`, `BetterChainOnly` and `AltContainersAgree` under four hypotheses
on the constants, which the run Blockchain satisfies. `RightClock` (no block is
too far ahead of the clock), `Room` (the tree has no more blocks than
`MaxAltBlocks`) and `ForkChoiceSettled` (no part of a chain that has lost wins
in turn, by any scale the node may use then) cannot be dropped: see "What the
model shows of the code". The last is a hypothesis on the blocks, not on the
code, which gives no such promise; with it the theorems say that nothing else
can go wrong with a switch. `WinnersNotShorter` says that a branch that wins is
not shorter than the chain it replaces. It is needed because the index of key
images may keep entries of an alternative block that is gone (see
`m_altblocks_keyimages` above): such a block could come back on top of the main
chain if that got shorter, and then be refused when a switch pushes it. TLC
evaluates both for the tree of the runs (`MCSettled`).

What is behind `ForkChoiceSettled` is proved apart, of the comparison alone:

- `ScaleOfSplit`: the scale at a split is what the two difficulties were there,
  if for each kind the main chain has a block since the split or the value kept
  is current. What is kept is always the difficulty after some block
  (`CacheInvariant`), but of which is what the code leaves open;
- `SameScaleSettles`: by one scale, what has lost does not win in turn, nor does
  a lower part of it that does not tie, if work does not shrink as a chain grows
  (`WorkGrows`: true unless the arithmetic overflows). With truncated divisions
  this takes monotony of the whole comparison (`RelativeGrows`).

So only a scale that changes with the switch, by a stale value, or a tie of a
lower block can unsettle a choice.

The three theorems rest on `SwitchInvariant`, `Spec => []SwitchInv` under the
same hypotheses, with `ChainInv`:

- `ProgressInv`: a switch fails while it connects or not at all, so nothing was
  pushed when it rolls back, and what it has connected is `alt_chain` so far;
- `ContentInv`: what was connected once is well formed by itself, so that with
  `ChainInv` the rollback finds it connectable again (`Restores`);
- `SetsInv`: no block of the committed chain is alternative, invalid or has left
  an entry in the index of key images, but for those that a switch has pushed,
  so every other one is accepted when it is pushed (`PushAccepted`);
- `ForkInv`: the branch switched to wins against what it replaces of the
  committed chain, by a scale the node may have used, and a block of which the
  index of key images kept entries is alternative, invalid or lower than the
  top of the committed chain. So it cannot come back on top of it and then be
  refused when it is pushed: this is where `WinnersNotShorter` is needed, and
  why `BetterChainOnly` cannot be separated from `NoPanic`;
- `IndexSound`: the counts, which are cardinalities, and no entry of the index
  for a block that does not spend it.

`GuiContractsProofs` and `GuiContractsAgreeProofs` (for every finite set of
contracts, any expirations, heights and numbers of confirmations, with or
without the two releases that time does not touch, from `EscrowAssumption` and
`GuiAssumption`: a wallet's id is at most the number of confirmations, without
which setRefreshStacking would confirm by an id):

- `TypeCorrect`. `TypeInv` gives every entry of the two queues its fields;
  `CallInv` says which calls wait together, `SessionInv` that a session has one
  answer to getContracts, which no signal of the wallet precedes, and what a
  closed session leaves;
- `NoExpiredOffers`: `Spec => []NoExpiredOffer`, from `ListInv`: the three
  handlers that write an entry and the one that takes a new time are the only
  ones that can make an offer late, and each of them looks;
- `Agreement`: `Spec => []ContractsAgree`, `OffersAreSound`:
  `Spec => []OffersSound`, and `StartedConfirmed`: `Spec =>
  []StartedIsConfirmed`, all from `AgreeAlways`, `Spec => []AgreeInv`. The
  properties speak of drained queues, or of heights; the invariant has to say
  what every signal on its way will make of the list. `WalletInv` (`Ordered`,
  `Preceded`, `Disjoint`) ties a contract's state to the transactions that are
  in the pool, mined or dropped; `DeliveryInv` says that no signal of a
  transaction is behind the one of its loss, and that what the wallet has in its
  pool the history has or a signal brings; `PresentInv` that a contract is
  listed, in the answer, or in the signal of its proposal, so that none is
  missing and, with `ListInv`, none is there twice. The GUI takes over the state
  only of the first signal of a transaction, so `LastInv` follows the last such
  signal of each contract (`NewAt`, `LastFits`), or, if none is on its way, the
  entry or the answer: its state fits the wallet's. `CarriedInv` does the same
  for the height, which the later signals do change: beside an accepted or
  cancelled state a height on its way or in the list is 0, or not below the one
  at which the acceptance or the release was mined, so that counting from it
  never confirms early. `HeightInv`: the heights told only grow and are not
  ahead of the chain.

The exceptions in these properties are those of the code, and the proofs show
that there are no others: contracts that were overtaken, and the dropped release
described above.

`GuiSessionProofs` and `GuiSessionWalletProofs` (for any passwords, files, keys,
numbers of actions and starts, from `SessionAssumption`: the secure file found
at the first start is one that the program may have written). The queue of calls
is unbounded, so each invariant says which calls may be in it together, in which
order, and what is already true while they are:

- `TypeCorrect`. Stronger than `TypeOK`, `TypeInv` has that every call has the
  fields its execution reads, that ids are given once and that a call to close
  names an id already given;
- `OnePassword`: `Spec => []PasswordsAgree`, from `PassInv`. That an unlocked
  session knows the file's password depends on what was on its way when it was
  locked: a change of the password is executed before the list is stored under
  it, so the file is under an old password only while a store is pending
  (`Outdated`), no check overtakes a change (`Entered`), and a session without a
  file stores nothing before its first password (`Fileless`);
- `QuitKeepsWallets`: `Spec => []QuitSaves`, from `QuitInv`: a quit that nothing
  disturbs has one call on its way, the store of the promised list first and
  nothing that touches the file after it;
- `ListAgrees`: `Spec => []ListIsOpen`, from `ListInv`: what is open in the
  backend and not listed is about to be closed as a duplicate;
- `WalletsAreListed`: `Spec => []WalletsListed`, the former with
  `UniqueWallets`, from `KeyInv`. `OrderInv` says what may be on its way with
  a login: the wallets of the user only behind those of the file, and no list to
  be stored between two passwords; `KeysInv` follows the keys through the list,
  the file and the lists to be stored. Two answered passwords may open the same
  file twice; the second time it is refused because the first is still open,
  and no call before it closes that.

Out of the prover's reach, and left to TLC: liveness (`Converges`,
`CommitEnds`, `WriterEnters`, `CatchesUp`, `ShownWhenDeep`, `QuitCompletes`) and
`ENABLED`; what recursive definitions compute for every input, which would need
induction over data. Only model-checked: all of WalletSync with ChainShortener
(`ShortenerSound`, `WalletExact`, `SpentMarksBacked`), where one step is a fold
over the blocks of an answer and the invariants would need induction over it.

## Not modelled

Fees, sizes, rewards, ring signatures and proofs are data that the models
reduce to "this block or transaction passes this check". Difficulties are
constants of the tree: how they are computed from the blocks
(`next_difficulty_2`) and the 128 and 1024 bit widths of the fork choice are
left out. Checkpoints (zones in which alternative blocks are refused and
transactions pruned), the black list, the fork choice of splits at height 0,
which does not occur, the cache of the median of timestamps, failures of LMDB
calls, the MDBX and LevelDB backends and the LRU order of the cache are left
out, and so are the components that `PROJECT.json` gives the status
`not_modelled`, each with its reason.

Of the wallet: amounts and the selection of outputs, multisig and HTLC outputs,
watch-only and auditable wallets, the change of the genesis, and staking. Of
contracts: the validation of templates and reorganizations. Of the GUI: created
and restored wallets, the modal that opens wallets of the unprotected settings,
contacts, the pages for sending, staking, aliases and the history, failing
writes of the files, viewed marks.

Most lines of JavaScript in the repository are not code of the project:
`layout/html/vendor.js`, `polyfills.js` and `styles.js` are third-party
libraries and `main.js` is the output of the Angular compiler, together 157 000
of 166 000 lines. The model is of `layout/html_source`, from which `main.js` is
built, about 8 500 lines of which most are forms, validation and layout, and of
the C++ behind it.

## Plan

Done, in this order because each is what the next stands on for its meaning:
TxPool, Blockchain with ForkChoice, DbAccessor, SharedMutex with RWLock; then,
towards the user, ChainShortener and WalletSync, EscrowWallet and GuiContracts,
GuiSession.

1. BlockTemplate: `fill_block_template` and `is_transaction_ready_to_go` as a
   function of pool and chain. To check: a template never has two transactions
   that conflict, nor more aliases than allowed; the cached verdicts
   (`last_failed_id`, `max_used_block_id`) are forgotten after a
   reorganization; what happens to transactions behind the size limit.
2. Difficulty: `next_difficulty_2` and the correction, over the bounded inputs
   of a small window, to see which trees satisfy `ForkChoiceSettled` and
   `WinnersNotShorter`.
3. Composition of Blockchain with the pool of TxPool, the two databases and a
   crash between them; failures of LMDB calls in DbAccessor.
4. CacheBase: the LRU cache, refining the cache of DbAccessor.
5. Protocol: synchronisation of a node with several peers, with lost answers
   and dropped connections, down to `add_new_block`; then the peer lists.
6. Wallet: the worker threads of `wallets_manager` with close and stop, multisig
   outputs in WalletSync, reorganizations under EscrowWallet.
7. GUI: the pagination of the history with its cached pages; created and
   restored wallets in GuiSession.
8. Offers service, stratum jobs.

Theorems to come: the bookkeeping of WalletSync (`SpentMarksBacked`) as far as
it does not need induction over the blocks of an answer.
