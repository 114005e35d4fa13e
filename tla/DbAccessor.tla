----------------------------- MODULE DbAccessor -----------------------------
(***************************************************************************)
(* The database layer under the blockchain and the pool:                   *)
(* basic_db_accessor and cached_key_value_accessor                         *)
(* (common/db_abstract_accessor.h), the LMDB backend                       *)
(* (common/db_backend_lmdb.cpp), the cache with write isolation            *)
(* (epee/cache_helper.h) and the shared_recursive_mutex                    *)
(* (epee/readwrite_lock.h).                                                *)
(*                                                                         *)
(* One writer at a time works on a version of its own; every other thread  *)
(* reads what was committed last, or the version of its own read-only      *)
(* transaction.  One cache serves all of them: while a writer is at work   *)
(* it belongs to the writer.  What keeps a reader that is still busy from  *)
(* filling it with what the writer has replaced meanwhile is the           *)
(* read-write lock: the writer takes it, exclusively, to end its           *)
(* transaction.                                                            *)
(*                                                                         *)
(* One container is modelled; all containers of a database switch their    *)
(* isolation together.  The cache is larger than the set of keys.          *)
(***************************************************************************)
EXTENDS Naturals, Sequences, FiniteSets

CONSTANTS
    Thread, NoThread,
    Key, Value,
    None,       \* no value under a key
    MaxNesting  \* bound: transactions a thread has open, one inside the other

ASSUME DbAssumption ==
    /\ NoThread \notin Thread
    /\ None \notin Value
    /\ IsFiniteSet(Key) \* keys are hashes or numbers of a fixed width
    /\ MaxNesting \in Nat

VARIABLES
    db,          \* the content of the container that was committed last
    txs,         \* lmdb_db_backend::m_txs: per thread, its open transactions
    write_owner, \* m_write_exclusive_lock
    stack,       \* m_transactions_stack: per thread, which of its transactions are read-only
    stack_lock,  \* m_transactions_stack_lock
    writer,      \* isolation_lock::m_current_writer_thread
    cache,       \* m_cache; None: not cached
    size_cache,  \* size_cache and size_cache_valid
    readers,     \* m_rwlock: threads with shared ownership
    exclusive,   \* m_rwlock: the thread that holds exclusive_lock
    alt_lock,    \* blockchain_storage::m_alternative_chains_lock
    call         \* per thread, the call it is in

vars == <<db, txs, write_owner, stack, stack_lock, writer, cache, size_cache,
          readers, exclusive, alt_lock, call>>

Content  == [Key -> Value \cup {None}]
Size(c)  == Cardinality({k \in Key : c[k] # None})
Empty    == [k \in Key |-> None]
Last(s)  == s[Len(s)]
Front(s) == SubSeq(s, 1, Len(s) - 1)
Idle     == [pc |-> "idle"]

\* what a thread's reads and writes act on: get_current_tx, or a read-only one of the call's own
View(th) == IF txs[th] = <<>> THEN db ELSE Last(txs[th]).view

has_writer_tx_in_stack(s) == \E i \in DOMAIN s : ~s[i]
InWriteTx(th) == stack[th] # <<>> /\ ~Last(stack[th])
CacheAllowed(th) == writer \in {NoThread, th}
Go(th, c) == call' = [call EXCEPT ![th] = c]

Init ==
    /\ db = Empty
    /\ txs = [th \in Thread |-> <<>>]
    /\ write_owner = NoThread
    /\ stack = [th \in Thread |-> <<>>]
    /\ stack_lock = NoThread
    /\ writer = NoThread
    /\ cache = Empty
    /\ size_cache = [valid |-> FALSE, size |-> 0]
    /\ readers = {}
    /\ exclusive = NoThread
    /\ alt_lock = NoThread
    /\ call = [th \in Thread |-> Idle]

UnchangedLocks == UNCHANGED <<readers, exclusive, alt_lock>>
UnchangedData  == UNCHANGED <<db, cache, size_cache>>
UnchangedTx    == UNCHANGED <<txs, write_owner, stack, stack_lock, writer>>

(***************************************************************************)
(* begin_transaction: first the backend, then the accessor's own stack.    *)
(***************************************************************************)

\* a read-only transaction inside another one only counts; a write transaction
\* inside a read-only one starts from what was committed last
begin_backend(th, readonly) ==
    LET open  == txs[th]
        entry == [read_only |-> readonly, count |-> IF readonly THEN 1 ELSE 0,
                  view |-> IF open # <<>> /\ ~Last(open).read_only THEN Last(open).view ELSE db]
    IN  /\ call[th].pc = "idle" /\ th \notin readers
        /\ Len(stack[th]) < MaxNesting
        /\ readonly \/ write_owner \in {NoThread, th}
        /\ txs' = [txs EXCEPT ![th] =
                     IF readonly /\ open # <<>> THEN [open EXCEPT ![Len(open)].count = @ + 1]
                     ELSE Append(open, entry)]
        /\ write_owner' = IF readonly THEN write_owner ELSE th
        /\ Go(th, [pc |-> "begin", readonly |-> readonly])
        /\ UnchangedData /\ UnchangedLocks /\ UNCHANGED <<stack, stack_lock, writer>>

\* mutant: the transaction is not pushed on the accessor's stack
begin_push_forgotten(th) ==
    /\ call[th].pc = "begin" /\ stack_lock = NoThread
    /\ writer' = IF call[th].readonly \/ has_writer_tx_in_stack(stack[th]) THEN writer ELSE th
    /\ Go(th, Idle)
    /\ UnchangedData /\ UnchangedLocks /\ UNCHANGED <<txs, write_owner, stack, stack_lock>>

\* on_write_transaction_begin, set_isolation_mode
begin_push(th) ==
    /\ call[th].pc = "begin" /\ stack_lock = NoThread
    /\ stack' = [stack EXCEPT ![th] = Append(@, call[th].readonly)]
    /\ writer' = IF call[th].readonly \/ has_writer_tx_in_stack(stack[th]) THEN writer ELSE th
    /\ Go(th, Idle)
    /\ UnchangedData /\ UnchangedLocks /\ UNCHANGED <<txs, write_owner, stack_lock>>

(***************************************************************************)
(* commit_transaction and abort_transaction.  A writer waits for the       *)
(* readers; exclusive_lock keeps new ones out while it does.               *)
(***************************************************************************)

End(th, how) ==
    /\ call[th].pc = "idle" /\ stack[th] # <<>> /\ th \notin readers
    /\ \/ Last(stack[th]) /\ exclusive' = exclusive /\ Go(th, [pc |-> "backend", how |-> how])
       \/ ~Last(stack[th]) /\ exclusive = NoThread /\ exclusive' = th
          /\ Go(th, [pc |-> "wait", how |-> how])
    /\ UnchangedData /\ UnchangedTx /\ UNCHANGED <<readers, alt_lock>>

\* add_new_block has released m_alternative_chains_lock when it gets here
commit_transaction(th) == alt_lock # th /\ End(th, "commit")

\* no caller aborts a read-only or a nested transaction
abort_transaction(th) == alt_lock # th /\ stack[th] = <<FALSE>> /\ End(th, "abort")

\* truncate_blockchain commits with m_alternative_chains_lock held
truncate_commit(th) == alt_lock = th /\ InWriteTx(th) /\ End(th, "commit")

\* mutant: lock does not wait for the readers
wait_readers_not(th) ==
    /\ call[th].pc = "wait"
    /\ Go(th, [call[th] EXCEPT !.pc = "backend"])
    /\ UnchangedData /\ UnchangedTx /\ UnchangedLocks

wait_readers(th) ==
    /\ call[th].pc = "wait" /\ readers = {}
    /\ Go(th, [call[th] EXCEPT !.pc = "backend"])
    /\ UnchangedData /\ UnchangedTx /\ UnchangedLocks

\* pop_tx_entry, and mdb_txn_commit or mdb_txn_abort when the entry is the last of its count
EndBackend(th) ==
    LET open  == txs[th]
        top   == Last(open)
        below == Front(open)
        ends  == IF top.read_only THEN top.count = 1 ELSE top.count = 0
        write == ends /\ ~top.read_only
        inner == below # <<>> /\ ~Last(below).read_only
        keep  == write /\ call[th].how = "commit"
    IN  /\ txs' = [txs EXCEPT ![th] =
                     IF ~ends THEN [open EXCEPT ![Len(open)].count = @ - 1]
                     ELSE IF keep /\ inner THEN [below EXCEPT ![Len(below)].view = top.view]
                     ELSE below]
        /\ db' = IF keep /\ ~inner THEN top.view ELSE db
        /\ write_owner' = IF write /\ ~\E i \in DOMAIN below : ~below[i].read_only
                          THEN NoThread ELSE write_owner

\* mutant: the stack is locked only when the backend is done
end_backend_unlocked(th) ==
    /\ call[th].pc = "backend"
    /\ EndBackend(th)
    /\ Go(th, [call[th] EXCEPT !.pc = "pop"])
    /\ UnchangedLocks /\ UNCHANGED <<stack, stack_lock, writer, cache, size_cache>>

\* commit first and then switch cache isolation off
end_backend(th) ==
    /\ call[th].pc = "backend" /\ stack_lock = NoThread
    /\ stack_lock' = th
    /\ EndBackend(th)
    /\ Go(th, [call[th] EXCEPT !.pc = "pop"])
    /\ UnchangedLocks /\ UNCHANGED <<stack, writer, cache, size_cache>>

\* mutant: on_write_transaction_abort does not clear the cache
end_pop_no_clear(th) ==
    LET was_writer == InWriteTx(th)
        last       == was_writer /\ ~has_writer_tx_in_stack(Front(stack[th]))
    IN  /\ call[th].pc = "pop"
        /\ stack' = [stack EXCEPT ![th] = Front(@)]
        /\ writer' = IF last THEN NoThread ELSE writer
        /\ stack_lock' = NoThread
        /\ Go(th, IF was_writer THEN [pc |-> "unlock"] ELSE Idle)
        /\ UnchangedLocks /\ UNCHANGED <<db, txs, write_owner, cache, size_cache>>

\* on_write_transaction_commit, on_write_transaction_abort
end_pop(th) ==
    LET was_writer == InWriteTx(th)
        last       == was_writer /\ ~has_writer_tx_in_stack(Front(stack[th]))
    IN  /\ call[th].pc = "pop"
        /\ stack' = [stack EXCEPT ![th] = Front(@)]
        /\ writer' = IF last THEN NoThread ELSE writer
        /\ cache' = IF last /\ call[th].how = "abort" THEN Empty ELSE cache
        /\ stack_lock' = NoThread
        /\ Go(th, IF was_writer THEN [pc |-> "unlock"] ELSE Idle)
        /\ UnchangedLocks /\ UNCHANGED <<db, txs, write_owner, size_cache>>

end_unlock(th) ==
    /\ call[th].pc = "unlock"
    /\ exclusive' = NoThread
    /\ alt_lock' = IF alt_lock = th /\ stack[th] = <<>> THEN NoThread ELSE alt_lock
    /\ Go(th, Idle)
    /\ UnchangedData /\ UnchangedTx /\ UNCHANGED readers

(***************************************************************************)
(* The container.  Nobody else looks at what the writer changes, so a      *)
(* write is one step; a read is three.                                     *)
(***************************************************************************)

Write(th, content) == txs' = [txs EXCEPT ![th][Len(txs[th])].view = content]

set(th, k, v) ==
    /\ call[th].pc = "idle" /\ InWriteTx(th)
    /\ Write(th, [View(th) EXCEPT ![k] = v])
    /\ cache' = [cache EXCEPT ![k] = v]
    /\ size_cache' = [size_cache EXCEPT !.valid = FALSE]
    /\ UnchangedLocks /\ UNCHANGED <<db, write_owner, stack, stack_lock, writer, call>>

\* mutant: the cached object is not erased
erase_not_cached(th, k) ==
    /\ call[th].pc = "idle" /\ InWriteTx(th)
    /\ Write(th, [View(th) EXCEPT ![k] = None])
    /\ size_cache' = [size_cache EXCEPT !.valid = FALSE]
    /\ UnchangedLocks /\ UNCHANGED <<db, cache, write_owner, stack, stack_lock, writer, call>>

erase(th, k) ==
    /\ call[th].pc = "idle" /\ InWriteTx(th)
    /\ Write(th, [View(th) EXCEPT ![k] = None])
    /\ cache' = [cache EXCEPT ![k] = None]
    /\ size_cache' = [size_cache EXCEPT !.valid = FALSE]
    /\ UnchangedLocks /\ UNCHANGED <<db, write_owner, stack, stack_lock, writer, call>>

clear(th) ==
    /\ call[th].pc = "idle" /\ InWriteTx(th)
    /\ Write(th, Empty)
    /\ cache' = Empty
    /\ size_cache' = [size_cache EXCEPT !.valid = FALSE]
    /\ UnchangedLocks /\ UNCHANGED <<db, write_owner, stack, stack_lock, writer, call>>

\* isolated_access holds the isolation's own mutex over the query of the database
size(th) ==
    /\ call[th].pc = "idle" /\ CacheAllowed(th) /\ ~size_cache.valid
    /\ size_cache' = [valid |-> TRUE, size |-> Size(View(th))]
    /\ UnchangedTx /\ UnchangedLocks /\ UNCHANGED <<db, cache, call>>

get(th, k) ==
    /\ call[th].pc = "idle"
    /\ Go(th, IF CacheAllowed(th) /\ cache[k] # None
              THEN [pc |-> "got", key |-> k, res |-> cache[k]]
              ELSE [pc |-> "miss", key |-> k])
    /\ UnchangedData /\ UnchangedTx /\ UnchangedLocks

get_db(th) ==
    /\ call[th].pc = "miss"
    /\ LET v == View(th)[call[th].key]
       IN  Go(th, [pc |-> IF v = None THEN "got" ELSE "fill", key |-> call[th].key, res |-> v])
    /\ UnchangedData /\ UnchangedTx /\ UnchangedLocks

\* mutant: the isolation of the cache is ignored
get_fill_always(th) ==
    /\ call[th].pc = "fill"
    /\ cache' = [cache EXCEPT ![call[th].key] = call[th].res]
    /\ Go(th, [call[th] EXCEPT !.pc = "got"])
    /\ UnchangedTx /\ UnchangedLocks /\ UNCHANGED <<db, size_cache>>

get_fill(th) ==
    /\ call[th].pc = "fill"
    /\ cache' = IF CacheAllowed(th) THEN [cache EXCEPT ![call[th].key] = call[th].res] ELSE cache
    /\ Go(th, [call[th] EXCEPT !.pc = "got"])
    /\ UnchangedTx /\ UnchangedLocks /\ UNCHANGED <<db, size_cache>>

got(th) ==
    /\ call[th].pc = "got"
    /\ Go(th, Idle)
    /\ UnchangedData /\ UnchangedTx /\ UnchangedLocks

(***************************************************************************)
(* Locks that the functions of blockchain_storage take around their reads. *)
(***************************************************************************)

\* mutant: readers may enter while a writer waits for them to leave
lock_shared_barging(th) ==
    /\ call[th].pc = "idle" /\ th \notin readers
    /\ readers' = readers \cup {th}
    /\ UnchangedData /\ UnchangedTx /\ UNCHANGED <<exclusive, alt_lock, call>>

lock_shared(th) ==
    /\ call[th].pc = "idle" /\ th \notin readers
    /\ exclusive = NoThread
    /\ readers' = readers \cup {th}
    /\ UnchangedData /\ UnchangedTx /\ UNCHANGED <<exclusive, alt_lock, call>>

unlock_shared(th) ==
    /\ call[th].pc = "idle" /\ th \in readers
    /\ readers' = readers \ {th}
    /\ UnchangedData /\ UnchangedTx /\ UNCHANGED <<exclusive, alt_lock, call>>

\* have_block, with m_read_lock held, waits for m_alternative_chains_lock and lets it go
have_block(th) ==
    /\ call[th].pc = "idle" /\ th \in readers
    /\ Go(th, [pc |-> "alt"])
    /\ UnchangedData /\ UnchangedTx /\ UnchangedLocks

have_block_alt(th) ==
    /\ call[th].pc = "alt" /\ alt_lock \in {NoThread, th}
    /\ Go(th, Idle)
    /\ UnchangedData /\ UnchangedTx /\ UnchangedLocks

\* the writer, in handle_alternative_block, switch_to_alternative_blockchain or truncate_blockchain
take_alt_lock(th) ==
    /\ call[th].pc = "idle" /\ InWriteTx(th) /\ th \notin readers
    /\ alt_lock = NoThread /\ alt_lock' = th
    /\ UnchangedData /\ UnchangedTx /\ UNCHANGED <<readers, exclusive, call>>

release_alt_lock(th) ==
    /\ call[th].pc = "idle" /\ alt_lock = th
    /\ alt_lock' = NoThread
    /\ UnchangedData /\ UnchangedTx /\ UNCHANGED <<readers, exclusive, call>>

(***************************************************************************)
(* A call that was begun goes on.                                          *)
(***************************************************************************)
Continue(th) ==
    \/ begin_push(th)
    \/ wait_readers(th) \/ end_backend(th) \/ end_pop(th) \/ end_unlock(th)
    \/ get_db(th) \/ get_fill(th) \/ got(th)
    \/ have_block_alt(th)

WriteStep(th) ==
    \/ \E k \in Key, v \in Value : set(th, k, v)
    \/ \E k \in Key : erase(th, k)
    \/ clear(th)

(***************************************************************************)
(* The blockchain's database: readers hold m_read_lock, nobody opens a     *)
(* read-only transaction, a writer may be aborted.                         *)
(***************************************************************************)
ReadLocked(th) ==
    /\ th \in readers
    /\ size(th) \/ \E k \in Key : get(th, k)

Step(th) ==
    \/ Continue(th)
    \/ WriteStep(th)
    \/ begin_backend(th, FALSE)
    \/ commit_transaction(th) \/ abort_transaction(th)
    \/ lock_shared(th) \/ unlock_shared(th)
    \/ ReadLocked(th)
    \/ have_block(th)
    \/ take_alt_lock(th) \/ release_alt_lock(th)

Next == \E th \in Thread : Step(th)

Spec == Init /\ [][Next]_vars

\* every thread that is inside a call gets on with it; a function that holds a lock makes
\* finitely many calls before it lets the lock go
Fairness ==
    \A th \in Thread :
        /\ WF_vars(Continue(th))
        /\ SF_vars(unlock_shared(th))
        /\ SF_vars(release_alt_lock(th))

LiveSpec == Spec /\ Fairness

\* with an operator who truncates the blockchain from the console
TruncateNext == Next \/ \E th \in Thread : truncate_commit(th)
TruncateSpec == Init /\ [][TruncateNext]_vars /\ Fairness

\* with blockchain_storage::search_by_id, which reads without m_read_lock
search_by_id(th) == stack[th] = <<>> /\ \E k \in Key : get(th, k)
SearchNext == Next \/ \E th \in Thread : search_by_id(th)
SearchSpec == Init /\ [][SearchNext]_vars

(***************************************************************************)
(* The pool's database: no reader takes the lock, read-only transactions   *)
(* are used, with a write transaction inside in fill_block_template, and   *)
(* nothing is aborted.                                                     *)
(***************************************************************************)
PoolStep(th) ==
    \/ Continue(th)
    \/ WriteStep(th)
    \/ \E readonly \in BOOLEAN : begin_backend(th, readonly)
    \/ commit_transaction(th)
    \/ size(th)
    \/ \E k \in Key : get(th, k)

PoolNext == \E th \in Thread : PoolStep(th)
PoolSpec == Init /\ [][PoolNext]_vars

(***************************************************************************)
(* Properties.                                                             *)
(***************************************************************************)

\* Every variable has its type; a thread that is in no call has an open transaction in the
\* accessor's stack if and only if it has one in the backend.
TypeOK ==
    /\ db \in Content /\ cache \in Content
    /\ \A th \in Thread : \A i \in DOMAIN txs[th] :
          txs[th][i] \in [read_only : BOOLEAN, count : 0..MaxNesting, view : Content]
    /\ {write_owner, stack_lock, writer, exclusive, alt_lock} \subseteq Thread \cup {NoThread}
    /\ \A th \in Thread : \A i \in DOMAIN stack[th] : stack[th][i] \in BOOLEAN
    /\ size_cache.size \in 0..Cardinality(Key) /\ size_cache.valid \in BOOLEAN
    /\ readers \subseteq Thread
    /\ \A th \in Thread : call[th].pc \in {"idle", "begin", "wait", "backend", "pop", "unlock",
                                           "miss", "fill", "got", "alt"}
    /\ \A th \in Thread : call[th].pc = "idle" => (stack[th] = <<>> <=> txs[th] = <<>>)

\* "Isolation mode already enabled for cache", "already disable" are never thrown: when a
\* writer enters, the previous one has switched the isolation off, although the backend has
\* let the new one in before that (m_transactions_stack_lock).
IsolationExclusive ==
    \A th \in Thread :
        /\ (call[th].pc = "begin" /\ stack_lock = NoThread /\ ~call[th].readonly
               /\ ~has_writer_tx_in_stack(stack[th])) => writer = NoThread
        /\ call[th].pc = "pop" /\ InWriteTx(th) => writer = th

\* The cache holds nothing but what its owner would find in the database: the writer in its
\* transaction, until it ends it, or everybody in what was committed last.
CacheCoherent ==
    LET content == IF writer = NoThread THEN db ELSE View(writer)
    IN  (writer # NoThread => call[writer].pc # "pop")
            => \A k \in Key : cache[k] # None => cache[k] = content[k]

\* What a reader got it still finds true as long as it holds m_read_lock, whether it came from
\* the cache or from the database: a writer cannot commit under it.
ReaderConsistent ==
    \A th \in readers :
        call[th].pc \in {"got", "fill"} => call[th].res = View(th)[call[th].key]

\* The cached size of a container is the size that its last committed content has.
SizeCoherent == (size_cache.valid /\ writer = NoThread) => size_cache.size = Size(db)

\* The writer waits while all readers finish their reading, and then ends its transaction.
CommitEnds == \A th \in Thread : (call[th].pc = "wait") ~> (call[th].pc = "idle")
=============================================================================
