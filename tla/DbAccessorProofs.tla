-------------------------- MODULE DbAccessorProofs --------------------------
(***************************************************************************)
(* The database accessor, for every set of threads, keys and values and    *)
(* every depth of nesting.  Under the blockchain its cache never serves    *)
(* what the database does not hold, and a reader under m_read_lock reads   *)
(* one version of it; under the pool, whose read-only transactions stand   *)
(* inside and around the writers', the isolation of the cache still has    *)
(* one owner.                                                              *)
(***************************************************************************)
EXTENDS DbAccessor, FiniteSetTheorems, SequenceTheorems, TLAPS

(***************************************************************************)
(* The inductive invariant.                                                *)
(***************************************************************************)

Entry  == [read_only : {FALSE}, count : {0}, view : Content]
Labels == {"idle", "begin", "wait", "backend", "pop", "unlock", "miss", "fill", "got", "alt"}

\* the fields that the call of a thread has at its step
CallShape(c) ==
    /\ c.pc \in Labels
    /\ c.pc = "begin" => c.readonly = FALSE
    /\ c.pc \in {"wait", "backend", "pop"} =>
          \E how \in {"commit", "abort"} : c = [pc |-> c.pc, how |-> how]
    /\ c.pc = "miss" => c.key \in Key
    /\ c.pc \in {"fill", "got"} =>
          \E k \in Key, v \in Value \cup {None} : c = [pc |-> c.pc, key |-> k, res |-> v]

\* The variables of the blockchain's database, where every transaction is a writer's.
DbTypes ==
    /\ db \in Content /\ cache \in Content
    /\ txs \in [Thread -> Seq(Entry)]
    /\ stack \in [Thread -> Seq({FALSE})]
    /\ write_owner \in Thread \cup {NoThread}
    /\ stack_lock \in Thread \cup {NoThread}
    /\ writer \in Thread \cup {NoThread}
    /\ exclusive \in Thread \cup {NoThread}
    /\ alt_lock \in Thread \cup {NoThread}
    /\ size_cache \in [valid : BOOLEAN, size : 0..Cardinality(Key)]
    /\ readers \subseteq Thread
    /\ DOMAIN call = Thread
    /\ \A th \in Thread : CallShape(call[th])

\* The stack of the accessor and the transactions of the backend differ only while a
\* transaction is being begun or ended; an aborted one is the thread's only one.
Nested(th) ==
    /\ call[th].pc = "begin" => Len(txs[th]) = Len(stack[th]) + 1
    /\ call[th].pc = "pop" => Len(txs[th]) + 1 = Len(stack[th])
    /\ call[th].pc \notin {"begin", "pop"} => Len(txs[th]) = Len(stack[th])
    /\ call[th].pc \in {"wait", "backend", "pop"} =>
          Len(stack[th]) > 0 /\ (call[th].how = "abort" => Len(stack[th]) = 1)

\* Who owns what: the backend's write lock, the isolation of the cache, the lock of the
\* stack, the read-write lock.
Owned(th) ==
    /\ write_owner = th <=> Len(txs[th]) > 0
    /\ writer = th <=> Len(stack[th]) > 0
    /\ stack_lock = th <=> call[th].pc = "pop"
    /\ exclusive = th <=> call[th].pc \in {"wait", "backend", "pop", "unlock"}
    /\ call[th].pc \in {"backend", "pop", "unlock"} => readers = {}
    /\ call[th].pc \in {"miss", "fill", "got", "alt"} => th \in readers
    /\ call[th].pc \in {"begin", "wait", "backend", "pop", "unlock"} => th \notin readers

\* A thread that is about to become the writer starts from what was committed last.
Fresh(th) == (call[th].pc = "begin" /\ Len(stack[th]) = 0) => View(th) = db

\* What the cache stands for.
Current == IF writer = NoThread THEN db ELSE View(writer)

\* The cache agrees with the database of its owner, but for an abort between the
\* backend's and the cache's.
CacheAgrees ==
    \/ \E th \in Thread : writer = th /\ call[th].pc = "pop" /\ call[th].how = "abort"
    \/ \A k \in Key : cache[k] # None => cache[k] = Current[k]

DbInv ==
    /\ DbTypes
    /\ \A th \in Thread : Nested(th) /\ Owned(th) /\ Fresh(th)
    /\ CacheAgrees
    /\ ReaderConsistent

(***************************************************************************)
(* Facts about the operators.                                              *)
(***************************************************************************)

\* A call of one thread leaves the others' alone.
LEMMA GoCall ==
    ASSUME DOMAIN call = Thread, NEW th \in Thread, NEW c, Go(th, c)
    PROVE  /\ DOMAIN call' = Thread
           /\ call'[th] = c
           /\ \A u \in Thread : u # th => call'[u] = call[u]
BY DEF Go

\* The last entry of a sequence is one of its elements.
LEMMA LastType ==
    ASSUME NEW S, NEW s \in Seq(S), Len(s) > 0
    PROVE  Last(s) \in S /\ Len(s) \in 1..Len(s)
BY DEF Last

\* A prefix of a sequence.
LEMMA PrefixType ==
    ASSUME NEW S, NEW s \in Seq(S), NEW n \in 0..Len(s)
    PROVE  SubSeq(s, 1, n) \in Seq(S) /\ Len(SubSeq(s, 1, n)) = n
OBVIOUS

\* What remains without the last entry.
LEMMA FrontType ==
    ASSUME NEW S, NEW s \in Seq(S), Len(s) > 0
    PROVE  Front(s) \in Seq(S) /\ Len(Front(s)) = Len(s) - 1 /\ (Front(s) = <<>> <=> Len(s) = 1)
<1>1. Len(s) - 1 \in 0..Len(s)
    BY LenProperties
<1>2. Front(s) \in Seq(S) /\ Len(Front(s)) = Len(s) - 1
    BY <1>1, PrefixType DEF Front
<1>. QED BY <1>1, <1>2, EmptySeq

\* A new entry becomes the last one.
LEMMA AppendLast ==
    ASSUME NEW S, NEW s \in Seq(S), NEW e \in S
    PROVE  /\ Append(s, e) \in Seq(S) /\ Len(Append(s, e)) = Len(s) + 1
           /\ Last(Append(s, e)) = e /\ Append(s, e) # <<>>
BY DEF Last

\* Changing the view of the last entry changes nothing else of the sequence.
LEMMA LastView ==
    ASSUME NEW s \in Seq(Entry), Len(s) > 0, NEW v \in Content
    PROVE  LET n == [s EXCEPT ![Len(s)].view = v]
           IN  n \in Seq(Entry) /\ Len(n) = Len(s) /\ Last(n).view = v /\ n # <<>>
<1> DEFINE n == [s EXCEPT ![Len(s)].view = v]
<1>1. Len(s) \in 1..Len(s) /\ s[Len(s)] \in Entry
    OBVIOUS
<1>2. [s[Len(s)] EXCEPT !.view = v] \in Entry
    BY <1>1 DEF Entry
<1>3. n \in Seq(Entry) /\ Len(n) = Len(s) /\ n[Len(n)] = [s[Len(s)] EXCEPT !.view = v]
    BY <1>1, <1>2
<1>4. [s[Len(s)] EXCEPT !.view = v].view = v
    BY <1>1 DEF Entry
<1>. QED BY <1>3, <1>4 DEF Last

\* A thread works on a version of the container.
LEMMA ViewType ==
    ASSUME DbTypes, NEW th \in Thread
    PROVE  View(th) \in Content
<1>1. txs[th] \in Seq(Entry)
    BY DEF DbTypes
<1>2. CASE txs[th] = <<>>
    BY <1>2 DEF View, DbTypes
<1>3. CASE txs[th] # <<>>
    <2>1. Last(txs[th]) \in Entry
        BY <1>1, <1>3, LastType
    <2>. QED BY <1>3, <2>1 DEF View, Entry
<1>. QED BY <1>2, <1>3

\* Every transaction of the blockchain's database is a writer's.
LEMMA WriterStack ==
    ASSUME NEW s \in Seq({FALSE})
    PROVE  /\ has_writer_tx_in_stack(s) <=> Len(s) > 0
           /\ Len(s) > 0 => ~Last(s)
           /\ s # <<>> <=> Len(s) > 0
<1>1. Len(s) \in Nat /\ DOMAIN s = 1..Len(s) /\ (s # <<>> <=> Len(s) > 0)
    BY LenProperties, EmptySeq
<1>2. \A i \in 1..Len(s) : ~s[i]
    <2>1. ASSUME NEW i \in 1..Len(s) PROVE ~s[i]
        <3>1. s[i] \in {FALSE}
            BY ElementOfSeq
        <3>. QED BY <3>1, Zenon
    <2>. QED BY <2>1
<1>3. Len(s) > 0 => Len(s) \in 1..Len(s)
    BY <1>1
<1>. QED BY <1>1, <1>2, <1>3 DEF has_writer_tx_in_stack, Last

\* The content of a container has no more entries than there are keys.
LEMMA SizeType == ASSUME NEW c PROVE Size(c) \in 0..Cardinality(Key)
<1>1. {k \in Key : c[k] # None} \subseteq Key
    OBVIOUS
<1>2. /\ IsFiniteSet({k \in Key : c[k] # None})
      /\ Cardinality({k \in Key : c[k] # None}) <= Cardinality(Key)
    BY <1>1, DbAssumption, FS_Subset
<1>3. Cardinality({k \in Key : c[k] # None}) \in Nat /\ Cardinality(Key) \in Nat
    BY <1>2, DbAssumption, FS_CardinalityType
<1>. QED BY <1>2, <1>3 DEF Size

(***************************************************************************)
(* Steps that touch no transaction and no data.                            *)
(***************************************************************************)

\* As long as nobody's version of the container changes the cache agrees as before.
LEMMA QuietData ==
    ASSUME DbInv, NEW th \in Thread, call[th].pc # "pop",
           \A u \in Thread : u # th => call'[u] = call[u],
           \A u \in Thread : View(u)' = View(u),
           UNCHANGED <<db, writer, cache>>
    PROVE  CacheAgrees'
<1>1. Current' = Current
    BY DEF Current, DbInv, DbTypes
<1>2. CASE \E u \in Thread : writer = u /\ call[u].pc = "pop" /\ call[u].how = "abort"
    BY <1>2 DEF CacheAgrees
<1>3. CASE \A k \in Key : cache[k] # None => cache[k] = Current[k]
    BY <1>1, <1>3 DEF CacheAgrees
<1>. QED BY <1>2, <1>3 DEF DbInv, CacheAgrees

\* One thread moves from call to call; of the rest of the state only the cache, the cached
\* size and the owner of a lock change.
LEMMA CallStep ==
    ASSUME DbInv, NEW th \in Thread, NEW c, CallShape(c),
           DOMAIN call' = Thread, call'[th] = c,
           \A u \in Thread : u # th => call'[u] = call[u],
           UnchangedTx, UNCHANGED <<db, readers>>, alt_lock' \in Thread \cup {NoThread},
           cache' \in Content, size_cache' \in [valid : BOOLEAN, size : 0..Cardinality(Key)],
           CacheAgrees',
           call[th].pc \notin {"begin", "pop"}, c.pc \notin {"begin", "pop"},
           exclusive' \in Thread \cup {NoThread},
           \A u \in Thread : u # th => (exclusive' = u <=> exclusive = u),
           exclusive' = th <=> c.pc \in {"wait", "backend", "unlock"},
           c.pc \in {"wait", "backend"} =>
               Len(stack[th]) > 0 /\ (c.how = "abort" => Len(stack[th]) = 1),
           c.pc \in {"backend", "unlock"} => readers = {},
           c.pc \in {"miss", "fill", "got", "alt"} => th \in readers,
           c.pc \in {"wait", "backend", "unlock"} => th \notin readers,
           c.pc \in {"got", "fill"} => c.res = View(th)[c.key]
    PROVE  DbInv'
<1>1. \A u \in Thread : View(u)' = View(u)
    BY DEF View, UnchangedTx
<1>2. DbTypes'
    BY DEF DbInv, DbTypes, UnchangedTx
<1>3. ASSUME NEW u \in Thread PROVE Nested(u)' /\ Owned(u)' /\ Fresh(u)'
    <2>1. Nested(u) /\ Owned(u) /\ Fresh(u)
        BY DEF DbInv
    <2>2. CASE u = th
        BY <2>1, <2>2 DEF Nested, Owned, Fresh, UnchangedTx
    <2>3. CASE u # th
        BY <1>1, <2>1, <2>3 DEF Nested, Owned, Fresh, UnchangedTx
    <2>. QED BY <2>2, <2>3
<1>4. ReaderConsistent'
    BY <1>1 DEF DbInv, DbTypes, ReaderConsistent
<1>. QED BY <1>2, <1>3, <1>4 DEF DbInv

\* A call goes on, or begins, without changing anything else but the locks.
LEMMA QuietStep ==
    ASSUME DbInv, NEW th \in Thread, NEW c, CallShape(c), Go(th, c),
           UnchangedData, UnchangedTx, UNCHANGED readers, alt_lock' \in Thread \cup {NoThread},
           call[th].pc \notin {"begin", "pop"}, c.pc \notin {"begin", "pop"},
           exclusive' \in Thread \cup {NoThread},
           \A u \in Thread : u # th => (exclusive' = u <=> exclusive = u),
           exclusive' = th <=> c.pc \in {"wait", "backend", "unlock"},
           c.pc \in {"wait", "backend"} =>
               Len(stack[th]) > 0 /\ (c.how = "abort" => Len(stack[th]) = 1),
           c.pc \in {"backend", "unlock"} => readers = {},
           c.pc \in {"miss", "fill", "got", "alt"} => th \in readers,
           c.pc \in {"wait", "backend", "unlock"} => th \notin readers,
           c.pc \in {"got", "fill"} => c.res = View(th)[c.key]
    PROVE  DbInv'
<1>1. /\ DOMAIN call' = Thread
      /\ call'[th] = c
      /\ \A u \in Thread : u # th => call'[u] = call[u]
    BY GoCall DEF DbInv, DbTypes
<1>2. CacheAgrees'
    BY <1>1, QuietData DEF View, UnchangedData, UnchangedTx
<1>3. /\ UNCHANGED <<db, readers>> /\ cache' \in Content
      /\ size_cache' \in [valid : BOOLEAN, size : 0..Cardinality(Key)]
    BY DEF DbInv, DbTypes, UnchangedData
<1>. QED BY <1>1, <1>2, <1>3, CallStep

\* The state of one thread, unfolded.
LEMMA ThreadState ==
    ASSUME DbInv, NEW th \in Thread
    PROVE  /\ CallShape(call[th]) /\ Nested(th) /\ Owned(th)
           /\ txs[th] \in Seq(Entry) /\ stack[th] \in Seq({FALSE})
           /\ Len(txs[th]) \in Nat /\ Len(stack[th]) \in Nat
           /\ InWriteTx(th) <=> Len(stack[th]) > 0
<1>1. txs[th] \in Seq(Entry) /\ stack[th] \in Seq({FALSE})
    BY DEF DbInv, DbTypes
<1>2. InWriteTx(th) <=> Len(stack[th]) > 0
    BY <1>1, WriterStack DEF InWriteTx
<1>. QED BY <1>1, <1>2, LenProperties DEF DbInv, DbTypes

\* commit_transaction and abort_transaction: the writer asks for the lock.
LEMMA EndStep ==
    ASSUME DbInv, NEW th \in Thread, NEW how \in {"commit", "abort"}, End(th, how),
           how = "abort" => stack[th] = <<FALSE>>
    PROVE  DbInv'
<1>1. Nested(th) /\ Owned(th) /\ stack[th] \in Seq({FALSE}) /\ Len(stack[th]) \in Nat
    BY ThreadState
<1>2. Len(stack[th]) > 0 /\ ~Last(stack[th])
    BY <1>1, WriterStack DEF End
<1>3. exclusive = NoThread /\ exclusive' = th /\ Go(th, [pc |-> "wait", how |-> how])
    BY <1>2 DEF End
<1>4. CallShape([pc |-> "wait", how |-> how])
    BY DEF CallShape, Labels
<1>5. how = "abort" => Len(stack[th]) = 1
    OBVIOUS
<1>6. alt_lock' \in Thread \cup {NoThread}
    BY DEF End, DbInv, DbTypes
<1>. QED BY <1>1, <1>2, <1>3, <1>4, <1>5, <1>6, QuietStep, DbAssumption DEF End, DbInv

\* The writer has waited until every reader has left.
LEMMA WaitStep == ASSUME DbInv, NEW th \in Thread, wait_readers(th) PROVE DbInv'
<1>1. CallShape(call[th]) /\ Nested(th) /\ Owned(th)
    BY ThreadState
<1>2. PICK how \in {"commit", "abort"} : call[th] = [pc |-> "wait", how |-> how]
    BY <1>1 DEF wait_readers, CallShape
<1>3. Go(th, [pc |-> "backend", how |-> how])
    BY <1>2 DEF wait_readers
<1>4. CallShape([pc |-> "backend", how |-> how])
    BY DEF CallShape, Labels
<1>5. /\ exclusive = th /\ readers = {}
      /\ Len(stack[th]) > 0 /\ (how = "abort" => Len(stack[th]) = 1)
    BY <1>1, <1>2 DEF wait_readers, Nested, Owned
<1>6. UnchangedData /\ UnchangedTx /\ UNCHANGED <<readers, exclusive, alt_lock>>
    BY DEF wait_readers, UnchangedLocks
<1>7. alt_lock \in Thread \cup {NoThread}
    BY DEF DbInv, DbTypes
<1>. QED BY <1>2, <1>3, <1>4, <1>5, <1>6, <1>7, QuietStep

\* The writer lets the readers in again.
LEMMA UnlockStep == ASSUME DbInv, NEW th \in Thread, end_unlock(th) PROVE DbInv'
<1>1. Owned(th) /\ call[th].pc = "unlock" /\ exclusive = th
    BY ThreadState DEF end_unlock, Owned
<1>2. CallShape(Idle) /\ Idle.pc = "idle"
    BY DEF CallShape, Labels, Idle
<1>3. Go(th, Idle) /\ exclusive' = NoThread /\ alt_lock' \in Thread \cup {NoThread}
    BY DEF end_unlock, DbInv, DbTypes
<1>4. UnchangedData /\ UnchangedTx /\ UNCHANGED readers
    BY DEF end_unlock
<1>. QED BY <1>1, <1>2, <1>3, <1>4, QuietStep, DbAssumption

\* A call of a reader goes on or ends; what it found is what the thread's view holds.
LEMMA ReadStep ==
    ASSUME DbInv, NEW th \in Thread, NEW c, CallShape(c), Go(th, c),
           UnchangedData, UnchangedTx, UnchangedLocks,
           call[th].pc \in {"idle", "miss", "fill", "got", "alt"},
           c.pc \in {"idle", "miss", "fill", "got", "alt"}, th \in readers,
           c.pc \in {"got", "fill"} => c.res = View(th)[c.key]
    PROVE  DbInv'
<1>1. Owned(th) /\ exclusive # th
    BY ThreadState DEF Owned
<1>2. /\ exclusive \in Thread \cup {NoThread} /\ alt_lock \in Thread \cup {NoThread}
      /\ UNCHANGED <<readers, exclusive, alt_lock>>
    BY DEF DbInv, DbTypes, UnchangedLocks
<1>. QED BY <1>1, <1>2, QuietStep

\* While a thread holds m_read_lock no transaction is being ended.
LEMMA ReadersKeepOut ==
    ASSUME DbInv, NEW th \in readers
    PROVE  th \in Thread /\ \A u \in Thread : call[u].pc \notin {"backend", "pop", "unlock"}
BY DEF DbInv, DbTypes, Owned

\* A thread that holds m_read_lock and is let to the cache works on what the cache stands for.
LEMMA ReaderView ==
    ASSUME DbInv, NEW th \in readers, CacheAllowed(th)
    PROVE  Current = View(th)
<1>1. th \in Thread /\ \A u \in Thread : call[u].pc # "pop"
    BY ReadersKeepOut
<1>2. Nested(th) /\ Owned(th) /\ txs[th] \in Seq(Entry) /\ Len(txs[th]) \in Nat
    BY <1>1, ThreadState
<1>3. CASE writer = th
    BY <1>1, <1>3, DbAssumption DEF Current
<1>4. CASE writer = NoThread
    <2>1. Len(stack[th]) = 0
        BY <1>1, <1>2, <1>4, ThreadState, DbAssumption DEF Owned
    <2>2. Len(txs[th]) = 0
        BY <1>1, <1>2, <2>1 DEF Nested, Owned
    <2>3. txs[th] = <<>>
        BY <1>2, <2>2, EmptySeq
    <2>. QED BY <1>4, <2>3 DEF Current, View
<1>. QED BY <1>3, <1>4 DEF CacheAllowed

\* So the cache serves it what its view holds.
LEMMA CacheServes ==
    ASSUME DbInv, NEW th \in readers, CacheAllowed(th), NEW k \in Key, cache[k] # None
    PROVE  cache[k] = View(th)[k]
<1>1. cache[k] = Current[k]
    BY ReadersKeepOut DEF DbInv, CacheAgrees
<1>. QED BY <1>1, ReaderView

\* get: the cache has the object, or does not.
LEMMA GetStep ==
    ASSUME DbInv, NEW th \in readers, NEW k \in Key, get(th, k)
    PROVE  DbInv'
<1>1. th \in Thread /\ cache[k] \in Value \cup {None}
    BY DEF DbInv, DbTypes, Content
<1>2. UnchangedData /\ UnchangedTx /\ UnchangedLocks /\ call[th].pc = "idle"
    BY DEF get
<1>3. CASE CacheAllowed(th) /\ cache[k] # None
    <2> DEFINE c == [pc |-> "got", key |-> k, res |-> cache[k]]
    <2>1. Go(th, c)
        BY <1>3 DEF get
    <2>2. CallShape(c)
        BY <1>1 DEF CallShape, Labels
    <2>3. c.res = View(th)[c.key] /\ c.pc = "got"
        BY <1>3, CacheServes
    <2> HIDE DEF c
    <2>. QED BY <1>1, <1>2, <2>1, <2>2, <2>3, ReadStep
<1>4. CASE ~(CacheAllowed(th) /\ cache[k] # None)
    <2>1. Go(th, [pc |-> "miss", key |-> k])
        BY <1>4 DEF get
    <2>2. CallShape([pc |-> "miss", key |-> k])
        BY DEF CallShape, Labels
    <2>. QED BY <1>1, <1>2, <2>1, <2>2, ReadStep
<1>. QED BY <1>3, <1>4

\* The object is looked up in the database.
LEMMA GetDbStep == ASSUME DbInv, NEW th \in Thread, get_db(th) PROVE DbInv'
<1> DEFINE k == call[th].key
           v == View(th)[k]
           c == [pc |-> IF v = None THEN "got" ELSE "fill", key |-> k, res |-> v]
<1>1. call[th].pc = "miss" /\ k \in Key /\ th \in readers
    BY ThreadState DEF get_db, CallShape, Owned
<1>2. v \in Value \cup {None}
    BY <1>1, ViewType DEF DbInv, Content
<1>3. CallShape(c)
    BY <1>1, <1>2 DEF CallShape, Labels
<1>4. c.res = View(th)[c.key] /\ c.pc \in {"got", "fill"}
    OBVIOUS
<1>5. Go(th, c) /\ UnchangedData /\ UnchangedTx /\ UnchangedLocks
    BY DEF get_db
<1> HIDE DEF c
<1>. QED BY <1>1, <1>3, <1>4, <1>5, ReadStep

\* A call of a reader that ends, and have_block's wait for the other lock.
LEMMA CallEnds ==
    ASSUME DbInv, NEW th \in Thread, got(th) \/ have_block(th) \/ have_block_alt(th)
    PROVE  DbInv'
<1>1. Owned(th) /\ UnchangedData /\ UnchangedTx /\ UnchangedLocks
    BY ThreadState DEF got, have_block, have_block_alt
<1>2. CallShape(Idle) /\ Idle.pc = "idle" /\ CallShape([pc |-> "alt"])
    BY DEF CallShape, Labels, Idle
<1>3. CASE got(th)
    BY <1>1, <1>2, <1>3, ReadStep DEF got, Owned
<1>4. CASE have_block(th)
    BY <1>1, <1>2, <1>4, ReadStep DEF have_block, Owned
<1>5. CASE have_block_alt(th)
    BY <1>1, <1>2, <1>5, ReadStep DEF have_block_alt, Owned
<1>. QED BY <1>3, <1>4, <1>5

\* What was looked up goes into the cache, if the isolation lets it.
LEMMA FillStep == ASSUME DbInv, NEW th \in Thread, get_fill(th) PROVE DbInv'
<1>1. CallShape(call[th]) /\ Owned(th) /\ call[th].pc = "fill" /\ th \in readers
    BY ThreadState DEF get_fill, Owned
<1>2. PICK k \in Key, v \in Value \cup {None} : call[th] = [pc |-> "fill", key |-> k, res |-> v]
    BY <1>1 DEF CallShape
<1> DEFINE c == [pc |-> "got", key |-> k, res |-> v]
<1>3. Go(th, c) /\ UnchangedTx /\ UnchangedLocks /\ UNCHANGED <<db, size_cache>>
    BY <1>2 DEF get_fill
<1>4. v = View(th)[k]
    BY <1>1, <1>2 DEF DbInv, ReaderConsistent
<1>5. cache' = IF CacheAllowed(th) THEN [cache EXCEPT ![k] = v] ELSE cache
    BY <1>2 DEF get_fill
<1>6. cache' \in Content
    BY <1>5 DEF DbInv, DbTypes, Content
<1>7. CallShape(c) /\ c.pc = "got" /\ c.key = k /\ c.res = v
    BY DEF CallShape, Labels
<1> HIDE DEF c
<1>8. /\ DOMAIN call' = Thread
      /\ call'[th] = c
      /\ \A u \in Thread : u # th => call'[u] = call[u]
    BY <1>3, GoCall DEF DbInv, DbTypes
<1>9. Current' = Current
    BY <1>3 DEF Current, View, UnchangedTx
<1>10. \A j \in Key : cache[j] # None => cache[j] = Current[j]
    BY <1>1, ReadersKeepOut DEF DbInv, CacheAgrees
<1>11. CacheAgrees'
    <2>1. CacheAllowed(th) => v = Current[k]
        BY <1>1, <1>4, ReaderView
    <2>2. \A j \in Key : cache'[j] # None => cache'[j] = Current'[j]
        BY <1>5, <1>9, <1>10, <2>1 DEF DbInv, DbTypes, Content
    <2>. QED BY <2>2 DEF CacheAgrees
<1>12. Owned(th) /\ exclusive # th
    BY <1>1 DEF Owned
<1>13. /\ UNCHANGED <<db, readers, exclusive, alt_lock>>
       /\ exclusive \in Thread \cup {NoThread} /\ alt_lock \in Thread \cup {NoThread}
       /\ size_cache' \in [valid : BOOLEAN, size : 0..Cardinality(Key)]
    BY <1>3 DEF DbInv, DbTypes, UnchangedLocks
<1>. QED BY <1>1, <1>3, <1>4, <1>6, <1>7, <1>8, <1>11, <1>12, <1>13, CallStep

\* size, and the lock around the alternative chains: no call changes.
LEMMA SizeStep ==
    ASSUME DbInv, NEW th \in Thread, size(th) \/ take_alt_lock(th) \/ release_alt_lock(th)
    PROVE  DbInv'
<1>1. /\ UnchangedTx /\ UNCHANGED <<db, readers, exclusive, cache, call>>
      /\ alt_lock' \in Thread \cup {NoThread}
      /\ size_cache' \in [valid : BOOLEAN, size : 0..Cardinality(Key)]
    <2>1. CASE size(th)
        <3>1. size_cache' \in [valid : BOOLEAN, size : 0..Cardinality(Key)]
            BY <2>1, SizeType DEF size
        <3>. QED BY <2>1, <3>1 DEF DbInv, DbTypes, size, UnchangedLocks
    <2>2. CASE take_alt_lock(th) \/ release_alt_lock(th)
        BY <2>2 DEF DbInv, DbTypes, take_alt_lock, release_alt_lock, UnchangedData
    <2>. QED BY <2>1, <2>2
<1>2. CallShape(call[th]) /\ Owned(th) /\ call[th].pc = "idle"
    BY ThreadState DEF size, take_alt_lock, release_alt_lock
<1>3. CacheAgrees'
    BY <1>1, <1>2, QuietData DEF View, UnchangedTx
<1>4. DOMAIN call = Thread /\ cache \in Content /\ exclusive \in Thread \cup {NoThread}
    BY DEF DbInv, DbTypes
<1>. QED BY <1>1, <1>2, <1>3, <1>4, CallStep DEF Owned

\* A reader comes or goes.
LEMMA ReadersStep ==
    ASSUME DbInv, NEW th \in Thread, lock_shared(th) \/ unlock_shared(th)
    PROVE  DbInv'
<1>1. /\ UnchangedData /\ UnchangedTx /\ UNCHANGED <<exclusive, alt_lock, call>>
      /\ call[th].pc = "idle" /\ readers' \subseteq readers \cup {th}
      /\ \A u \in Thread : u # th => (u \in readers' <=> u \in readers)
    BY DEF lock_shared, unlock_shared
<1>2. \A u \in Thread : View(u)' = View(u)
    BY <1>1 DEF View, UnchangedData, UnchangedTx
<1>3. CacheAgrees'
    BY <1>1, <1>2, QuietData DEF UnchangedData, UnchangedTx
<1>6. DbTypes'
    BY <1>1 DEF DbInv, DbTypes, UnchangedData, UnchangedTx
<1>4. ASSUME NEW u \in Thread PROVE Nested(u)' /\ Owned(u)' /\ Fresh(u)'
    <2>1. Nested(u) /\ Owned(u) /\ Fresh(u)
        BY DEF DbInv
    <2>2. call[u].pc \in {"backend", "pop", "unlock"} => readers' = {}
        <3>1. CASE lock_shared(th)
            BY <2>1, <3>1, DbAssumption DEF lock_shared, Owned
        <3>2. CASE unlock_shared(th)
            BY <2>1, <3>2 DEF unlock_shared, Owned
        <3>. QED BY <3>1, <3>2
    <2>3. Nested(u)' /\ Fresh(u)'
        BY <1>1, <1>2, <2>1 DEF Nested, Fresh, UnchangedData, UnchangedTx
    <2>4. Owned(u)'
        BY <1>1, <2>1, <2>2 DEF Owned, UnchangedTx
    <2>. QED BY <2>3, <2>4
<1>5. ReaderConsistent'
    BY <1>1, <1>2 DEF DbInv, DbTypes, ReaderConsistent
<1>. QED BY <1>3, <1>4, <1>5, <1>6 DEF DbInv

(***************************************************************************)
(* The writer.                                                             *)
(***************************************************************************)

\* The writer changes its version, and the cache with it.
LEMMA WriteKeeps ==
    ASSUME DbInv, NEW th \in Thread, NEW v \in Content, call[th].pc = "idle", InWriteTx(th),
           Write(th, v), UnchangedLocks,
           UNCHANGED <<db, write_owner, stack, stack_lock, writer, call>>,
           cache' \in Content, \A k \in Key : cache'[k] # None => cache'[k] = v[k],
           size_cache' = [size_cache EXCEPT !.valid = FALSE]
    PROVE  DbInv'
<1>1. /\ Nested(th) /\ Owned(th) /\ txs[th] \in Seq(Entry) /\ Len(txs[th]) \in Nat
      /\ Len(stack[th]) > 0
    BY ThreadState
<1>2. Len(txs[th]) > 0 /\ writer = th
    BY <1>1 DEF Nested, Owned
<1>3. /\ txs' \in [Thread -> Seq(Entry)]
      /\ Len(txs'[th]) = Len(txs[th]) /\ View(th)' = v
      /\ \A u \in Thread : u # th => txs'[u] = txs[u]
    <2> DEFINE n == [txs[th] EXCEPT ![Len(txs[th])].view = v]
    <2>1. n \in Seq(Entry) /\ Len(n) = Len(txs[th]) /\ Last(n).view = v /\ n # <<>>
        BY <1>1, <1>2, LastView
    <2>2. txs' = [txs EXCEPT ![th] = n] /\ txs \in [Thread -> Seq(Entry)]
        BY DEF Write, DbInv, DbTypes
    <2> HIDE DEF n
    <2>. QED BY <2>1, <2>2 DEF View
<1>4. \A u \in Thread : u # th => View(u)' = View(u)
    BY <1>3 DEF View
<1>5. size_cache' \in [valid : BOOLEAN, size : 0..Cardinality(Key)]
    BY DEF DbInv, DbTypes
<1>6. DbTypes'
    BY <1>3, <1>5 DEF DbInv, DbTypes, UnchangedLocks
<1>7. ASSUME NEW u \in Thread PROVE Nested(u)' /\ Owned(u)' /\ Fresh(u)'
    <2>1. Nested(u) /\ Owned(u) /\ Fresh(u)
        BY DEF DbInv
    <2>2. Len(txs'[u]) = Len(txs[u])
        BY <1>3
    <2>3. Nested(u)'
        BY <2>1, <2>2 DEF Nested
    <2>4. Owned(u)'
        BY <2>1, <2>2 DEF Owned, UnchangedLocks
    <2>5. Fresh(u)'
        BY <1>4, <2>1 DEF Fresh
    <2>. QED BY <2>3, <2>4, <2>5
<1>8. CacheAgrees'
    <2>1. Current' = v
        BY <1>2, <1>3, DbAssumption DEF Current
    <2>. QED BY <2>1 DEF CacheAgrees
<1>9. ReaderConsistent'
    BY <1>4 DEF DbInv, DbTypes, ReaderConsistent, UnchangedLocks
<1>. QED BY <1>6, <1>7, <1>8, <1>9 DEF DbInv

\* set, erase and clear.
LEMMA WriteStepKeeps == ASSUME DbInv, NEW th \in Thread, WriteStep(th) PROVE DbInv'
<1>1. View(th) \in Content /\ cache \in Content /\ Empty \in Content
    BY ViewType DEF DbInv, DbTypes, Content, Empty
<1>2. InWriteTx(th) /\ call[th].pc = "idle"
    BY DEF WriteStep, set, erase, clear
<1>3. \A k \in Key : cache[k] # None => cache[k] = View(th)[k]
    <2>1. Owned(th) /\ writer = th
        BY <1>2, ThreadState DEF Owned
    <2>2. Current = View(th)
        BY <2>1, DbAssumption DEF Current
    <2>. QED BY <1>2, <2>1, <2>2 DEF DbInv, CacheAgrees
<1>4. ASSUME NEW k \in Key, NEW v \in Value, set(th, k, v) PROVE DbInv'
    <2>1. /\ [View(th) EXCEPT ![k] = v] \in Content /\ cache' \in Content
          /\ \A j \in Key : cache'[j] # None => cache'[j] = [View(th) EXCEPT ![k] = v][j]
        BY <1>1, <1>3, <1>4 DEF set, Content
    <2>. QED BY <1>2, <1>4, <2>1, WriteKeeps DEF set
<1>5. ASSUME NEW k \in Key, erase(th, k) PROVE DbInv'
    <2>1. /\ [View(th) EXCEPT ![k] = None] \in Content /\ cache' \in Content
          /\ \A j \in Key : cache'[j] # None => cache'[j] = [View(th) EXCEPT ![k] = None][j]
        BY <1>1, <1>3, <1>5 DEF erase, Content
    <2>. QED BY <1>2, <1>5, <2>1, WriteKeeps DEF erase
<1>6. CASE clear(th)
    BY <1>1, <1>2, <1>6, WriteKeeps DEF clear, Content
<1>. QED BY <1>4, <1>5, <1>6 DEF WriteStep

(***************************************************************************)
(* Beginning a transaction.                                                *)
(***************************************************************************)

\* The backend opens the transaction on the version that the thread had.
LEMMA BeginBackend == ASSUME DbInv, NEW th \in Thread, begin_backend(th, FALSE) PROVE DbInv'
<1> DEFINE open  == txs[th]
           entry == [read_only |-> FALSE, count |-> 0, view |-> View(th)]
           c     == [pc |-> "begin", readonly |-> FALSE]
<1>1. /\ Nested(th) /\ Owned(th) /\ open \in Seq(Entry) /\ stack[th] \in Seq({FALSE})
      /\ Len(open) \in Nat /\ Len(stack[th]) \in Nat
    BY ThreadState
<1>2. /\ call[th].pc = "idle" /\ th \notin readers /\ write_owner \in {NoThread, th}
      /\ write_owner' = th /\ Go(th, c) /\ UnchangedData /\ UnchangedLocks
      /\ UNCHANGED <<stack, stack_lock, writer>>
    BY DEF begin_backend
<1>3. txs' = [txs EXCEPT ![th] = Append(open, entry)]
    <2>1. open # <<>> => ~Last(open).read_only
        <3>1. open # <<>> => Last(open) \in Entry
            BY <1>1, LastType, EmptySeq
        <3>2. \A e \in Entry : e.read_only \in {FALSE}
            BY DEF Entry
        <3>3. \A e \in Entry : ~e.read_only
            BY <3>2, Zenon
        <3>. QED BY <3>1, <3>3
    <2>2. (IF open # <<>> /\ ~Last(open).read_only THEN Last(open).view ELSE db) = View(th)
        BY <2>1 DEF View
    <2>. QED BY <2>2 DEF begin_backend
<1>4. entry \in Entry
    BY ViewType DEF Entry, DbInv
<1>5. /\ Append(open, entry) \in Seq(Entry) /\ Len(Append(open, entry)) = Len(open) + 1
      /\ Last(Append(open, entry)) = entry /\ Append(open, entry) # <<>>
    BY <1>1, <1>4, AppendLast
<1>6. /\ txs' \in [Thread -> Seq(Entry)] /\ Len(txs'[th]) = Len(txs[th]) + 1
      /\ \A u \in Thread : u # th => txs'[u] = txs[u]
      /\ View(th)' = View(th)
    <2>1. txs \in [Thread -> Seq(Entry)] /\ txs'[th] = Append(open, entry)
        BY <1>3 DEF DbInv, DbTypes
    <2>2. View(th)' = View(th)
        BY <1>5, <2>1 DEF View
    <2>. QED BY <1>3, <1>5, <2>1, <2>2
<1>7. \A u \in Thread : View(u)' = View(u)
    BY <1>2, <1>6 DEF View, UnchangedData
<1>8. /\ DOMAIN call' = Thread
      /\ call'[th] = c
      /\ \A u \in Thread : u # th => call'[u] = call[u]
    BY <1>2, GoCall DEF DbInv, DbTypes
<1>9. CallShape(c)
    BY DEF CallShape, Labels
<1>10. DbTypes'
    BY <1>2, <1>6, <1>8, <1>9 DEF DbInv, DbTypes, UnchangedData, UnchangedLocks
<1>11. CacheAgrees'
    BY <1>2, <1>7, <1>8, QuietData DEF UnchangedData
<1>12. ASSUME NEW u \in Thread PROVE Nested(u)' /\ Owned(u)' /\ Fresh(u)'
    <2>1. Nested(u) /\ Owned(u) /\ Fresh(u)
        BY DEF DbInv
    <2>2. CASE u = th
        <3>1. Nested(th)' /\ Owned(th)'
            BY <1>1, <1>2, <1>6, <1>8 DEF Nested, Owned, UnchangedLocks
        <3>2. Len(stack[th]) = 0 => View(th) = db
            <4>1. Len(stack[th]) = 0 => open = <<>>
                BY <1>1, <1>2, EmptySeq DEF Nested
            <4>. QED BY <4>1 DEF View
        <3>3. Fresh(th)'
            BY <1>2, <1>7, <3>2 DEF Fresh, UnchangedData
        <3>. QED BY <2>2, <3>1, <3>3
    <2>3. CASE u # th
        <3>1. Nested(u)' /\ Owned(u)'
            BY <1>2, <1>6, <1>8, <2>1, <2>3, DbAssumption DEF Nested, Owned, UnchangedLocks
        <3>2. Fresh(u)'
            BY <1>2, <1>7, <1>8, <2>1, <2>3 DEF Fresh, UnchangedData
        <3>. QED BY <3>1, <3>2
    <2>. QED BY <2>2, <2>3
<1>13. ReaderConsistent'
    BY <1>2, <1>7, <1>8 DEF DbInv, DbTypes, ReaderConsistent, UnchangedLocks
<1>. QED BY <1>10, <1>11, <1>12, <1>13 DEF DbInv

\* When a thread begins its outermost transaction and m_transactions_stack_lock is free,
\* the writer before it has switched the isolation of the cache off.
LEMMA WriterGone ==
    ASSUME DbInv, NEW th \in Thread, call[th].pc = "begin", stack_lock = NoThread,
           Len(stack[th]) = 0
    PROVE  writer = NoThread
<1>1. SUFFICES ASSUME NEW u \in Thread, writer = u PROVE FALSE
    BY DEF DbInv, DbTypes
<1>2. /\ Nested(th) /\ Owned(th) /\ Nested(u) /\ Owned(u)
      /\ Len(txs[u]) \in Nat /\ Len(stack[u]) \in Nat
    BY ThreadState
<1>3. write_owner = th
    BY <1>2 DEF Nested, Owned
<1>4. Len(stack[u]) > 0 /\ u # th
    BY <1>1, <1>2 DEF Owned
<1>5. Len(txs[u]) = 0
    BY <1>2, <1>3, <1>4 DEF Owned
<1>6. call[u].pc = "pop"
    BY <1>2, <1>4, <1>5 DEF Nested
<1>. QED BY <1>2, <1>6, DbAssumption DEF Owned

\* The accessor's own stack follows, and the cache becomes the writer's.
LEMMA BeginPush == ASSUME DbInv, NEW th \in Thread, begin_push(th) PROVE DbInv'
<1>1. /\ CallShape(call[th]) /\ Nested(th) /\ Owned(th) /\ Fresh(th)
      /\ stack[th] \in Seq({FALSE}) /\ Len(txs[th]) \in Nat /\ Len(stack[th]) \in Nat
    BY ThreadState DEF DbInv
<1>2. /\ call[th].pc = "begin" /\ stack_lock = NoThread /\ call[th].readonly = FALSE
      /\ Go(th, Idle) /\ UnchangedData /\ UnchangedLocks
      /\ UNCHANGED <<txs, write_owner, stack_lock>>
    BY <1>1 DEF begin_push, CallShape
<1>3. writer' = th /\ (Len(stack[th]) > 0 => writer = th)
    <2>1. has_writer_tx_in_stack(stack[th]) <=> Len(stack[th]) > 0
        BY <1>1, WriterStack
    <2>2. writer' = IF Len(stack[th]) > 0 THEN writer ELSE th
        BY <1>2, <2>1 DEF begin_push
    <2>. QED BY <1>1, <2>2 DEF Owned
<1>4. /\ stack' \in [Thread -> Seq({FALSE})] /\ Len(stack'[th]) = Len(stack[th]) + 1
      /\ \A u \in Thread : u # th => stack'[u] = stack[u]
    <2>1. stack' = [stack EXCEPT ![th] = Append(@, FALSE)] /\ stack \in [Thread -> Seq({FALSE})]
        BY <1>2 DEF begin_push, DbInv, DbTypes
    <2>2. Append(stack[th], FALSE) \in Seq({FALSE}) /\ Len(Append(stack[th], FALSE)) = Len(stack[th]) + 1
        BY <1>1, AppendLast
    <2>. QED BY <2>1, <2>2
<1>5. \A u \in Thread : View(u)' = View(u)
    BY <1>2 DEF View, UnchangedData
<1>6. /\ DOMAIN call' = Thread /\ call'[th] = Idle /\ Idle.pc = "idle" /\ CallShape(Idle)
      /\ \A u \in Thread : u # th => call'[u] = call[u]
    BY <1>2, GoCall DEF DbInv, DbTypes, Idle, CallShape, Labels
<1>7. DbTypes'
    BY <1>2, <1>3, <1>4, <1>6 DEF DbInv, DbTypes, UnchangedData, UnchangedLocks
<1>8. Len(stack[th]) = 0 => writer = NoThread
    BY <1>2, WriterGone
<1>9. ASSUME NEW u \in Thread PROVE Nested(u)' /\ Owned(u)' /\ Fresh(u)'
    <2>1. Nested(u) /\ Owned(u) /\ Fresh(u) /\ Len(stack[u]) \in Nat
        BY ThreadState DEF DbInv
    <2>2. CASE u = th
        BY <1>1, <1>2, <1>3, <1>4, <1>6, <2>2, DbAssumption DEF Nested, Owned, Fresh, UnchangedLocks
    <2>3. CASE u # th
        <3>1. writer # u
            BY <1>1, <1>3, <1>8, <2>3, DbAssumption
        <3>2. Nested(u)' /\ Owned(u)'
            BY <1>2, <1>3, <1>4, <1>6, <2>1, <2>3, <3>1 DEF Nested, Owned, UnchangedLocks
        <3>3. Fresh(u)'
            BY <1>2, <1>4, <1>5, <1>6, <2>1, <2>3 DEF Fresh, UnchangedData
        <3>. QED BY <3>2, <3>3
    <2>. QED BY <2>2, <2>3
<1>10. CacheAgrees'
    <2>1. Current = View(th)
        BY <1>1, <1>2, <1>3, <1>8, DbAssumption DEF Current, Fresh
    <2>2. Current' = View(th)
        BY <1>3, <1>5, DbAssumption DEF Current
    <2>3. \A k \in Key : cache[k] # None => cache[k] = Current[k]
        BY <1>1, <1>2, <1>3, <1>8, DbAssumption DEF DbInv, CacheAgrees
    <2>. QED BY <1>2, <2>1, <2>2, <2>3 DEF CacheAgrees, UnchangedData
<1>11. ReaderConsistent'
    BY <1>2, <1>5, <1>6 DEF DbInv, DbTypes, ReaderConsistent, UnchangedLocks
<1>. QED BY <1>7, <1>9, <1>10, <1>11 DEF DbInv

(***************************************************************************)
(* Ending a transaction.                                                   *)
(***************************************************************************)

\* What the backend does with the writer's innermost transaction: it becomes the version of
\* the transaction around it, or what was committed last.
LEMMA BackendEnds ==
    ASSUME DbInv, NEW th \in Thread, call[th].pc = "backend", EndBackend(th)
    PROVE  /\ txs' \in [Thread -> Seq(Entry)] /\ Len(txs'[th]) + 1 = Len(txs[th])
           /\ \A u \in Thread : u # th => txs'[u] = txs[u]
           /\ db' \in Content
           /\ write_owner' = IF Len(txs'[th]) = 0 THEN NoThread ELSE write_owner
           /\ call[th].how = "commit" => View(th)' = View(th)
<1> DEFINE open == txs[th]
           top == Last(open)
           below == Front(open)
           inner == below # <<>> /\ ~Last(below).read_only
           keep == call[th].how = "commit"
           kept == [below EXCEPT ![Len(below)].view = top.view]
<1>1. /\ Nested(th) /\ open \in Seq(Entry) /\ Len(open) \in Nat /\ Len(stack[th]) \in Nat
      /\ txs \in [Thread -> Seq(Entry)] /\ db \in Content
    BY ThreadState DEF DbInv, DbTypes
<1>2. Len(open) > 0 /\ open # <<>>
    BY <1>1, EmptySeq DEF Nested
<1>3. top \in Entry /\ top.view = View(th) /\ top.view \in Content
    <2>1. top \in Entry
        BY <1>1, <1>2, LastType
    <2>2. top.view \in Content
        BY <2>1 DEF Entry
    <2>. QED BY <1>2, <2>1, <2>2 DEF View
<1>4. \A e \in Entry : ~e.read_only /\ e.count = 0
    <2>1. \A e \in Entry : e.read_only \in {FALSE} /\ e.count = 0
        BY DEF Entry
    <2>. QED BY <2>1, Zenon
<1>5. below \in Seq(Entry) /\ Len(below) = Len(open) - 1 /\ (below = <<>> <=> Len(open) = 1)
    BY <1>1, <1>2, FrontType
<1>6. inner <=> Len(below) > 0
    BY <1>1, <1>4, <1>5, LastType
<1>7. (\E i \in DOMAIN below : ~below[i].read_only) <=> Len(below) > 0
    <2>1. \A i \in 1..Len(below) : below[i] \in Entry
        BY <1>5, ElementOfSeq
    <2>2. DOMAIN below = 1..Len(below) /\ Len(below) \in Nat
        BY <1>5, LenProperties
    <2>3. Len(below) > 0 => 1 \in DOMAIN below
        BY <2>2
    <2>. QED BY <1>4, <2>1, <2>2, <2>3
<1>8. /\ txs' = [txs EXCEPT ![th] = IF keep /\ inner THEN kept ELSE below]
      /\ db' = IF keep /\ ~inner THEN top.view ELSE db
      /\ write_owner' = IF ~\E i \in DOMAIN below : ~below[i].read_only THEN NoThread ELSE write_owner
    BY <1>3, <1>4 DEF EndBackend
<1>9. Len(below) > 0 => kept \in Seq(Entry) /\ Len(kept) = Len(below)
                        /\ Last(kept).view = top.view /\ kept # <<>>
    BY <1>3, <1>5, LastView
<1> HIDE DEF kept, below, inner, top, keep
<1>10. txs' \in [Thread -> Seq(Entry)] /\ Len(txs'[th]) = Len(below)
       /\ txs'[th] = (IF keep /\ inner THEN kept ELSE below)
       /\ \A u \in Thread : u # th => txs'[u] = txs[u]
    BY <1>1, <1>5, <1>6, <1>8, <1>9
<1>11. keep => View(th)' = View(th)
    BY <1>1, <1>3, <1>5, <1>6, <1>8, <1>9, <1>10 DEF View
<1>. QED BY <1>1, <1>3, <1>5, <1>6, <1>7, <1>8, <1>10, <1>11 DEF keep

\* mdb_txn_commit or mdb_txn_abort: nobody reads, nobody else has a transaction.
LEMMA EndBackendStep == ASSUME DbInv, NEW th \in Thread, end_backend(th) PROVE DbInv'
<1>1. /\ CallShape(call[th]) /\ Nested(th) /\ Owned(th)
      /\ Len(txs[th]) \in Nat /\ Len(stack[th]) \in Nat
    BY ThreadState
<1>2. /\ call[th].pc = "backend" /\ stack_lock = NoThread /\ stack_lock' = th
      /\ EndBackend(th) /\ UnchangedLocks /\ UNCHANGED <<stack, writer, cache, size_cache>>
    BY DEF end_backend
<1>3. PICK how \in {"commit", "abort"} : call[th] = [pc |-> "backend", how |-> how]
    BY <1>1, <1>2 DEF CallShape
<1> DEFINE c == [pc |-> "pop", how |-> how]
<1>4. Go(th, c) /\ CallShape(c) /\ c.pc = "pop" /\ c.how = how
    BY <1>3 DEF end_backend, CallShape, Labels
<1> HIDE DEF c
<1>5. /\ DOMAIN call' = Thread
      /\ call'[th] = c
      /\ \A u \in Thread : u # th => call'[u] = call[u]
    BY <1>4, GoCall DEF DbInv, DbTypes
<1>6. /\ txs' \in [Thread -> Seq(Entry)] /\ Len(txs'[th]) + 1 = Len(txs[th])
      /\ \A u \in Thread : u # th => txs'[u] = txs[u]
      /\ db' \in Content
      /\ write_owner' = IF Len(txs'[th]) = 0 THEN NoThread ELSE write_owner
      /\ how = "commit" => View(th)' = View(th)
    BY <1>2, <1>3, BackendEnds
<1>7. Len(txs'[th]) \in Nat
    BY <1>6, LenProperties
<1>8. DbTypes'
    BY <1>2, <1>4, <1>5, <1>6 DEF DbInv, DbTypes, UnchangedLocks
<1>9. /\ write_owner = th /\ writer = th /\ readers = {}
      /\ Len(stack[th]) > 0 /\ (how = "abort" => Len(stack[th]) = 1)
    BY <1>1, <1>2, <1>3 DEF Nested, Owned
<1>10. ASSUME NEW u \in Thread PROVE Nested(u)' /\ Owned(u)' /\ Fresh(u)'
    <2>1. Nested(u) /\ Owned(u) /\ Len(txs[u]) \in Nat /\ Len(stack[u]) \in Nat
        BY ThreadState
    <2>2. CASE u = th
        BY <1>1, <1>2, <1>3, <1>4, <1>5, <1>6, <1>7, <1>9, <2>2, DbAssumption
        DEF Nested, Owned, Fresh, UnchangedLocks
    <2>3. CASE u # th
        <3>1. Len(txs[u]) = 0 /\ call[u].pc # "begin"
            BY <1>9, <2>1, <2>3 DEF Nested, Owned
        <3>2. Nested(u)' /\ Owned(u)'
            BY <1>2, <1>5, <1>6, <1>9, <2>1, <2>3, <3>1, DbAssumption DEF Nested, Owned, UnchangedLocks
        <3>. QED BY <1>5, <2>3, <3>1, <3>2 DEF Fresh
    <2>. QED BY <2>2, <2>3
<1>11. CacheAgrees'
    <2>1. CASE how = "abort"
        BY <1>2, <1>4, <1>5, <1>9, <2>1 DEF CacheAgrees
    <2>2. CASE how = "commit"
        <3>1. Current = View(th) /\ Current' = View(th)
            BY <1>2, <1>6, <1>9, <2>2, DbAssumption DEF Current
        <3>2. \A k \in Key : cache[k] # None => cache[k] = Current[k]
            BY <1>2, <1>9 DEF DbInv, CacheAgrees
        <3>. QED BY <1>2, <3>1, <3>2 DEF CacheAgrees
    <2>. QED BY <2>1, <2>2
<1>12. ReaderConsistent'
    BY <1>2, <1>9 DEF ReaderConsistent, UnchangedLocks
<1>. QED BY <1>8, <1>10, <1>11, <1>12 DEF DbInv

\* The accessor's stack follows, and the isolation of the cache ends with the outermost
\* transaction; an abort empties the cache.
LEMMA EndPop == ASSUME DbInv, NEW th \in Thread, end_pop(th) PROVE DbInv'
<1>1. /\ CallShape(call[th]) /\ Nested(th) /\ Owned(th) /\ txs[th] \in Seq(Entry)
      /\ stack[th] \in Seq({FALSE}) /\ Len(txs[th]) \in Nat /\ Len(stack[th]) \in Nat
      /\ InWriteTx(th) <=> Len(stack[th]) > 0
    BY ThreadState
<1>2. call[th].pc = "pop" /\ UnchangedLocks /\ UNCHANGED <<db, txs, write_owner, size_cache>>
      /\ stack' = [stack EXCEPT ![th] = Front(@)] /\ stack_lock' = NoThread
    BY DEF end_pop
<1>3. PICK how \in {"commit", "abort"} : call[th] = [pc |-> "pop", how |-> how]
    BY <1>1, <1>2 DEF CallShape
<1>4. /\ Len(stack[th]) > 0 /\ (how = "abort" => Len(stack[th]) = 1)
      /\ Len(txs[th]) + 1 = Len(stack[th])
      /\ writer = th /\ readers = {} /\ stack_lock = th
    BY <1>1, <1>2, <1>3 DEF Nested, Owned
<1>5. /\ Front(stack[th]) \in Seq({FALSE}) /\ Len(Front(stack[th])) = Len(stack[th]) - 1
      /\ has_writer_tx_in_stack(Front(stack[th])) <=> Len(stack[th]) > 1
    <2>1. Front(stack[th]) \in Seq({FALSE}) /\ Len(Front(stack[th])) = Len(stack[th]) - 1
        BY <1>1, <1>4, FrontType
    <2>. QED BY <1>1, <2>1, WriterStack
<1>6. /\ stack' \in [Thread -> Seq({FALSE})] /\ Len(stack'[th]) = Len(stack[th]) - 1
      /\ \A u \in Thread : u # th => stack'[u] = stack[u]
    BY <1>2, <1>5 DEF DbInv, DbTypes
<1>7. /\ writer' = IF Len(stack[th]) = 1 THEN NoThread ELSE th
      /\ cache' = IF how = "abort" THEN Empty ELSE cache
      /\ Go(th, [pc |-> "unlock"])
    <2> DEFINE last == InWriteTx(th) /\ ~has_writer_tx_in_stack(Front(stack[th]))
    <2>1. InWriteTx(th) /\ (last <=> Len(stack[th]) = 1)
        <3>1. InWriteTx(th)
            BY <1>1, <1>4
        <3>2. Len(stack[th]) = 1 <=> ~(Len(stack[th]) > 1)
            <4>1. \A n \in Nat : n > 0 => (n = 1 <=> ~(n > 1))
                OBVIOUS
            <4>2. Len(stack[th]) \in Nat /\ Len(stack[th]) > 0
                BY <1>1, <1>4
            <4>. QED BY <4>1, <4>2
        <3>. QED BY <1>5, <3>1, <3>2
    <2>2. /\ writer' = IF last THEN NoThread ELSE writer
          /\ cache' = IF last /\ call[th].how = "abort" THEN Empty ELSE cache
          /\ Go(th, IF InWriteTx(th) THEN [pc |-> "unlock"] ELSE Idle)
        BY DEF end_pop
    <2>3. call[th].how = how
        BY <1>3
    <2> HIDE DEF last
    <2>. QED BY <1>4, <2>1, <2>2, <2>3
<1>8. /\ DOMAIN call' = Thread /\ call'[th] = [pc |-> "unlock"] /\ CallShape([pc |-> "unlock"])
      /\ \A u \in Thread : u # th => call'[u] = call[u]
    BY <1>7, GoCall DEF DbInv, DbTypes, CallShape, Labels
<1>9. Empty \in Content /\ \A k \in Key : Empty[k] = None
    BY DEF Empty, Content
<1>10. DbTypes'
    BY <1>2, <1>6, <1>7, <1>8, <1>9 DEF DbInv, DbTypes, UnchangedLocks
<1>11. \A u \in Thread : View(u)' = View(u)
    BY <1>2 DEF View
<1>12. ASSUME NEW u \in Thread PROVE Nested(u)' /\ Owned(u)' /\ Fresh(u)'
    <2>1. Nested(u) /\ Owned(u) /\ Fresh(u)
        BY DEF DbInv
    <2>2. CASE u = th
        <3>1. call'[th].pc = "unlock"
            BY <1>8
        <3>2. Nested(th)' /\ Fresh(th)'
            BY <1>2, <1>4, <1>6, <3>1 DEF Nested, Fresh
        <3>3. writer' = th <=> Len(stack'[th]) > 0
            <4>1. Len(stack'[th]) > 0 <=> Len(stack[th]) # 1
                <5>1. \A n \in Nat : n > 0 => (n - 1 > 0 <=> n # 1)
                    OBVIOUS
                <5>2. Len(stack[th]) \in Nat /\ Len(stack[th]) > 0
                    BY <1>1, <1>4
                <5>. QED BY <1>6, <5>1, <5>2
            <4>. QED BY <1>7, <4>1, DbAssumption
        <3>4. Owned(th)'
            BY <1>1, <1>2, <1>4, <3>1, <3>3, DbAssumption DEF Owned, UnchangedLocks
        <3>. QED BY <2>2, <3>2, <3>4
    <2>3. CASE u # th
        <3>1. Nested(u)' /\ Owned(u)'
            BY <1>2, <1>4, <1>6, <1>7, <1>8, <2>1, <2>3, DbAssumption DEF Nested, Owned, UnchangedLocks
        <3>2. Fresh(u)'
            BY <1>2, <1>6, <1>8, <1>11, <2>1, <2>3 DEF Fresh
        <3>. QED BY <3>1, <3>2
    <2>. QED BY <2>2, <2>3
<1>13. CacheAgrees'
    <2>1. CASE how = "abort"
        BY <1>7, <1>9, <2>1 DEF CacheAgrees
    <2>2. CASE how = "commit"
        <3>1. \A k \in Key : cache[k] # None => cache[k] = Current[k]
            BY <1>3, <1>4, <2>2 DEF DbInv, CacheAgrees
        <3>2. Current = View(th)
            BY <1>4, DbAssumption DEF Current
        <3>3. CASE Len(stack[th]) = 1
            <4>1. txs[th] = <<>>
                BY <1>1, <1>4, <3>3, EmptySeq
            <4>2. Current' = View(th)
                BY <1>2, <1>7, <3>3, <4>1 DEF Current, View
            <4>. QED BY <1>7, <2>2, <3>1, <3>2, <4>2 DEF CacheAgrees
        <3>4. CASE Len(stack[th]) # 1
            <4>1. Current' = View(th)
                BY <1>7, <1>11, <3>4, DbAssumption DEF Current
            <4>. QED BY <1>7, <2>2, <3>1, <3>2, <4>1 DEF CacheAgrees
        <3>. QED BY <3>3, <3>4
    <2>. QED BY <2>1, <2>2
<1>14. ReaderConsistent'
    BY <1>2, <1>4 DEF ReaderConsistent, UnchangedLocks
<1>. QED BY <1>10, <1>12, <1>13, <1>14 DEF DbInv

(***************************************************************************)
(* The invariant, and what it gives.                                       *)
(***************************************************************************)

\* The database starts empty, with no transaction and no lock held.
LEMMA DbInit == ASSUME Init PROVE DbInv
<1>1. Empty \in Content /\ \A k \in Key : Empty[k] = None
    BY DEF Empty, Content
<1>2. Cardinality(Key) \in Nat
    BY DbAssumption, FS_CardinalityType
<1>3. CallShape(Idle) /\ Idle.pc = "idle"
    BY DEF CallShape, Labels, Idle
<1>4. \A S : <<>> \in Seq(S) /\ Len(<<>>) = 0
    BY EmptySeq
<1>5. DbTypes
    BY <1>1, <1>2, <1>3, <1>4 DEF Init, DbTypes
<1>6. \A th \in Thread : Nested(th) /\ Owned(th) /\ Fresh(th)
    BY <1>3, <1>4, DbAssumption DEF Init, Nested, Owned, Fresh
<1>7. CacheAgrees /\ ReaderConsistent
    BY <1>1 DEF Init, CacheAgrees, ReaderConsistent
<1>. QED BY <1>5, <1>6, <1>7 DEF DbInv

\* Every step of every thread keeps the invariant.
LEMMA DbStep == ASSUME DbInv, [Next]_vars PROVE DbInv'
<1>1. CASE UNCHANGED vars
    <2>1. CacheAgrees' /\ ReaderConsistent'
        BY <1>1 DEF DbInv, vars, CacheAgrees, ReaderConsistent, Current, View
    <2>2. DbTypes'
        BY <1>1 DEF DbInv, DbTypes, vars
    <2>3. \A th \in Thread : Nested(th)' /\ Owned(th)' /\ Fresh(th)'
        BY <1>1 DEF DbInv, Nested, Owned, Fresh, View, vars
    <2>. QED BY <2>1, <2>2, <2>3 DEF DbInv
<1>2. ASSUME NEW th \in Thread, Step(th) PROVE DbInv'
    <2>1. CASE Continue(th)
        BY <2>1, BeginPush, WaitStep, EndBackendStep, EndPop, UnlockStep, GetDbStep, FillStep,
           CallEnds DEF Continue
    <2>2. CASE WriteStep(th)
        BY <2>2, WriteStepKeeps
    <2>3. CASE begin_backend(th, FALSE)
        BY <2>3, BeginBackend
    <2>4. CASE commit_transaction(th) \/ abort_transaction(th)
        BY <2>4, EndStep DEF commit_transaction, abort_transaction
    <2>5. CASE lock_shared(th) \/ unlock_shared(th)
        BY <2>5, ReadersStep
    <2>6. CASE ReadLocked(th)
        BY <2>6, SizeStep, GetStep DEF ReadLocked
    <2>7. CASE have_block(th)
        BY <2>7, CallEnds
    <2>8. CASE take_alt_lock(th) \/ release_alt_lock(th)
        BY <2>8, SizeStep
    <2>. QED BY <1>2, <2>1, <2>2, <2>3, <2>4, <2>5, <2>6, <2>7, <2>8 DEF Step
<1>. QED BY <1>1, <1>2 DEF Next

\* The invariant holds in every state of the blockchain's database.
THEOREM DbInvariant == Spec => []DbInv
BY DbInit, DbStep, PTL DEF Spec

\* "Isolation mode already enabled for cache" is never thrown: the next writer finds the
\* isolation switched off, although the backend has let it in before that.
THEOREM IsolationHolds == Spec => []IsolationExclusive
<1>1. DbInv => IsolationExclusive
    <2>1. SUFFICES ASSUME DbInv, NEW th \in Thread
                   PROVE  /\ (call[th].pc = "begin" /\ stack_lock = NoThread /\ ~call[th].readonly
                                 /\ ~has_writer_tx_in_stack(stack[th])) => writer = NoThread
                          /\ call[th].pc = "pop" /\ InWriteTx(th) => writer = th
        BY DEF IsolationExclusive
    <2>2. Owned(th) /\ stack[th] \in Seq({FALSE}) /\ Len(stack[th]) \in Nat
          /\ (InWriteTx(th) <=> Len(stack[th]) > 0)
        BY <2>1, ThreadState
    <2>3. has_writer_tx_in_stack(stack[th]) <=> Len(stack[th]) > 0
        BY <2>2, WriterStack
    <2>. QED BY <2>1, <2>2, <2>3, WriterGone DEF Owned
<1>. QED BY <1>1, DbInvariant, PTL

\* The cache serves nothing that its owner would not find in the database: neither an aborted
\* write, nor what a reader looked up before a commit.
THEOREM CacheIsCoherent == Spec => []CacheCoherent
<1>1. DbInv => CacheCoherent
    BY DbAssumption DEF DbInv, CacheAgrees, CacheCoherent, Current
<1>. QED BY <1>1, DbInvariant, PTL

\* What a reader got remains what the database holds while it keeps m_read_lock.
THEOREM ReadersConsistent == Spec => []ReaderConsistent
<1>1. DbInv => ReaderConsistent
    BY DEF DbInv
<1>. QED BY <1>1, DbInvariant, PTL

\* Type correctness; a thread in no call has as many transactions in the accessor's stack as
\* in the backend.
THEOREM TypeCorrect == Spec => []TypeOK
<1>1. ASSUME DbInv PROVE TypeOK
    <2>1. ASSUME NEW th \in Thread, NEW i \in DOMAIN txs[th]
          PROVE  txs[th][i] \in [read_only : BOOLEAN, count : 0..MaxNesting, view : Content]
        <3>1. txs[th][i] \in Entry
            BY <1>1, <2>1, ThreadState, ElementOfSeq, LenProperties
        <3>2. 0 \in 0..MaxNesting
            BY DbAssumption
        <3>. QED BY <3>1, <3>2 DEF Entry
    <2>2. ASSUME NEW th \in Thread, NEW i \in DOMAIN stack[th] PROVE stack[th][i] \in BOOLEAN
        <3>1. stack[th][i] \in {FALSE}
            BY <1>1, <2>2, ThreadState, ElementOfSeq, LenProperties
        <3>. QED BY <3>1
    <2>3. ASSUME NEW th \in Thread
          PROVE  /\ call[th].pc \in Labels
                 /\ call[th].pc = "idle" => (stack[th] = <<>> <=> txs[th] = <<>>)
        <3>1. /\ CallShape(call[th]) /\ Nested(th)
              /\ txs[th] \in Seq(Entry) /\ stack[th] \in Seq({FALSE})
            BY <1>1, ThreadState
        <3>. QED BY <3>1, EmptySeq DEF CallShape, Nested
    <2>4. /\ size_cache.size \in 0..Cardinality(Key) /\ size_cache.valid \in BOOLEAN
          /\ db \in Content /\ cache \in Content /\ readers \subseteq Thread
          /\ {write_owner, stack_lock, writer, exclusive, alt_lock} \subseteq Thread \cup {NoThread}
        BY <1>1 DEF DbInv, DbTypes
    <2>. QED BY <2>1, <2>2, <2>3, <2>4 DEF TypeOK, Labels
<1>. QED BY <1>1, DbInvariant, PTL

(***************************************************************************)
(* The pool's database.  Its threads also open read-only transactions,     *)
(* alone, inside a write transaction and around one.  The backend counts   *)
(* a read-only transaction in the entry around it, the accessor's stack    *)
(* has an item for each: the invariant relates the two, so that both agree *)
(* on who is a writer.                                                     *)
(***************************************************************************)

PoolEntry  == [read_only : BOOLEAN, count : Nat, view : Content]
PoolLabels == {"idle", "begin", "wait", "backend", "pop", "unlock", "miss", "fill", "got"}

\* the fields of a call; nothing is aborted
PoolShape(c) ==
    /\ c.pc \in PoolLabels
    /\ c.pc = "begin" => c.readonly \in BOOLEAN
    /\ c.pc \in {"wait", "backend", "pop"} => c = [pc |-> c.pc, how |-> "commit"]
    /\ c.pc = "miss" => c.key \in Key
    /\ c.pc \in {"fill", "got"} =>
          \E k \in Key, v \in Value \cup {None} : c = [pc |-> c.pc, key |-> k, res |-> v]

\* how many items of the accessor's stack an entry of the backend stands for
Width(e) == IF e.read_only THEN e.count ELSE e.count + 1

\* g[j] is the item of the accessor's stack, of m items, at which the backend's entry j, of n,
\* begins; it goes on until the next one begins.
Starts(g, n, m) ==
    /\ g \in [1..(n + 1) -> Nat]
    /\ g[1] = 1 /\ g[n + 1] = m + 1
    /\ \A j, k \in 1..(n + 1) : j < k => g[j] < g[k]

\* A write transaction is one that begins an entry which is not read-only.
AlignedBy(g, s, t) ==
    /\ Starts(g, Len(t), Len(s))
    /\ \A j \in 1..Len(t) : g[j + 1] = g[j] + Width(t[j])
    /\ \A i \in 1..Len(s) : ~s[i] <=> \E j \in 1..Len(t) : g[j] = i /\ ~t[j].read_only

Aligned(s, t) == \E g : AlignedBy(g, s, t)

\* The accessor's stack as it is when the call that is changing it has ended.
Booked(th) ==
    CASE call[th].pc = "begin" -> Append(stack[th], call[th].readonly)
      [] call[th].pc = "pop"   -> Front(stack[th])
      [] OTHER                 -> stack[th]

HasWrite(t) == \E i \in DOMAIN t : ~t[i].read_only

PoolTypes ==
    /\ db \in Content /\ cache \in Content
    /\ txs \in [Thread -> Seq(PoolEntry)]
    /\ stack \in [Thread -> Seq(BOOLEAN)]
    /\ write_owner \in Thread \cup {NoThread}
    /\ stack_lock \in Thread \cup {NoThread}
    /\ writer \in Thread \cup {NoThread}
    /\ exclusive \in Thread \cup {NoThread}
    /\ alt_lock = NoThread /\ readers = {}
    /\ size_cache \in [valid : BOOLEAN, size : 0..Cardinality(Key)]
    /\ DOMAIN call = Thread
    /\ \A th \in Thread : PoolShape(call[th])

\* Whose the backend's write lock, the isolation of the cache and the lock of the stack are.
PoolOwned(th) ==
    /\ write_owner = th <=> HasWrite(txs[th])
    /\ writer = th <=> has_writer_tx_in_stack(stack[th])
    /\ stack_lock = th <=> call[th].pc = "pop"
    /\ call[th].pc \in {"wait", "backend", "pop"} => Len(stack[th]) > 0
    /\ Len(Booked(th)) <= MaxNesting
    /\ Aligned(Booked(th), txs[th])

PoolInv == PoolTypes /\ \A th \in Thread : PoolOwned(th)

\* Every entry begins at an item of the stack.
LEMMA StartsRange ==
    ASSUME NEW n \in Nat, NEW m \in Nat, NEW g, Starts(g, n, m)
    PROVE  \A j \in 1..n : g[j] \in 1..m
<1>1. SUFFICES ASSUME NEW j \in 1..n PROVE g[j] \in 1..m
    OBVIOUS
<1>2. 1 \in 1..(n + 1) /\ j \in 1..(n + 1) /\ n + 1 \in 1..(n + 1) /\ j < n + 1
    OBVIOUS
<1>3. g[j] \in Nat /\ g[j] < m + 1 /\ (1 < j => 1 < g[j]) /\ (j = 1 => g[j] = 1)
    BY <1>2 DEF Starts
<1>. QED BY <1>3

\* The end of the last entry moves.
LEMMA StartsMove ==
    ASSUME NEW n \in Nat, n > 0, NEW m \in Nat, NEW g, Starts(g, n, m),
           NEW p \in Nat, g[n] <= p,
           NEW h \in [1..(n + 1) -> Nat], h[n + 1] = p + 1, \A j \in 1..n : h[j] = g[j]
    PROVE  Starts(h, n, p)
<1>1. g \in [1..(n + 1) -> Nat] /\ \A j, k \in 1..(n + 1) : j < k => g[j] < g[k]
    BY DEF Starts
<1>2. h \in [1..(n + 1) -> Nat] /\ h[n + 1] = p + 1 /\ \A j \in 1..n : h[j] = g[j]
    OBVIOUS
<1>3. ASSUME NEW j \in 1..n PROVE g[j] <= g[n] /\ g[j] \in Nat
    <2>1. j \in 1..(n + 1) /\ n \in 1..(n + 1) /\ (j = n \/ j < n)
        OBVIOUS
    <2>2. g[j] \in Nat /\ g[n] \in Nat /\ (j < n => g[j] < g[n])
        BY <1>1, <2>1
    <2>. QED BY <2>1, <2>2
<1>4. ASSUME NEW j \in 1..(n + 1), NEW k \in 1..(n + 1), j < k PROVE h[j] < h[k]
    <2>1. j \in 1..n /\ (k \in 1..n \/ k = n + 1)
        BY <1>4
    <2>2. CASE k \in 1..n
        BY <1>1, <1>2, <1>4, <2>1, <2>2
    <2>3. CASE k = n + 1
        <3>1. h[j] = g[j] /\ g[j] <= g[n] /\ g[j] \in Nat /\ g[n] \in Nat
            BY <1>2, <1>3, <2>1
        <3>. QED BY <1>2, <2>3, <3>1
    <2>. QED BY <2>1, <2>2, <2>3
<1>5. h[1] = 1
    BY <1>2 DEF Starts
<1>6. Starts(h, n, p)
    BY <1>2, <1>4, <1>5 DEF Starts
<1>. QED BY <1>6

\* An entry of one item is added.
LEMMA StartsAdd ==
    ASSUME NEW n \in Nat, NEW m \in Nat, NEW g, Starts(g, n, m),
           NEW h \in [1..(n + 2) -> Nat], h[n + 2] = m + 2,
           \A j \in 1..(n + 1) : h[j] = g[j]
    PROVE  Starts(h, n + 1, m + 1)
<1>1. /\ g \in [1..(n + 1) -> Nat] /\ g[1] = 1 /\ g[n + 1] = m + 1
      /\ \A j, k \in 1..(n + 1) : j < k => g[j] < g[k]
    BY DEF Starts
<1>2. /\ h \in [1..((n + 1) + 1) -> Nat] /\ h[n + 2] = m + 2
      /\ \A j \in 1..(n + 1) : h[j] = g[j]
    OBVIOUS
<1>3. ASSUME NEW j \in 1..(n + 1) PROVE g[j] <= m + 1 /\ g[j] \in Nat
    <2>1. g[j] \in Nat /\ n + 1 \in 1..(n + 1) /\ (j = n + 1 \/ j < n + 1)
        BY <1>1
    <2>2. CASE j = n + 1
        BY <1>1, <2>1, <2>2
    <2>3. CASE j < n + 1
        <3>1. g[j] < m + 1
            BY <1>1, <2>1, <2>3
        <3>. QED BY <2>1, <3>1
    <2>. QED BY <2>1, <2>2, <2>3
<1>4. ASSUME NEW j \in 1..((n + 1) + 1), NEW k \in 1..((n + 1) + 1), j < k PROVE h[j] < h[k]
    <2>1. j \in 1..(n + 1) /\ (k \in 1..(n + 1) \/ k = n + 2)
        BY <1>4
    <2>2. CASE k \in 1..(n + 1)
        BY <1>1, <1>2, <1>4, <2>1, <2>2
    <2>3. CASE k = n + 2
        <3>1. h[j] = g[j] /\ g[j] <= m + 1 /\ g[j] \in Nat
            BY <1>2, <1>3, <2>1
        <3>. QED BY <1>2, <2>3, <3>1
    <2>. QED BY <2>1, <2>2, <2>3
<1>5. h[1] = 1 /\ h[(n + 1) + 1] = (m + 1) + 1
    BY <1>1, <1>2
<1>6. Starts(h, n + 1, m + 1)
    BY <1>2, <1>4, <1>5 DEF Starts
<1>. QED BY <1>6

\* The last entry is removed.
LEMMA StartsDrop ==
    ASSUME NEW n \in Nat, n > 0, NEW m \in Nat, NEW g, Starts(g, n, m),
           NEW h \in [1..n -> Nat], \A j \in 1..n : h[j] = g[j]
    PROVE  Starts(h, n - 1, g[n] - 1)
<1>1. /\ g \in [1..(n + 1) -> Nat] /\ g[1] = 1
      /\ \A j, k \in 1..(n + 1) : j < k => g[j] < g[k]
    BY DEF Starts
<1>2. (n - 1) + 1 = n /\ n \in 1..(n + 1) /\ 1 \in 1..n
    OBVIOUS
<1>3. h \in [1..n -> Nat] /\ \A j \in 1..n : h[j] = g[j]
    OBVIOUS
<1>4. \A j, k \in 1..n : j < k => h[j] < h[k]
    BY <1>1, <1>3
<1>5. g[n] \in Nat /\ (g[n] - 1) + 1 = g[n]
    BY <1>1, <1>2
<1>6. Starts(h, n - 1, g[n] - 1)
    BY <1>1, <1>2, <1>3, <1>4, <1>5 DEF Starts
<1>. QED BY <1>6

\* The last entry counts items more, which are read-only, or less.
LEMMA EntryCounts ==
    ASSUME NEW s, NEW s2, NEW t, NEW n, Aligned(s, t),
           Len(s) \in Nat, Len(s2) \in Nat, Len(t) \in Nat, Len(t) > 0, Len(n) = Len(t),
           Width(t[Len(t)]) \in Nat, Width(n[Len(t)]) \in Nat, Width(n[Len(t)]) > 0,
           Len(s2) + Width(t[Len(t)]) = Len(s) + Width(n[Len(t)])
    PROVE  (/\ \A j \in 1..Len(t) : n[j].read_only = t[j].read_only
            /\ \A j \in 1..Len(t) : j # Len(t) => n[j] = t[j]
            /\ \A i \in 1..Len(s2) : (i \in 1..Len(s) /\ s2[i] = s[i]) \/ (i > Len(s) /\ s2[i]))
           => Aligned(s2, n)
<1>1. SUFFICES ASSUME \A j \in 1..Len(t) : n[j].read_only = t[j].read_only,
                      \A j \in 1..Len(t) : j # Len(t) => n[j] = t[j],
                      \A i \in 1..Len(s2) : (i \in 1..Len(s) /\ s2[i] = s[i]) \/ (i > Len(s) /\ s2[i])
               PROVE  Aligned(s2, n)
    OBVIOUS
<1>2. PICK g : AlignedBy(g, s, t)
    BY DEF Aligned
<1> DEFINE N == Len(t)
           h == [g EXCEPT ![N + 1] = Len(s2) + 1]
<1>3. N \in Nat /\ N > 0 /\ N \in 1..N /\ N = Len(t) /\ N = Len(n)
    OBVIOUS
<1> HIDE DEF N
<1>5. /\ Starts(g, N, Len(s)) /\ \A j \in 1..N : g[j + 1] = g[j] + Width(t[j])
      /\ \A i \in 1..Len(s) : ~s[i] <=> \E j \in 1..N : g[j] = i /\ ~t[j].read_only
    BY <1>2, <1>3 DEF AlignedBy
<1>6. \A j \in 1..N : g[j] \in 1..Len(s)
    BY <1>3, <1>5, StartsRange
<1>7. g[N] \in Nat /\ Len(s2) + 1 = g[N] + Width(n[N]) /\ g[N] <= Len(s2)
    <2>1. \A a, b, c, d, e \in Nat :
             (e > 0 /\ a + d = b + e /\ b + 1 = c + d) => (a + 1 = c + e /\ c <= a)
        OBVIOUS
    <2>2. Len(s2) + Width(t[N]) = Len(s) + Width(n[N])
        BY <1>3
    <2>3. Len(s) + 1 = g[N] + Width(t[N])
        BY <1>3, <1>5 DEF Starts
    <2>4. /\ Len(s2) \in Nat /\ Len(s) \in Nat /\ g[N] \in Nat
          /\ Width(t[N]) \in Nat /\ Width(n[N]) \in Nat /\ Width(n[N]) > 0
        BY <1>3, <1>6
    <2>. QED BY <2>1, <2>2, <2>3, <2>4
<1>4. /\ h \in [1..(N + 1) -> Nat] /\ h[N + 1] = Len(s2) + 1
      /\ \A j \in 1..N : h[j] = g[j]
    <2>1. g \in [1..(N + 1) -> Nat] /\ N + 1 \in 1..(N + 1)
        BY <1>3, <1>5 DEF Starts
    <2>2. Len(s2) + 1 \in Nat /\ \A j \in 1..N : j \in 1..(N + 1) /\ j # N + 1
        BY <1>3
    <2>. QED BY <2>1, <2>2
<1> HIDE DEF h
<1>8. Starts(h, N, Len(s2)) /\ (\A j \in 1..N : h[j] = g[j])
    <2>1. N \in Nat /\ N > 0 /\ Starts(g, N, Len(s)) /\ g[N] <= Len(s2)
        BY <1>3, <1>5, <1>7
    <2>2. Starts(h, N, Len(s2))
        BY <1>4, <2>1, StartsMove, Zenon
    <2>. QED BY <1>4, <2>2
<1>9. h[N + 1] = Len(s2) + 1
    BY <1>8 DEF Starts
<1>10. ASSUME NEW j \in 1..N PROVE h[j + 1] = h[j] + Width(n[j])
    <2>1. CASE j = N
        BY <1>3, <1>7, <1>8, <1>9, <2>1
    <2>2. CASE j # N
        <3>1. j + 1 \in 1..N
            BY <1>3, <2>2
        <3>2. n[j] = t[j]
            BY <1>1, <1>3, <2>2
        <3>. QED BY <1>5, <1>8, <3>1, <3>2
    <2>. QED BY <2>1, <2>2
<1>11. ASSUME NEW i \in 1..Len(s2)
       PROVE  ~s2[i] <=> \E j \in 1..N : h[j] = i /\ ~n[j].read_only
    <2>1. \A j \in 1..N : n[j].read_only = t[j].read_only
        BY <1>1, <1>3
    <2>2. CASE i \in 1..Len(s) /\ s2[i] = s[i]
        <3>1. ~s[i] <=> \E j \in 1..N : g[j] = i /\ ~t[j].read_only
            BY <1>5, <2>2
        <3>2. ASSUME NEW j \in 1..N
              PROVE  (h[j] = i /\ ~n[j].read_only) <=> (g[j] = i /\ ~t[j].read_only)
            BY <1>8, <2>1
        <3>3. ~s[i] <=> \E j \in 1..N : h[j] = i /\ ~n[j].read_only
            BY <3>1, <3>2, Zenon
        <3>. QED BY <2>2, <3>3
    <2>3. CASE i > Len(s) /\ s2[i]
        <3>1. \A j \in 1..N : g[j] # i
            <4>1. \A m \in Nat : \A x \in 1..m : i > m => x # i
                OBVIOUS
            <4>. QED BY <1>6, <2>3, <4>1
        <3>. QED BY <1>8, <2>3, <3>1, Zenon
    <2>. QED BY <1>1, <2>2, <2>3
<1>12. AlignedBy(h, s2, n)
    BY <1>3, <1>8, <1>10, <1>11 DEF AlignedBy
<1>. QED BY <1>12 DEF Aligned

\* An entry of one item is added.
LEMMA EntryAdded ==
    ASSUME NEW s, NEW s2, NEW t, NEW n, Aligned(s, t),
           Len(s) \in Nat, Len(t) \in Nat, Len(s2) = Len(s) + 1, Len(n) = Len(t) + 1,
           Width(n[Len(t) + 1]) = 1, s2[Len(s) + 1] = n[Len(t) + 1].read_only
    PROVE  (/\ \A j \in 1..Len(t) : n[j] = t[j]
            /\ \A i \in 1..Len(s) : s2[i] = s[i]) => Aligned(s2, n)
<1>1. SUFFICES ASSUME \A j \in 1..Len(t) : n[j] = t[j], \A i \in 1..Len(s) : s2[i] = s[i]
               PROVE  Aligned(s2, n)
    OBVIOUS
<1>2. PICK g : AlignedBy(g, s, t)
    BY DEF Aligned
<1> DEFINE N == Len(t)
           m == Len(s)
           h == [j \in 1..(N + 2) |-> IF j = N + 2 THEN m + 2 ELSE g[j]]
<1>3. /\ N \in Nat /\ m \in Nat /\ N = Len(t) /\ m = Len(s)
      /\ Len(n) = N + 1 /\ Len(s2) = m + 1
    OBVIOUS
<1> HIDE DEF N, m
<1>5. /\ Starts(g, N, m) /\ \A j \in 1..N : g[j + 1] = g[j] + Width(t[j])
      /\ \A i \in 1..m : ~s[i] <=> \E j \in 1..N : g[j] = i /\ ~t[j].read_only
    BY <1>2, <1>3 DEF AlignedBy
<1>6. g[N + 1] = m + 1 /\ \A j \in 1..N : g[j] \in 1..m
    BY <1>3, <1>5, StartsRange DEF Starts
<1>4. /\ h \in [1..(N + 2) -> Nat] /\ h[N + 2] = m + 2
      /\ \A j \in 1..(N + 1) : h[j] = g[j]
    <2>1. g \in [1..(N + 1) -> Nat]
        BY <1>5 DEF Starts
    <2>2. /\ m + 2 \in Nat /\ N + 2 \in 1..(N + 2)
          /\ \A j \in 1..(N + 2) : j # N + 2 => j \in 1..(N + 1)
          /\ \A j \in 1..(N + 1) : j \in 1..(N + 2) /\ j # N + 2
        BY <1>3
    <2>. QED BY <2>1, <2>2
<1> HIDE DEF h
<1>7. Starts(h, N + 1, m + 1) /\ (\A j \in 1..(N + 1) : h[j] = g[j]) /\ h[N + 2] = m + 2
    <2>1. N \in Nat /\ m \in Nat /\ Starts(g, N, m)
        BY <1>3, <1>5
    <2>2. Starts(h, N + 1, m + 1)
        BY <1>4, <2>1, StartsAdd, Zenon
    <2>. QED BY <1>4, <2>2
<1>8. ASSUME NEW j \in 1..(N + 1) PROVE h[j + 1] = h[j] + Width(n[j])
    <2>1. CASE j = N + 1
        <3>1. h[j] = m + 1 /\ h[j + 1] = m + 2 /\ Width(n[j]) = 1
            BY <1>3, <1>6, <1>7, <2>1
        <3>. QED BY <1>3, <3>1
    <2>2. CASE j # N + 1
        <3>1. j \in 1..N /\ j + 1 \in 1..(N + 1)
            BY <1>3, <2>2
        <3>2. n[j] = t[j]
            BY <1>1, <1>3, <3>1
        <3>. QED BY <1>5, <1>7, <3>1, <3>2
    <2>. QED BY <2>1, <2>2
<1>9. ASSUME NEW i \in 1..(m + 1)
      PROVE  ~s2[i] <=> \E j \in 1..(N + 1) : h[j] = i /\ ~n[j].read_only
    <2>1. N + 1 \in 1..(N + 1) /\ \A j \in 1..(N + 1) : j \in 1..N \/ j = N + 1
        BY <1>3
    <2>2. CASE i = m + 1
        <3>1. \A j \in 1..N : g[j] # i
            BY <1>3, <1>6, <2>2
        <3>2. \A j \in 1..(N + 1) : h[j] = i => j = N + 1
            BY <1>7, <2>1, <3>1
        <3>3. h[N + 1] = i
            BY <1>6, <1>7, <2>1, <2>2
        <3>4. s2[i] = n[N + 1].read_only
            BY <1>3, <2>2
        <3>. QED BY <2>1, <3>2, <3>3, <3>4, Zenon
    <2>3. CASE i # m + 1
        <3>1. i \in 1..m
            BY <1>3, <2>3
        <3>2. s2[i] = s[i] /\ \A j \in 1..N : n[j] = t[j]
            BY <1>1, <1>3, <3>1
        <3>3. h[N + 1] # i
            BY <1>6, <1>7, <2>1, <2>3
        <3>4. \A j \in 1..N : j \in 1..(N + 1)
            BY <1>3
        <3>. QED BY <1>5, <1>7, <2>1, <3>1, <3>2, <3>3, <3>4, Zenon
    <2>. QED BY <2>2, <2>3
<1>10. AlignedBy(h, s2, n)
    BY <1>3, <1>7, <1>8, <1>9 DEF AlignedBy
<1>. QED BY <1>10 DEF Aligned

\* The last entry, of one item, is removed.
LEMMA EntryRemoved ==
    ASSUME NEW s, NEW s2, NEW t, NEW n, Aligned(s, t),
           Len(s) \in Nat, Len(t) \in Nat, Len(t) > 0,
           Len(s2) = Len(s) - 1, Len(n) = Len(t) - 1, Width(t[Len(t)]) = 1
    PROVE  (/\ \A j \in 1..(Len(t) - 1) : n[j] = t[j]
            /\ \A i \in 1..(Len(s) - 1) : s2[i] = s[i]) => Aligned(s2, n)
<1>1. SUFFICES ASSUME \A j \in 1..(Len(t) - 1) : n[j] = t[j],
                      \A i \in 1..(Len(s) - 1) : s2[i] = s[i]
               PROVE  Aligned(s2, n)
    OBVIOUS
<1>2. PICK g : AlignedBy(g, s, t)
    BY DEF Aligned
<1> DEFINE N == Len(t)
           m == Len(s)
           h == [j \in 1..N |-> g[j]]
<1>3. /\ N \in Nat /\ N > 0 /\ N \in 1..N /\ m \in Nat /\ N = Len(t) /\ m = Len(s)
      /\ Len(n) = N - 1 /\ Len(s2) = m - 1
    OBVIOUS
<1> HIDE DEF N, m
<1>5. /\ Starts(g, N, m) /\ \A j \in 1..N : g[j + 1] = g[j] + Width(t[j])
      /\ \A i \in 1..m : ~s[i] <=> \E j \in 1..N : g[j] = i /\ ~t[j].read_only
    BY <1>2, <1>3 DEF AlignedBy
<1>6. g[N] = m
    <2>1. g[N] \in 1..m /\ g[N + 1] = m + 1
        BY <1>3, <1>5, StartsRange DEF Starts
    <2>2. g[N + 1] = g[N] + 1
        BY <1>3, <1>5
    <2>. QED BY <1>3, <2>1, <2>2
<1>4. h \in [1..N -> Nat] /\ \A j \in 1..N : h[j] = g[j]
    <2>1. g \in [1..(N + 1) -> Nat] /\ \A j \in 1..N : j \in 1..(N + 1)
        BY <1>3, <1>5 DEF Starts
    <2>. QED BY <2>1
<1> HIDE DEF h
<1>7. Starts(h, N - 1, m - 1) /\ (\A j \in 1..N : h[j] = g[j])
    <2>1. N \in Nat /\ N > 0 /\ m \in Nat /\ Starts(g, N, m)
        BY <1>3, <1>5
    <2>2. Starts(h, N - 1, g[N] - 1)
        BY <1>4, <2>1, StartsDrop, Zenon
    <2>. QED BY <1>4, <1>6, <2>2
<1>8. ASSUME NEW j \in 1..(N - 1) PROVE h[j + 1] = h[j] + Width(n[j])
    <2>1. j \in 1..N /\ j + 1 \in 1..N
        BY <1>3
    <2>2. n[j] = t[j]
        BY <1>1, <1>3
    <2>. QED BY <1>5, <1>7, <2>1, <2>2
<1>9. ASSUME NEW i \in 1..(m - 1)
      PROVE  ~s2[i] <=> \E j \in 1..(N - 1) : h[j] = i /\ ~n[j].read_only
    <2>1. i \in 1..m /\ i # m
        BY <1>3
    <2>2. s2[i] = s[i] /\ \A j \in 1..(N - 1) : n[j] = t[j]
        BY <1>1, <1>3
    <2>3. \A j \in 1..N : j \in 1..(N - 1) \/ j = N
        BY <1>3
    <2>4. \A j \in 1..(N - 1) : j \in 1..N
        BY <1>3
    <2>. QED BY <1>5, <1>6, <1>7, <2>1, <2>2, <2>3, <2>4, Zenon
<1>10. AlignedBy(h, s2, n)
    BY <1>3, <1>7, <1>8, <1>9 DEF AlignedBy
<1>. QED BY <1>10 DEF Aligned

\* The accessor's stack and the backend's transactions agree on whether the thread is a writer,
\* and on whether it has a transaction at all; no entry counts more than the stack has items.
LEMMA AlignedFacts ==
    ASSUME NEW s, NEW t, Aligned(s, t), Len(s) \in Nat, Len(t) \in Nat,
           DOMAIN s = 1..Len(s), DOMAIN t = 1..Len(t),
           \A j \in 1..Len(t) : Width(t[j]) \in Nat
    PROVE  /\ HasWrite(t) <=> has_writer_tx_in_stack(s)
           /\ Len(s) = 0 <=> Len(t) = 0
           /\ \A j \in 1..Len(t) : Width(t[j]) > 0 /\ Width(t[j]) <= Len(s)
<1>1. PICK g : AlignedBy(g, s, t)
    BY DEF Aligned
<1>2. Starts(g, Len(t), Len(s)) /\ \A j \in 1..Len(t) : g[j] \in 1..Len(s)
    BY <1>1, StartsRange DEF AlignedBy
<1>3. HasWrite(t) <=> has_writer_tx_in_stack(s)
    <2>1. \A i \in 1..Len(s) : ~s[i] <=> \E j \in 1..Len(t) : g[j] = i /\ ~t[j].read_only
        BY <1>1 DEF AlignedBy
    <2>. QED BY <1>2, <2>1, Zenon DEF HasWrite, has_writer_tx_in_stack
<1>4. Len(s) = 0 <=> Len(t) = 0
    <2>1. CASE Len(t) = 0
        BY <1>2, <2>1 DEF Starts
    <2>2. CASE Len(t) # 0
        <3>1. 1 \in 1..Len(t)
            BY <2>2
        <3>. QED BY <1>2, <3>1
    <2>. QED BY <2>1, <2>2
<1>5. ASSUME NEW j \in 1..Len(t) PROVE Width(t[j]) > 0 /\ Width(t[j]) <= Len(s)
    <2>1. j \in 1..(Len(t) + 1) /\ j + 1 \in 1..(Len(t) + 1) /\ Len(t) + 1 \in 1..(Len(t) + 1)
        OBVIOUS
    <2>2. /\ g[j + 1] = g[j] + Width(t[j]) /\ g[j] \in 1..Len(s) /\ Width(t[j]) \in Nat
          /\ g[j] < g[j + 1] /\ g[j + 1] \in Nat /\ g[Len(t) + 1] = Len(s) + 1
          /\ (j + 1 < Len(t) + 1 => g[j + 1] < g[Len(t) + 1])
        BY <1>1, <1>2, <2>1 DEF AlignedBy, Starts
    <2>3. g[j + 1] <= Len(s) + 1
        <3>1. CASE j + 1 < Len(t) + 1
            BY <2>2, <3>1
        <3>2. CASE j + 1 = Len(t) + 1
            BY <2>2, <3>2
        <3>. QED BY <3>1, <3>2
    <2>. QED BY <2>2, <2>3
<1>. QED BY <1>3, <1>4, <1>5

\* A thread's last entry is replaced.
LEMMA LastReplaced ==
    ASSUME NEW t \in Seq(PoolEntry), Len(t) > 0, NEW e \in PoolEntry,
           NEW n, n = [t EXCEPT ![Len(t)] = e]
    PROVE  /\ n \in Seq(PoolEntry) /\ Len(n) = Len(t) /\ n[Len(t)] = e
           /\ \A j \in 1..Len(t) : j # Len(t) => n[j] = t[j]
OBVIOUS

\* The width of an entry.
LEMMA WidthType ==
    ASSUME NEW t \in Seq(PoolEntry)
    PROVE  \A j \in 1..Len(t) : t[j] \in PoolEntry /\ Width(t[j]) \in Nat
<1>1. \A j \in 1..Len(t) : t[j] \in PoolEntry
    BY ElementOfSeq
<1>2. \A e \in PoolEntry : Width(e) \in Nat
    BY DEF PoolEntry, Width
<1>. QED BY <1>1, <1>2

\* The last entry keeps its kind and its items are counted up or down.
LEMMA LastCounted ==
    ASSUME NEW s \in Seq(BOOLEAN), NEW s2 \in Seq(BOOLEAN), NEW t \in Seq(PoolEntry), Aligned(s, t),
           Len(t) > 0, NEW e \in PoolEntry, NEW n, n = [t EXCEPT ![Len(t)] = e],
           e.read_only = t[Len(t)].read_only, Width(e) > 0,
           Len(s2) + Width(t[Len(t)]) = Len(s) + Width(e),
           \A i \in 1..Len(s2) : (i \in 1..Len(s) /\ s2[i] = s[i]) \/ (i > Len(s) /\ s2[i])
    PROVE  /\ n \in Seq(PoolEntry) /\ Len(n) = Len(t) /\ Aligned(s2, n)
           /\ HasWrite(n) <=> HasWrite(t)
<1>1. /\ n \in Seq(PoolEntry) /\ Len(n) = Len(t) /\ n[Len(t)] = e
      /\ \A j \in 1..Len(t) : j # Len(t) => n[j] = t[j]
    BY LastReplaced
<1>2. /\ Len(s) \in Nat /\ Len(s2) \in Nat /\ Len(t) \in Nat /\ Len(t) \in 1..Len(t)
      /\ DOMAIN t = 1..Len(t) /\ DOMAIN n = 1..Len(t)
    BY <1>1, LenProperties
<1>3. Width(t[Len(t)]) \in Nat /\ Width(n[Len(t)]) \in Nat
    BY <1>1, <1>2, WidthType
<1>4. \A j \in 1..Len(t) : n[j].read_only = t[j].read_only
    BY <1>1
<1>5. Aligned(s2, n)
    BY <1>1, <1>2, <1>3, <1>4, EntryCounts
<1>6. HasWrite(n) <=> HasWrite(t)
    BY <1>2, <1>4, Zenon DEF HasWrite
<1>. QED BY <1>1, <1>5, <1>6

\* begin_transaction of the backend: an entry is begun, or counted in the one around it.
LEMMA BackendBegins ==
    ASSUME NEW s \in Seq(BOOLEAN), NEW t \in Seq(PoolEntry), Aligned(s, t),
           NEW readonly \in BOOLEAN, NEW v \in Content
    PROVE  LET n == IF readonly /\ t # <<>> THEN [t EXCEPT ![Len(t)].count = @ + 1]
                    ELSE Append(t, [read_only |-> readonly,
                                    count |-> IF readonly THEN 1 ELSE 0, view |-> v])
           IN  /\ n \in Seq(PoolEntry) /\ Aligned(Append(s, readonly), n)
               /\ HasWrite(n) <=> (HasWrite(t) \/ ~readonly)
<1> DEFINE n == IF readonly /\ t # <<>> THEN [t EXCEPT ![Len(t)].count = @ + 1]
                ELSE Append(t, [read_only |-> readonly,
                                count |-> IF readonly THEN 1 ELSE 0, view |-> v])
           s2 == Append(s, readonly)
           e == [read_only |-> readonly, count |-> IF readonly THEN 1 ELSE 0, view |-> v]
           top == [t[Len(t)] EXCEPT !.count = @ + 1]
<1>1. /\ Len(s) \in Nat /\ Len(t) \in Nat /\ DOMAIN t = 1..Len(t) /\ (t # <<>> => Len(t) > 0)
      /\ s2 \in Seq(BOOLEAN) /\ Len(s2) = Len(s) + 1 /\ s2[Len(s) + 1] = readonly
      /\ \A i \in 1..Len(s) : s2[i] = s[i]
    OBVIOUS
<1>2. e \in PoolEntry /\ e.read_only = readonly /\ Width(e) = 1
    BY DEF PoolEntry, Width
<1>3. (readonly /\ t # <<>>) => n = [t EXCEPT ![Len(t)] = top]
    OBVIOUS
<1>4. ~(readonly /\ t # <<>>) => n = Append(t, e)
    OBVIOUS
<1> HIDE DEF n, s2, e
<1>5. ASSUME readonly /\ t # <<>>
      PROVE  n \in Seq(PoolEntry) /\ Aligned(s2, n) /\ (HasWrite(n) <=> (HasWrite(t) \/ ~readonly))
    <2>1. t[Len(t)] \in PoolEntry /\ Width(t[Len(t)]) \in Nat
        BY <1>1, <1>5, WidthType
    <2>2. \A x \in PoolEntry : LET y == [x EXCEPT !.count = @ + 1]
                               IN  /\ y \in PoolEntry /\ y.read_only = x.read_only
                                   /\ Width(y) = Width(x) + 1
        BY DEF PoolEntry, Width
    <2>3. /\ top \in PoolEntry /\ top.read_only = t[Len(t)].read_only
          /\ Width(top) = Width(t[Len(t)]) + 1
        BY <2>1, <2>2
    <2> HIDE DEF top
    <2>4. n = [t EXCEPT ![Len(t)] = top]
        BY <1>5, <1>3
    <2>5. Len(s2) + Width(t[Len(t)]) = Len(s) + Width(top) /\ Width(top) > 0
        <3>1. \A a, b \in Nat : (a + 1) + b = a + (b + 1) /\ b + 1 > 0
            OBVIOUS
        <3>2. Len(s) \in Nat /\ Len(s2) = Len(s) + 1
            BY <1>1
        <3>. QED BY <2>1, <2>3, <3>1, <3>2
    <2>6. \A i \in 1..Len(s2) : (i \in 1..Len(s) /\ s2[i] = s[i]) \/ (i > Len(s) /\ s2[i])
        <3>1. \A i \in 1..Len(s2) : i \in 1..Len(s) \/ (i > Len(s) /\ i = Len(s) + 1)
            BY <1>1
        <3>. QED BY <1>1, <1>5, <3>1
    <2>7. n \in Seq(PoolEntry) /\ Aligned(s2, n) /\ (HasWrite(n) <=> HasWrite(t))
        BY <1>1, <1>5, <2>3, <2>4, <2>5, <2>6, LastCounted
    <2>. QED BY <1>5, <2>7
<1>6. ASSUME ~(readonly /\ t # <<>>)
      PROVE  n \in Seq(PoolEntry) /\ Aligned(s2, n) /\ (HasWrite(n) <=> (HasWrite(t) \/ ~readonly))
    <2>1. n = Append(t, e)
        BY <1>6, <1>4
    <2>2. /\ n \in Seq(PoolEntry) /\ Len(n) = Len(t) + 1 /\ DOMAIN n = 1..(Len(t) + 1)
          /\ n[Len(t) + 1] = e /\ \A j \in 1..Len(t) : n[j] = t[j]
        BY <1>1, <1>2, <2>1
    <2>3. Aligned(s2, n)
        BY <1>1, <1>2, <2>2, EntryAdded
    <2>4. HasWrite(n) <=> (HasWrite(t) \/ ~readonly)
        <3>1. \A j \in DOMAIN n : j \in DOMAIN t \/ j = Len(t) + 1
            BY <1>1, <2>2
        <3>2. \A j \in DOMAIN t : j \in DOMAIN n /\ n[j] = t[j]
            BY <1>1, <2>2
        <3>3. Len(t) + 1 \in DOMAIN n /\ n[Len(t) + 1].read_only = readonly
            BY <1>1, <1>2, <2>2
        <3>. QED BY <3>1, <3>2, <3>3, Zenon DEF HasWrite
    <2>. QED BY <2>2, <2>3, <2>4
<1>7. n \in Seq(PoolEntry) /\ Aligned(s2, n) /\ (HasWrite(n) <=> (HasWrite(t) \/ ~readonly))
    BY <1>5, <1>6
<1>. QED BY <1>7 DEF n, s2

\* The end of a transaction in the backend: the last entry goes, or counts one item less.
LEMMA BackendPops ==
    ASSUME NEW s \in Seq(BOOLEAN), NEW t \in Seq(PoolEntry), Aligned(s, t), Len(s) > 0
    PROVE  LET top == Last(t)
               ends == IF top.read_only THEN top.count = 1 ELSE top.count = 0
           IN  /\ Len(t) > 0 /\ top \in PoolEntry
               /\ Front(t) \in Seq(PoolEntry)
               /\ ends => Aligned(Front(s), Front(t))
               /\ ~ends => /\ [t EXCEPT ![Len(t)].count = @ - 1] \in Seq(PoolEntry)
                           /\ Aligned(Front(s), [t EXCEPT ![Len(t)].count = @ - 1])
                           /\ HasWrite([t EXCEPT ![Len(t)].count = @ - 1]) <=> HasWrite(t)
               /\ HasWrite(t) <=> (HasWrite(Front(t)) \/ ~top.read_only)
<1> DEFINE top == Last(t)
           ends == IF top.read_only THEN top.count = 1 ELSE top.count = 0
           s2 == Front(s)
           below == Front(t)
           less == [top EXCEPT !.count = @ - 1]
<1>1. /\ Len(s) \in Nat /\ Len(t) \in Nat /\ DOMAIN s = 1..Len(s) /\ DOMAIN t = 1..Len(t)
      /\ \A j \in 1..Len(t) : t[j] \in PoolEntry /\ Width(t[j]) \in Nat
    BY LenProperties, WidthType
<1>2. Len(t) > 0 /\ Width(Last(t)) > 0
    <2>1. (Len(s) = 0 <=> Len(t) = 0) /\ \A j \in 1..Len(t) : Width(t[j]) > 0
        BY <1>1, AlignedFacts
    <2>2. Len(t) > 0
        BY <1>1, <2>1
    <2>3. Len(t) \in 1..Len(t)
        BY <1>1, <2>2
    <2>. QED BY <2>1, <2>2, <2>3 DEF Last
<1>3. top \in PoolEntry /\ top = t[Len(t)] /\ Width(top) \in Nat /\ Len(t) \in 1..Len(t)
    BY <1>1, <1>2 DEF Last
<1>4. /\ below \in Seq(PoolEntry) /\ Len(below) = Len(t) - 1
      /\ DOMAIN below = 1..(Len(t) - 1)
      /\ \A j \in 1..(Len(t) - 1) : below[j] = t[j]
    BY <1>1, <1>2, FrontType DEF Front
<1>5. /\ s2 \in Seq(BOOLEAN) /\ Len(s2) = Len(s) - 1
      /\ \A i \in 1..(Len(s) - 1) : s2[i] = s[i]
    BY <1>1, FrontType DEF Front
<1>6. ends <=> Width(top) = 1
    BY <1>3 DEF Width, PoolEntry
<1> HIDE DEF s2, below, top, ends
<1>7. ASSUME ends PROVE Aligned(s2, below)
    BY <1>1, <1>2, <1>3, <1>4, <1>5, <1>6, <1>7, EntryRemoved
<1>8. HasWrite(t) <=> (HasWrite(below) \/ ~top.read_only)
    <2>1. \A j \in DOMAIN t : j \in DOMAIN below \/ j = Len(t)
        BY <1>1, <1>4
    <2>2. \A j \in DOMAIN below : j \in DOMAIN t /\ below[j] = t[j]
        BY <1>1, <1>4
    <2>3. Len(t) \in DOMAIN t /\ t[Len(t)] = top
        BY <1>1, <1>3
    <2>. QED BY <2>1, <2>2, <2>3, Zenon DEF HasWrite
<1>9. ASSUME ~ends
      PROVE  /\ [t EXCEPT ![Len(t)].count = @ - 1] \in Seq(PoolEntry)
             /\ Aligned(s2, [t EXCEPT ![Len(t)].count = @ - 1])
             /\ HasWrite([t EXCEPT ![Len(t)].count = @ - 1]) <=> HasWrite(t)
    <2>1. top.count \in Nat /\ top.count - 1 \in Nat
        <3>1. top.count \in Nat /\ (top.read_only => top.count > 0)
            BY <1>2, <1>3 DEF top, Width, PoolEntry
        <3>2. top.read_only \in BOOLEAN
            BY <1>3 DEF PoolEntry
        <3>3. top.count # 0
            BY <1>9, <3>1, <3>2 DEF ends
        <3>. QED BY <3>1, <3>3
    <2>2. /\ less \in PoolEntry /\ less.read_only = top.read_only
          /\ Width(less) = Width(top) - 1
        BY <1>3, <2>1 DEF Width, PoolEntry
    <2>3. Width(less) > 0 /\ Width(less) \in Nat
        BY <1>2, <1>3, <1>6, <1>9, <2>2 DEF top
    <2>4. Len(s2) + Width(top) = Len(s) + Width(less)
        BY <1>1, <1>3, <1>5, <2>2
    <2>5. \A i \in 1..Len(s2) : i \in 1..Len(s) /\ s2[i] = s[i]
        BY <1>1, <1>5
    <2>6. [t EXCEPT ![Len(t)].count = @ - 1] = [t EXCEPT ![Len(t)] = less]
        BY <1>3
    <2> DEFINE m == [t EXCEPT ![Len(t)] = less]
    <2> HIDE DEF less
    <2>7. m = [t EXCEPT ![Len(t)] = less]
        OBVIOUS
    <2> HIDE DEF m
    <2>8. /\ m \in Seq(PoolEntry) /\ Aligned(s2, m)
          /\ HasWrite(m) <=> HasWrite(t)
        <3>1. less.read_only = t[Len(t)].read_only /\ less \in PoolEntry /\ Width(less) > 0
            BY <1>3, <2>2, <2>3
        <3>2. Len(s2) + Width(t[Len(t)]) = Len(s) + Width(less)
            BY <1>3, <2>4
        <3>3. \A i \in 1..Len(s2) : (i \in 1..Len(s) /\ s2[i] = s[i]) \/ (i > Len(s) /\ s2[i])
            BY <2>5
        <3>4. s2 \in Seq(BOOLEAN) /\ Len(t) > 0
            BY <1>2, <1>5
        <3>. QED BY <2>7, <3>1, <3>2, <3>3, <3>4, LastCounted
    <2>. QED BY <2>6, <2>7, <2>8
<1>. QED BY <1>2, <1>3, <1>4, <1>7, <1>8, <1>9 DEF top, below, s2, ends

\* The state of one thread of the pool, unfolded.
LEMMA PoolThread ==
    ASSUME PoolInv, NEW th \in Thread
    PROVE  /\ PoolShape(call[th]) /\ PoolOwned(th)
           /\ txs[th] \in Seq(PoolEntry) /\ stack[th] \in Seq(BOOLEAN)
           /\ Booked(th) \in Seq(BOOLEAN)
           /\ Len(txs[th]) \in Nat /\ Len(stack[th]) \in Nat /\ Len(Booked(th)) \in Nat
           /\ HasWrite(txs[th]) <=> has_writer_tx_in_stack(Booked(th))
           /\ Len(Booked(th)) = 0 <=> Len(txs[th]) = 0
           /\ \A j \in 1..Len(txs[th]) : Width(txs[th][j]) <= Len(Booked(th))
           /\ View(th) \in Content
<1>1. /\ PoolShape(call[th]) /\ PoolOwned(th)
      /\ txs[th] \in Seq(PoolEntry) /\ stack[th] \in Seq(BOOLEAN)
    BY DEF PoolInv, PoolTypes
<1>2. Booked(th) \in Seq(BOOLEAN)
    <2>1. CASE call[th].pc = "begin"
        <3>1. call[th].readonly \in BOOLEAN /\ Booked(th) = Append(stack[th], call[th].readonly)
            BY <1>1, <2>1 DEF PoolShape, Booked
        <3>. QED BY <1>1, <3>1
    <2>2. CASE call[th].pc = "pop"
        <3>1. Len(stack[th]) > 0 /\ Booked(th) = Front(stack[th])
            BY <1>1, <2>2 DEF PoolOwned, Booked
        <3>. QED BY <1>1, <3>1, FrontType
    <2>3. CASE call[th].pc \notin {"begin", "pop"}
        BY <1>1, <2>3 DEF Booked
    <2>. QED BY <2>1, <2>2, <2>3
<1>3. /\ Len(txs[th]) \in Nat /\ Len(stack[th]) \in Nat /\ Len(Booked(th)) \in Nat
      /\ DOMAIN txs[th] = 1..Len(txs[th]) /\ DOMAIN Booked(th) = 1..Len(Booked(th))
      /\ \A j \in 1..Len(txs[th]) : Width(txs[th][j]) \in Nat
    BY <1>1, <1>2, LenProperties, WidthType
<1>4. Aligned(Booked(th), txs[th])
    BY <1>1 DEF PoolOwned
<1>5. /\ HasWrite(txs[th]) <=> has_writer_tx_in_stack(Booked(th))
      /\ Len(Booked(th)) = 0 <=> Len(txs[th]) = 0
      /\ \A j \in 1..Len(txs[th]) : Width(txs[th][j]) <= Len(Booked(th))
    BY <1>3, <1>4, AlignedFacts
<1>6. View(th) \in Content
    <2>1. CASE txs[th] = <<>>
        BY <2>1 DEF View, PoolInv, PoolTypes
    <2>2. CASE txs[th] # <<>>
        <3>1. Last(txs[th]) \in PoolEntry
            BY <1>1, <2>2, LastType
        <3>. QED BY <2>2, <3>1 DEF View, PoolEntry
    <2>. QED BY <2>1, <2>2
<1>. QED BY <1>1, <1>2, <1>3, <1>5, <1>6

\* Who is a writer after an item is put on its stack.
LEMMA WriterPushed ==
    ASSUME NEW s \in Seq(BOOLEAN), NEW b \in BOOLEAN
    PROVE  has_writer_tx_in_stack(Append(s, b)) <=> (has_writer_tx_in_stack(s) \/ ~b)
<1>1. /\ DOMAIN s = 1..Len(s) /\ DOMAIN Append(s, b) = 1..(Len(s) + 1) /\ Len(s) \in Nat
      /\ Append(s, b)[Len(s) + 1] = b /\ \A i \in 1..Len(s) : Append(s, b)[i] = s[i]
    OBVIOUS
<1>2. \A i \in 1..(Len(s) + 1) : i \in 1..Len(s) \/ i = Len(s) + 1
    BY <1>1
<1>3. Len(s) + 1 \in 1..(Len(s) + 1) /\ \A i \in 1..Len(s) : i \in 1..(Len(s) + 1)
    BY <1>1
<1>. QED BY <1>1, <1>2, <1>3, Zenon DEF has_writer_tx_in_stack

\* Who was a writer before an item was taken off.
LEMMA WriterPopped ==
    ASSUME NEW s \in Seq(BOOLEAN), Len(s) > 0
    PROVE  has_writer_tx_in_stack(s) <=> (has_writer_tx_in_stack(Front(s)) \/ ~Last(s))
<1>1. /\ DOMAIN s = 1..Len(s) /\ Len(s) \in Nat /\ DOMAIN Front(s) = 1..(Len(s) - 1)
      /\ \A i \in 1..(Len(s) - 1) : Front(s)[i] = s[i]
    <2>1. Front(s) \in Seq(BOOLEAN) /\ Len(Front(s)) = Len(s) - 1 /\ Len(s) \in Nat
        BY FrontType
    <2>2. DOMAIN s = 1..Len(s) /\ DOMAIN Front(s) = 1..(Len(s) - 1)
        BY <2>1, LenProperties
    <2>. QED BY <2>1, <2>2 DEF Front
<1>2. \A i \in 1..Len(s) : i \in 1..(Len(s) - 1) \/ i = Len(s)
    <2>1. \A n \in Nat : \A i \in 1..n : i \in 1..(n - 1) \/ i = n
        OBVIOUS
    <2>. QED BY <1>1, <2>1
<1>3. Len(s) \in 1..Len(s) /\ \A i \in 1..(Len(s) - 1) : i \in 1..Len(s)
    BY <1>1
<1>. QED BY <1>1, <1>2, <1>3, Zenon DEF has_writer_tx_in_stack, Last

\* What one thread does leaves the invariant of the others alone.
LEMMA PoolFrame ==
    ASSUME PoolInv, NEW u \in Thread,
           call'[u] = call[u], stack'[u] = stack[u], txs'[u] = txs[u],
           write_owner' = u <=> write_owner = u, writer' = u <=> writer = u,
           stack_lock' = u <=> stack_lock = u
    PROVE  PoolOwned(u)'
<1>1. PoolOwned(u)
    BY DEF PoolInv
<1>2. Booked(u)' = Booked(u)
    BY DEF Booked
<1>. QED BY <1>1, <1>2 DEF PoolOwned

\* A thread's call goes on and changes no transaction.
LEMMA PoolQuiet ==
    ASSUME PoolInv, NEW th \in Thread, NEW c, PoolShape(c),
           DOMAIN call' = Thread, call'[th] = c,
           \A u \in Thread : u # th => call'[u] = call[u],
           UnchangedTx, UNCHANGED <<db, readers>>, alt_lock' = NoThread,
           exclusive' \in Thread \cup {NoThread}, cache' \in Content,
           size_cache' \in [valid : BOOLEAN, size : 0..Cardinality(Key)],
           call[th].pc \notin {"begin", "pop"}, c.pc \notin {"begin", "pop"},
           c.pc \in {"wait", "backend"} => Len(stack[th]) > 0
    PROVE  PoolInv'
<1>1. PoolTypes'
    BY DEF PoolInv, PoolTypes, UnchangedTx
<1>2. ASSUME NEW u \in Thread PROVE PoolOwned(u)'
    <2>1. CASE u = th
        <3>1. PoolOwned(th)
            BY DEF PoolInv
        <3>2. Booked(th) = stack[th] /\ Booked(th)' = stack[th]
            BY DEF Booked, UnchangedTx
        <3>. QED BY <2>1, <3>1, <3>2 DEF PoolOwned, UnchangedTx
    <2>2. CASE u # th
        BY <2>2, PoolFrame DEF UnchangedTx
    <2>. QED BY <2>1, <2>2
<1>. QED BY <1>1, <1>2 DEF PoolInv

\* The same for a step that says so with Go.
LEMMA PoolGo ==
    ASSUME PoolInv, NEW th \in Thread, NEW c, PoolShape(c), Go(th, c),
           UnchangedTx, UNCHANGED <<db, size_cache, readers>>, alt_lock' = NoThread,
           exclusive' \in Thread \cup {NoThread}, cache' \in Content,
           call[th].pc \notin {"begin", "pop"}, c.pc \notin {"begin", "pop"},
           c.pc \in {"wait", "backend"} => Len(stack[th]) > 0
    PROVE  PoolInv'
<1>1. /\ DOMAIN call' = Thread /\ call'[th] = c
      /\ \A u \in Thread : u # th => call'[u] = call[u]
    BY GoCall DEF PoolInv, PoolTypes
<1>2. size_cache' \in [valid : BOOLEAN, size : 0..Cardinality(Key)]
    BY DEF PoolInv, PoolTypes
<1>. QED BY <1>1, <1>2, PoolQuiet

\* The lock of the pool's database: nobody shares it.
LEMMA PoolLockStep ==
    ASSUME PoolInv, NEW th \in Thread,
           commit_transaction(th) \/ wait_readers(th) \/ end_unlock(th)
    PROVE  PoolInv'
<1>1. /\ PoolShape(call[th]) /\ PoolOwned(th)
      /\ stack[th] \in Seq(BOOLEAN) /\ Len(stack[th]) \in Nat
      /\ cache \in Content /\ exclusive \in Thread \cup {NoThread} /\ alt_lock = NoThread
    BY PoolThread DEF PoolInv, PoolTypes
<1>2. \A pc \in {"wait", "backend"} : PoolShape([pc |-> pc, how |-> "commit"])
    BY DEF PoolShape, PoolLabels
<1>3. CASE commit_transaction(th)
    <2>1. Len(stack[th]) > 0
        BY <1>1, <1>3, EmptySeq DEF commit_transaction, End
    <2>2. PICK pc \in {"wait", "backend"} : Go(th, [pc |-> pc, how |-> "commit"])
        BY <1>3 DEF commit_transaction, End
    <2>3. /\ exclusive' \in Thread \cup {NoThread} /\ alt_lock' = NoThread /\ cache' \in Content
          /\ UnchangedTx /\ UNCHANGED <<db, size_cache, readers>> /\ call[th].pc = "idle"
        BY <1>1, <1>3 DEF commit_transaction, End, UnchangedData
    <2>4. PoolShape([pc |-> pc, how |-> "commit"])
        BY <1>2
    <2>. QED BY <2>1, <2>2, <2>3, <2>4, PoolGo
<1>4. CASE wait_readers(th)
    <2>1. call[th] = [pc |-> "wait", how |-> "commit"] /\ Len(stack[th]) > 0
        BY <1>1, <1>4 DEF wait_readers, PoolShape, PoolOwned
    <2>2. Go(th, [pc |-> "backend", how |-> "commit"])
        BY <1>4, <2>1 DEF wait_readers
    <2>3. /\ exclusive' \in Thread \cup {NoThread} /\ alt_lock' = NoThread /\ cache' \in Content
          /\ UnchangedTx /\ UNCHANGED <<db, size_cache, readers>>
        BY <1>1, <1>4 DEF wait_readers, UnchangedData, UnchangedLocks
    <2>. QED BY <1>2, <2>1, <2>2, <2>3, PoolGo
<1>5. CASE end_unlock(th)
    <2>1. PoolShape(Idle) /\ Idle.pc = "idle"
        BY DEF PoolShape, PoolLabels, Idle
    <2>2. /\ exclusive' = NoThread /\ alt_lock' = NoThread /\ cache' \in Content
          /\ UnchangedTx /\ UNCHANGED <<db, size_cache, readers>> /\ call[th].pc = "unlock"
          /\ Go(th, Idle)
        BY <1>1, <1>5, DbAssumption DEF end_unlock, UnchangedData
    <2>. QED BY <2>1, <2>2, PoolGo
<1>. QED BY <1>3, <1>4, <1>5

\* A read of the pool's database.
LEMMA PoolReadStep ==
    ASSUME PoolInv, NEW th \in Thread,
           (\E k \in Key : get(th, k)) \/ get_db(th) \/ get_fill(th) \/ got(th)
    PROVE  PoolInv'
<1>1. /\ PoolShape(call[th]) /\ View(th) \in Content
      /\ cache \in Content /\ exclusive \in Thread \cup {NoThread} /\ alt_lock = NoThread
    BY PoolThread DEF PoolInv, PoolTypes
<1>2. ASSUME NEW c, PoolShape(c), Go(th, c), c.pc \in {"idle", "miss", "fill", "got"},
             call[th].pc \in {"idle", "miss", "fill", "got"},
             cache' \in Content, UNCHANGED <<db, size_cache>>, UnchangedTx, UnchangedLocks
      PROVE  PoolInv'
    BY <1>1, <1>2, PoolGo DEF UnchangedLocks
<1>3. ASSUME NEW k \in Key, get(th, k) PROVE PoolInv'
    <2>1. cache[k] \in Value \cup {None}
        BY <1>1 DEF Content
    <2>2. /\ UNCHANGED <<db, size_cache>> /\ cache' \in Content
          /\ UnchangedTx /\ UnchangedLocks /\ call[th].pc = "idle"
        BY <1>1, <1>3 DEF get, UnchangedData
    <2>3. CASE CacheAllowed(th) /\ cache[k] # None
        <3>1. Go(th, [pc |-> "got", key |-> k, res |-> cache[k]])
            BY <1>3, <2>3 DEF get
        <3>2. PoolShape([pc |-> "got", key |-> k, res |-> cache[k]])
            BY <2>1 DEF PoolShape, PoolLabels
        <3>. QED BY <1>2, <2>2, <3>1, <3>2
    <2>4. CASE ~(CacheAllowed(th) /\ cache[k] # None)
        <3>1. Go(th, [pc |-> "miss", key |-> k])
            BY <1>3, <2>4 DEF get
        <3>2. PoolShape([pc |-> "miss", key |-> k])
            BY DEF PoolShape, PoolLabels
        <3>. QED BY <1>2, <2>2, <3>1, <3>2
    <2>. QED BY <2>3, <2>4
<1>4. CASE get_db(th)
    <2> DEFINE v == View(th)[call[th].key]
               c == [pc |-> IF v = None THEN "got" ELSE "fill", key |-> call[th].key, res |-> v]
    <2>1. call[th].pc = "miss" /\ call[th].key \in Key /\ v \in Value \cup {None}
        BY <1>1, <1>4 DEF get_db, PoolShape, Content
    <2>2. PoolShape(c) /\ c.pc \in {"got", "fill"}
        BY <2>1 DEF PoolShape, PoolLabels
    <2>3. /\ UNCHANGED <<db, size_cache>> /\ cache' \in Content
          /\ UnchangedTx /\ UnchangedLocks /\ Go(th, c)
        BY <1>1, <1>4 DEF get_db, UnchangedData
    <2> HIDE DEF c
    <2>. QED BY <1>2, <2>1, <2>2, <2>3
<1>5. CASE get_fill(th)
    <2>1. PICK k \in Key, v \in Value \cup {None} : call[th] = [pc |-> "fill", key |-> k, res |-> v]
        BY <1>1, <1>5 DEF get_fill, PoolShape
    <2> DEFINE c == [pc |-> "got", key |-> k, res |-> v]
    <2>2. [cache EXCEPT ![call[th].key] = call[th].res] \in Content
        BY <1>1, <2>1 DEF Content
    <2>3. /\ UNCHANGED <<db, size_cache>> /\ cache' \in Content
          /\ UnchangedTx /\ UnchangedLocks /\ Go(th, c)
        BY <1>1, <1>5, <2>1, <2>2 DEF get_fill
    <2>4. PoolShape(c) /\ c.pc = "got"
        BY DEF PoolShape, PoolLabels
    <2> HIDE DEF c
    <2>. QED BY <1>2, <2>1, <2>3, <2>4
<1>6. CASE got(th)
    <2>1. PoolShape(Idle) /\ Idle.pc = "idle"
        BY DEF PoolShape, PoolLabels, Idle
    <2>2. /\ UNCHANGED <<db, size_cache>> /\ cache' \in Content
          /\ UnchangedTx /\ UnchangedLocks /\ Go(th, Idle) /\ call[th].pc = "got"
        BY <1>1, <1>6 DEF got, UnchangedData
    <2>. QED BY <1>2, <2>1, <2>2
<1>. QED BY <1>3, <1>4, <1>5, <1>6

\* The content of the container that a writer works on changes.
LEMMA PoolWriteStep == ASSUME PoolInv, NEW th \in Thread, WriteStep(th) PROVE PoolInv'
<1>1. /\ PoolShape(call[th]) /\ PoolOwned(th) /\ View(th) \in Content
      /\ txs[th] \in Seq(PoolEntry) /\ stack[th] \in Seq(BOOLEAN) /\ Len(txs[th]) \in Nat
      /\ Len(Booked(th)) = 0 <=> Len(txs[th]) = 0
    BY PoolThread
<1>2. /\ txs \in [Thread -> Seq(PoolEntry)] /\ cache \in Content
      /\ size_cache \in [valid : BOOLEAN, size : 0..Cardinality(Key)]
    BY DEF PoolInv, PoolTypes
<1>3. Empty \in Content
    BY DEF Empty, Content
<1>4. \A f \in Content, k \in Key, v \in Value \cup {None} : [f EXCEPT ![k] = v] \in Content
    BY DEF Content
<1>5. [size_cache EXCEPT !.valid = FALSE] \in [valid : BOOLEAN, size : 0..Cardinality(Key)]
    BY <1>2
<1>6. PICK content \in Content :
         /\ Write(th, content) /\ cache' \in Content
         /\ size_cache' \in [valid : BOOLEAN, size : 0..Cardinality(Key)]
         /\ call[th].pc = "idle" /\ InWriteTx(th) /\ UnchangedLocks
         /\ UNCHANGED <<db, write_owner, stack, stack_lock, writer, call>>
    <2>1. ASSUME NEW k \in Key, NEW v \in Value, set(th, k, v)
          PROVE  \E content \in Content :
                    /\ Write(th, content) /\ cache' \in Content
                    /\ size_cache' \in [valid : BOOLEAN, size : 0..Cardinality(Key)]
                    /\ call[th].pc = "idle" /\ InWriteTx(th) /\ UnchangedLocks
                    /\ UNCHANGED <<db, write_owner, stack, stack_lock, writer, call>>
        <3>1. [View(th) EXCEPT ![k] = v] \in Content /\ [cache EXCEPT ![k] = v] \in Content
            BY <1>1, <1>2, <1>4
        <3>. QED BY <1>5, <2>1, <3>1 DEF set
    <2>2. ASSUME NEW k \in Key, erase(th, k)
          PROVE  \E content \in Content :
                    /\ Write(th, content) /\ cache' \in Content
                    /\ size_cache' \in [valid : BOOLEAN, size : 0..Cardinality(Key)]
                    /\ call[th].pc = "idle" /\ InWriteTx(th) /\ UnchangedLocks
                    /\ UNCHANGED <<db, write_owner, stack, stack_lock, writer, call>>
        <3>1. [View(th) EXCEPT ![k] = None] \in Content /\ [cache EXCEPT ![k] = None] \in Content
            BY <1>1, <1>2, <1>4
        <3>. QED BY <1>5, <2>2, <3>1 DEF erase
    <2>3. CASE clear(th)
        BY <1>3, <1>5, <2>3 DEF clear
    <2>. QED BY <2>1, <2>2, <2>3 DEF WriteStep
<1> DEFINE t == txs[th]
           e == [t[Len(t)] EXCEPT !.view = content]
           n == [t EXCEPT ![Len(t)] = e]
<1>7. Len(t) > 0 /\ Len(t) \in 1..Len(t) /\ t[Len(t)] \in PoolEntry
    <2>1. Booked(th) = stack[th] /\ stack[th] # <<>>
        BY <1>6 DEF Booked, InWriteTx
    <2>2. Len(stack[th]) # 0
        BY <1>1, <2>1, EmptySeq
    <2>3. Len(t) > 0 /\ Len(t) \in 1..Len(t)
        BY <1>1, <2>1, <2>2
    <2>. QED BY <1>1, <2>3, WidthType
<1>8. /\ e \in PoolEntry /\ e.read_only = t[Len(t)].read_only
      /\ Width(e) = Width(t[Len(t)]) /\ Width(e) \in Nat
    BY <1>6, <1>7 DEF PoolEntry, Width
<1>9. txs' = [txs EXCEPT ![th] = n]
    BY <1>2, <1>6, <1>7 DEF Write
<1> HIDE DEF e
<1>10. n = [t EXCEPT ![Len(t)] = e]
    OBVIOUS
<1> HIDE DEF n
<1>11. n \in Seq(PoolEntry) /\ Aligned(Booked(th), n) /\ (HasWrite(n) <=> HasWrite(t))
    <2>1. Booked(th) \in Seq(BOOLEAN) /\ Aligned(Booked(th), t) /\ Len(Booked(th)) \in Nat
        BY <1>1, PoolThread DEF PoolOwned
    <2>2. Width(e) > 0
        <3>1. Width(t[Len(t)]) > 0
            BY <1>1, <1>7, <2>1, AlignedFacts, WidthType, LenProperties
        <3>. QED BY <1>8, <3>1
    <2> DEFINE s == Booked(th)
    <2> HIDE DEF s, t
    <2>3. s \in Seq(BOOLEAN) /\ Aligned(s, t) /\ t \in Seq(PoolEntry)
        BY <1>1, <2>1 DEF s, t
    <2>4. \A i \in 1..Len(s) :
             (i \in 1..Len(s) /\ s[i] = s[i]) \/ (i > Len(s) /\ s[i])
        OBVIOUS
    <2>5. Len(s) + Width(t[Len(t)]) = Len(s) + Width(e)
        BY <1>8
    <2>6. n \in Seq(PoolEntry) /\ Aligned(s, n) /\ (HasWrite(n) <=> HasWrite(t))
        BY <1>7, <1>8, <1>10, <2>2, <2>3, <2>4, <2>5, LastCounted
    <2>. QED BY <2>6 DEF s
<1>12. txs' \in [Thread -> Seq(PoolEntry)] /\ txs'[th] = n
       /\ \A u \in Thread : u # th => txs'[u] = txs[u]
    BY <1>2, <1>9, <1>11
<1>13. PoolTypes'
    BY <1>6, <1>12 DEF PoolInv, PoolTypes, UnchangedLocks
<1>14. ASSUME NEW u \in Thread PROVE PoolOwned(u)'
    <2>1. CASE u = th
        <3>1. Booked(th)' = Booked(th)
            BY <1>6 DEF Booked
        <3>. QED BY <1>1, <1>6, <1>11, <1>12, <2>1, <3>1 DEF PoolOwned
    <2>2. CASE u # th
        BY <1>6, <1>12, <2>2, PoolFrame
    <2>. QED BY <2>1, <2>2
<1>. QED BY <1>13, <1>14 DEF PoolInv

\* The number of entries is counted.
LEMMA PoolSizeStep == ASSUME PoolInv, NEW th \in Thread, size(th) PROVE PoolInv'
<1>1. /\ DOMAIN call = Thread /\ PoolShape(call[th]) /\ cache \in Content
      /\ exclusive \in Thread \cup {NoThread} /\ alt_lock = NoThread
    BY DEF PoolInv, PoolTypes
<1>2. Size(View(th)) \in 0..Cardinality(Key)
    BY SizeType
<1>3. size_cache' \in [valid : BOOLEAN, size : 0..Cardinality(Key)]
    BY <1>2 DEF size
<1>4. /\ UnchangedTx /\ UnchangedLocks /\ UNCHANGED <<db, cache, call>>
      /\ call[th].pc = "idle"
    BY DEF size
<1>. QED BY <1>1, <1>3, <1>4, PoolQuiet DEF UnchangedLocks

\* The backend begins a transaction.
LEMMA PoolBegin ==
    ASSUME PoolInv, NEW th \in Thread, NEW readonly \in BOOLEAN, begin_backend(th, readonly)
    PROVE  PoolInv'
<1>1. /\ PoolShape(call[th]) /\ PoolOwned(th) /\ View(th) \in Content
      /\ txs[th] \in Seq(PoolEntry) /\ stack[th] \in Seq(BOOLEAN) /\ Len(txs[th]) \in Nat
      /\ Len(stack[th]) \in Nat
    BY PoolThread
<1>2. /\ txs \in [Thread -> Seq(PoolEntry)] /\ db \in Content
      /\ write_owner \in Thread \cup {NoThread}
    BY DEF PoolInv, PoolTypes
<1> DEFINE open == txs[th]
           v == IF open # <<>> /\ ~Last(open).read_only THEN Last(open).view ELSE db
           n == IF readonly /\ open # <<>> THEN [open EXCEPT ![Len(open)].count = @ + 1]
                ELSE Append(open, [read_only |-> readonly,
                                   count |-> IF readonly THEN 1 ELSE 0, view |-> v])
           c == [pc |-> "begin", readonly |-> readonly]
<1>3. /\ call[th].pc = "idle" /\ Len(stack[th]) < MaxNesting
      /\ readonly \/ write_owner \in {NoThread, th}
      /\ txs' = [txs EXCEPT ![th] = n]
      /\ write_owner' = IF readonly THEN write_owner ELSE th
      /\ Go(th, c) /\ UnchangedData /\ UnchangedLocks /\ UNCHANGED <<stack, stack_lock, writer>>
    BY <1>2 DEF begin_backend
<1>4. v \in Content
    <2>1. CASE open # <<>> /\ ~Last(open).read_only
        <3>1. Last(open) \in PoolEntry
            BY <1>1, <2>1, LastType, EmptySeq
        <3>. QED BY <2>1, <3>1 DEF PoolEntry
    <2>2. CASE ~(open # <<>> /\ ~Last(open).read_only)
        BY <1>2, <2>2
    <2>. QED BY <2>1, <2>2
<1> HIDE DEF v
<1>5. Booked(th) = stack[th] /\ Aligned(stack[th], open)
    BY <1>1, <1>3 DEF Booked, PoolOwned
<1>6. /\ n \in Seq(PoolEntry) /\ Aligned(Append(stack[th], readonly), n)
      /\ HasWrite(n) <=> (HasWrite(open) \/ ~readonly)
    BY <1>1, <1>4, <1>5, BackendBegins
<1> HIDE DEF n
<1>7. PoolShape(c) /\ c.pc = "begin" /\ c.readonly = readonly
    BY DEF PoolShape, PoolLabels
<1>8. /\ DOMAIN call' = Thread /\ call'[th] = c
      /\ \A u \in Thread : u # th => call'[u] = call[u]
    BY <1>3, GoCall DEF PoolInv, PoolTypes
<1> HIDE DEF c
<1>9. txs' \in [Thread -> Seq(PoolEntry)] /\ txs'[th] = n
      /\ \A u \in Thread : u # th => txs'[u] = txs[u]
    BY <1>2, <1>3, <1>6
<1>10. PoolTypes'
    BY <1>2, <1>3, <1>7, <1>8, <1>9 DEF PoolInv, PoolTypes, UnchangedData, UnchangedLocks
<1>11. ASSUME NEW u \in Thread PROVE PoolOwned(u)'
    <2>1. CASE u = th
        <3>1. Booked(th)' = Append(stack[th], readonly)
            BY <1>3, <1>7, <1>8 DEF Booked
        <3>2. Len(Append(stack[th], readonly)) <= MaxNesting
            <4>1. Len(Append(stack[th], readonly)) = Len(stack[th]) + 1
                BY <1>1, AppendLast
            <4>2. \A a, b \in Nat : a < b => a + 1 <= b
                OBVIOUS
            <4>. QED BY <1>1, <1>3, <4>1, <4>2, DbAssumption
        <3>3. write_owner' = th <=> HasWrite(n)
            BY <1>1, <1>3, <1>6, Zenon DEF PoolOwned
        <3>4. /\ writer' = th <=> has_writer_tx_in_stack(stack'[th])
              /\ stack_lock' = th <=> call'[th].pc = "pop"
              /\ call'[th].pc \notin {"wait", "backend", "pop"}
            BY <1>1, <1>3, <1>7, <1>8 DEF PoolOwned
        <3>. QED BY <1>6, <1>9, <2>1, <3>1, <3>2, <3>3, <3>4 DEF PoolOwned
    <2>2. CASE u # th
        <3>1. write_owner' = u <=> write_owner = u
            BY <1>3, <2>2, DbAssumption
        <3>. QED BY <1>3, <1>8, <1>9, <2>2, <3>1, PoolFrame
    <2>. QED BY <2>1, <2>2
<1>. QED BY <1>10, <1>11 DEF PoolInv

\* While the stack is locked by nobody, a thread that begins a write transaction and has none
\* yet finds the isolation of the cache switched off: the last writer was let go by the backend
\* and has also left the accessor's stack.
LEMMA PoolWriterGone ==
    ASSUME PoolInv, NEW th \in Thread, call[th].pc = "begin", stack_lock = NoThread,
           ~call[th].readonly, ~has_writer_tx_in_stack(stack[th])
    PROVE  writer = NoThread
<1>1. SUFFICES ASSUME NEW u \in Thread, writer = u PROVE FALSE
    BY DEF PoolInv, PoolTypes
<1>2. write_owner = th
    <2>1. /\ PoolShape(call[th]) /\ PoolOwned(th) /\ stack[th] \in Seq(BOOLEAN)
          /\ HasWrite(txs[th]) <=> has_writer_tx_in_stack(Booked(th))
        BY PoolThread
    <2>2. call[th].readonly \in BOOLEAN /\ Booked(th) = Append(stack[th], call[th].readonly)
        BY <2>1 DEF PoolShape, Booked
    <2>3. has_writer_tx_in_stack(Append(stack[th], call[th].readonly))
        BY <2>1, <2>2, WriterPushed
    <2>4. has_writer_tx_in_stack(Booked(th))
        BY <2>2, <2>3
    <2>. QED BY <2>1, <2>4 DEF PoolOwned
<1>3. /\ PoolShape(call[u]) /\ PoolOwned(u) /\ stack[u] \in Seq(BOOLEAN)
      /\ HasWrite(txs[u]) <=> has_writer_tx_in_stack(Booked(u))
    BY PoolThread
<1>4. has_writer_tx_in_stack(stack[u]) /\ u # th
    BY <1>1, <1>3 DEF PoolOwned
<1>5. call[u].pc # "pop"
    BY <1>3, DbAssumption DEF PoolOwned
<1>6. has_writer_tx_in_stack(Booked(u))
    <2>1. CASE call[u].pc = "begin"
        <3>1. call[u].readonly \in BOOLEAN /\ Booked(u) = Append(stack[u], call[u].readonly)
            BY <1>3, <2>1 DEF PoolShape, Booked
        <3>2. has_writer_tx_in_stack(Append(stack[u], call[u].readonly))
            BY <1>3, <1>4, <3>1, WriterPushed
        <3>. QED BY <3>1, <3>2
    <2>2. CASE call[u].pc # "begin"
        <3>1. Booked(u) = stack[u]
            BY <1>5, <2>2 DEF Booked
        <3>. QED BY <1>4, <3>1
    <2>. QED BY <2>1, <2>2
<1>7. write_owner = u
    BY <1>3, <1>6 DEF PoolOwned
<1>. QED BY <1>2, <1>4, <1>7

\* The accessor's own stack follows, and a writer switches the isolation on.
LEMMA PoolPush == ASSUME PoolInv, NEW th \in Thread, begin_push(th) PROVE PoolInv'
<1>1. /\ PoolShape(call[th]) /\ PoolOwned(th) /\ stack[th] \in Seq(BOOLEAN)
      /\ txs[th] \in Seq(PoolEntry)
    BY PoolThread
<1> DEFINE b == call[th].readonly
           s2 == Append(stack[th], b)
<1>2. /\ call[th].pc = "begin" /\ stack_lock = NoThread /\ b \in BOOLEAN
      /\ stack' = [stack EXCEPT ![th] = s2] /\ Go(th, Idle)
      /\ writer' = IF b \/ has_writer_tx_in_stack(stack[th]) THEN writer ELSE th
      /\ UnchangedData /\ UnchangedLocks /\ UNCHANGED <<txs, write_owner, stack_lock>>
    BY <1>1 DEF begin_push, PoolShape
<1>3. s2 \in Seq(BOOLEAN) /\ Booked(th) = s2
      /\ (has_writer_tx_in_stack(s2) <=> (has_writer_tx_in_stack(stack[th]) \/ ~b))
    BY <1>1, <1>2, WriterPushed DEF Booked
<1> HIDE DEF s2
<1>4. /\ DOMAIN call' = Thread /\ call'[th] = Idle /\ PoolShape(Idle) /\ Idle.pc = "idle"
      /\ \A u \in Thread : u # th => call'[u] = call[u]
    BY <1>2, GoCall DEF PoolInv, PoolTypes, PoolShape, PoolLabels, Idle
<1>5. /\ stack' \in [Thread -> Seq(BOOLEAN)] /\ stack'[th] = s2
      /\ \A u \in Thread : u # th => stack'[u] = stack[u]
    BY <1>2, <1>3 DEF PoolInv, PoolTypes
<1>6. PoolTypes'
    BY <1>2, <1>4, <1>5 DEF PoolInv, PoolTypes, UnchangedData, UnchangedLocks
<1>7. (~b /\ ~has_writer_tx_in_stack(stack[th])) => writer = NoThread
    BY <1>2, PoolWriterGone
<1>8. ASSUME NEW u \in Thread PROVE PoolOwned(u)'
    <2>1. CASE u = th
        <3>1. Booked(th)' = Booked(th)
            BY <1>3, <1>4, <1>5 DEF Booked
        <3>2. writer' = th <=> has_writer_tx_in_stack(stack'[th])
            <4>1. writer = th <=> has_writer_tx_in_stack(stack[th])
                BY <1>1 DEF PoolOwned
            <4>2. CASE b \/ has_writer_tx_in_stack(stack[th])
                <5>1. writer' = writer
                    BY <1>2, <4>2
                <5>. QED BY <1>3, <1>5, <4>1, <4>2, <5>1, Zenon
            <4>3. CASE ~(b \/ has_writer_tx_in_stack(stack[th]))
                <5>1. writer' = th
                    BY <1>2, <4>3
                <5>. QED BY <1>3, <1>5, <4>3, <5>1, Zenon
            <4>. QED BY <4>2, <4>3
        <3>3. stack_lock' = th <=> call'[th].pc = "pop"
            BY <1>2, <1>4, DbAssumption
        <3>4. call'[th].pc \notin {"wait", "backend", "pop"}
            BY <1>4
        <3>. QED BY <1>1, <1>2, <2>1, <3>1, <3>2, <3>3, <3>4 DEF PoolOwned
    <2>2. CASE u # th
        <3>1. writer' = u <=> writer = u
            BY <1>2, <1>7, <2>2, DbAssumption
        <3>. QED BY <1>2, <1>4, <1>5, <2>2, <3>1, PoolFrame
    <2>. QED BY <2>1, <2>2
<1>. QED BY <1>6, <1>8 DEF PoolInv

\* mdb_txn_commit, or the end of a counted read-only transaction.
LEMMA PoolEndBackend == ASSUME PoolInv, NEW th \in Thread, end_backend(th) PROVE PoolInv'
<1> DEFINE open  == txs[th]
           top   == Last(open)
           below == Front(open)
           ends  == IF top.read_only THEN top.count = 1 ELSE top.count = 0
           write == ends /\ ~top.read_only
           inner == below # <<>> /\ ~Last(below).read_only
           kept  == [below EXCEPT ![Len(below)].view = top.view]
           less  == [open EXCEPT ![Len(open)].count = @ - 1]
           n     == IF ~ends THEN less ELSE IF write /\ inner THEN kept ELSE below
<1>1. /\ PoolShape(call[th]) /\ PoolOwned(th) /\ stack[th] \in Seq(BOOLEAN)
      /\ open \in Seq(PoolEntry) /\ Len(stack[th]) \in Nat
    BY PoolThread
<1>2. /\ call[th] = [pc |-> "backend", how |-> "commit"] /\ Len(stack[th]) > 0
      /\ stack_lock = NoThread /\ stack_lock' = th
      /\ EndBackend(th) /\ UnchangedLocks /\ UNCHANGED <<stack, writer, cache, size_cache>>
    BY <1>1 DEF end_backend, PoolShape, PoolOwned
<1>3. Booked(th) = stack[th] /\ Aligned(stack[th], open)
    BY <1>1, <1>2 DEF Booked, PoolOwned
<1>4. /\ Len(open) > 0 /\ top \in PoolEntry /\ below \in Seq(PoolEntry)
      /\ ends => Aligned(Front(stack[th]), below)
      /\ ~ends => less \in Seq(PoolEntry) /\ Aligned(Front(stack[th]), less)
                  /\ (HasWrite(less) <=> HasWrite(open))
      /\ HasWrite(open) <=> (HasWrite(below) \/ ~top.read_only)
    BY <1>1, <1>2, <1>3, BackendPops
<1>5. /\ txs' = [txs EXCEPT ![th] = n]
      /\ db' = IF write /\ ~inner THEN top.view ELSE db
      /\ write_owner' = IF write /\ ~HasWrite(below) THEN NoThread ELSE write_owner
    BY <1>2 DEF EndBackend, HasWrite
<1>6. (ends /\ inner) => kept \in Seq(PoolEntry) /\ Aligned(Front(stack[th]), kept)
                         /\ (HasWrite(kept) <=> HasWrite(below))
    <2>1. SUFFICES ASSUME ends, inner
                   PROVE  kept \in Seq(PoolEntry) /\ Aligned(Front(stack[th]), kept)
                          /\ (HasWrite(kept) <=> HasWrite(below))
        OBVIOUS
    <2> DEFINE s == Front(stack[th])
               e == [below[Len(below)] EXCEPT !.view = top.view]
    <2>2. /\ s \in Seq(BOOLEAN) /\ Aligned(s, below) /\ below \in Seq(PoolEntry)
          /\ Len(below) \in Nat /\ Len(s) \in Nat
        BY <1>1, <1>2, <1>4, <2>1, FrontType, LenProperties
    <2>3. Len(below) > 0 /\ Len(below) \in 1..Len(below)
        BY <2>1, <2>2, EmptySeq
    <2>4. below[Len(below)] \in PoolEntry /\ top.view \in Content
        BY <1>4, <2>2, <2>3, WidthType DEF PoolEntry
    <2>5. /\ e \in PoolEntry /\ e.read_only = below[Len(below)].read_only
          /\ Width(e) = Width(below[Len(below)]) /\ Width(e) \in Nat
        BY <2>4 DEF PoolEntry, Width
    <2>6. Width(below[Len(below)]) > 0
        BY <2>2, <2>3, AlignedFacts, WidthType, LenProperties
    <2>7. kept = [below EXCEPT ![Len(below)] = e]
        BY <2>2, <2>3
    <2> HIDE DEF e, kept, s, below
    <2>8. Width(e) > 0 /\ Len(s) + Width(below[Len(below)]) = Len(s) + Width(e)
        BY <2>5, <2>6
    <2>9. \A i \in 1..Len(s) : (i \in 1..Len(s) /\ s[i] = s[i]) \/ (i > Len(s) /\ s[i])
        OBVIOUS
    <2>10. kept \in Seq(PoolEntry) /\ Aligned(s, kept) /\ (HasWrite(kept) <=> HasWrite(below))
        BY <2>2, <2>3, <2>5, <2>7, <2>8, <2>9, LastCounted
    <2>. QED BY <2>10 DEF s
<1> HIDE DEF kept, less, inner, ends, below
<1>7. /\ n \in Seq(PoolEntry) /\ Aligned(Front(stack[th]), n)
      /\ HasWrite(n) <=> IF write THEN HasWrite(below) ELSE HasWrite(open)
    <2>1. CASE ~ends
        BY <1>4, <2>1
    <2>2. CASE ends /\ inner /\ ~top.read_only
        BY <1>6, <2>2
    <2>3. CASE ends /\ top.read_only
        BY <1>4, <2>3
    <2>4. CASE ends /\ ~inner /\ ~top.read_only
        BY <1>4, <2>4
    <2>. QED BY <2>1, <2>2, <2>3, <2>4
<1>8. write => HasWrite(open)
    BY <1>4
<1>9. db' \in Content
    BY <1>4, <1>5 DEF PoolInv, PoolTypes, PoolEntry
<1> HIDE DEF n, write, top
<1>10. txs' \in [Thread -> Seq(PoolEntry)] /\ txs'[th] = n
       /\ \A u \in Thread : u # th => txs'[u] = txs[u]
    BY <1>5, <1>7 DEF PoolInv, PoolTypes
<1> DEFINE c == [pc |-> "pop", how |-> "commit"]
<1>11. Go(th, c) /\ PoolShape(c) /\ c.pc = "pop"
    BY <1>2 DEF end_backend, PoolShape, PoolLabels
<1> HIDE DEF c
<1>12. /\ DOMAIN call' = Thread /\ call'[th] = c
       /\ \A u \in Thread : u # th => call'[u] = call[u]
    BY <1>11, GoCall DEF PoolInv, PoolTypes
<1>13. PoolTypes'
    BY <1>2, <1>5, <1>9, <1>10, <1>11, <1>12 DEF PoolInv, PoolTypes, UnchangedLocks
<1>14. (write_owner = th <=> HasWrite(open)) /\ (write => write_owner = th)
    BY <1>1, <1>8 DEF PoolOwned
<1>15. ASSUME NEW u \in Thread PROVE PoolOwned(u)'
    <2>1. CASE u = th
        <3>1. Booked(th)' = Front(stack[th])
            BY <1>2, <1>11, <1>12 DEF Booked
        <3>2. Len(Front(stack[th])) <= MaxNesting
            <4>1. Len(Front(stack[th])) = Len(stack[th]) - 1 /\ Len(stack[th]) <= MaxNesting
                BY <1>1, <1>2, <1>3, FrontType DEF PoolOwned
            <4>2. \A a, m \in Nat : a <= m => a - 1 <= m
                OBVIOUS
            <4>. QED BY <1>1, <4>1, <4>2, DbAssumption
        <3>3. write_owner' = th <=> HasWrite(n)
            <4>1. CASE write /\ ~HasWrite(below)
                BY <1>5, <1>7, <4>1, DbAssumption
            <4>2. CASE ~(write /\ ~HasWrite(below))
                <5>1. write_owner' = write_owner
                    BY <1>5, <4>2
                <5>. QED BY <1>7, <1>14, <4>2, <5>1
            <4>. QED BY <4>1, <4>2
        <3>4. /\ writer' = th <=> has_writer_tx_in_stack(stack'[th])
              /\ stack_lock' = th <=> call'[th].pc = "pop"
              /\ Len(stack'[th]) > 0
            BY <1>1, <1>2, <1>11, <1>12 DEF PoolOwned
        <3>. QED BY <1>7, <1>10, <2>1, <3>1, <3>2, <3>3, <3>4 DEF PoolOwned
    <2>2. CASE u # th
        <3>1. write_owner' = u <=> write_owner = u
            BY <1>5, <1>14, <2>2, DbAssumption
        <3>2. stack_lock' = u <=> stack_lock = u
            BY <1>2, <2>2, DbAssumption
        <3>. QED BY <1>2, <1>10, <1>12, <2>2, <3>1, <3>2, PoolFrame
    <2>. QED BY <2>1, <2>2
<1>. QED BY <1>13, <1>15 DEF PoolInv

\* The accessor's stack follows; the isolation ends with the thread's outermost write
\* transaction.
LEMMA PoolPop == ASSUME PoolInv, NEW th \in Thread, end_pop(th) PROVE PoolInv'
<1> DEFINE s2   == Front(stack[th])
           was  == InWriteTx(th)
           last == was /\ ~has_writer_tx_in_stack(s2)
           c    == IF was THEN [pc |-> "unlock"] ELSE Idle
<1>1. /\ PoolShape(call[th]) /\ PoolOwned(th) /\ stack[th] \in Seq(BOOLEAN)
    BY PoolThread
<1>2. /\ call[th] = [pc |-> "pop", how |-> "commit"] /\ Len(stack[th]) > 0
      /\ stack_lock = th /\ stack_lock' = NoThread
      /\ stack' = [stack EXCEPT ![th] = s2]
      /\ writer' = IF last THEN NoThread ELSE writer
      /\ cache' = cache /\ Go(th, c)
      /\ UnchangedLocks /\ UNCHANGED <<db, txs, write_owner, size_cache>>
    BY <1>1 DEF end_pop, PoolShape, PoolOwned
<1>3. /\ s2 \in Seq(BOOLEAN) /\ Booked(th) = s2
      /\ (has_writer_tx_in_stack(stack[th]) <=> (has_writer_tx_in_stack(s2) \/ was))
    <2>1. was <=> ~Last(stack[th])
        BY <1>1, <1>2, EmptySeq DEF InWriteTx
    <2>2. has_writer_tx_in_stack(stack[th]) <=> (has_writer_tx_in_stack(s2) \/ ~Last(stack[th]))
        BY <1>1, <1>2, WriterPopped
    <2>3. Booked(th) = s2
        BY <1>2 DEF Booked
    <2>. QED BY <1>1, <1>2, <2>1, <2>2, <2>3, FrontType
<1>4. PoolShape(c) /\ c.pc \in {"idle", "unlock"}
    BY DEF PoolShape, PoolLabels, Idle
<1> HIDE DEF s2, was, c
<1>5. /\ DOMAIN call' = Thread /\ call'[th] = c
      /\ \A u \in Thread : u # th => call'[u] = call[u]
    BY <1>2, GoCall DEF PoolInv, PoolTypes
<1>6. /\ stack' \in [Thread -> Seq(BOOLEAN)] /\ stack'[th] = s2
      /\ \A u \in Thread : u # th => stack'[u] = stack[u]
    BY <1>2, <1>3 DEF PoolInv, PoolTypes
<1>7. PoolTypes'
    BY <1>2, <1>4, <1>5, <1>6 DEF PoolInv, PoolTypes, UnchangedLocks
<1>8. writer = th <=> (has_writer_tx_in_stack(s2) \/ was)
    BY <1>1, <1>3 DEF PoolOwned
<1>9. ASSUME NEW u \in Thread PROVE PoolOwned(u)'
    <2>1. CASE u = th
        <3>1. Booked(th)' = Booked(th)
            BY <1>3, <1>4, <1>5, <1>6 DEF Booked
        <3>2. writer' = th <=> has_writer_tx_in_stack(stack'[th])
            BY <1>2, <1>6, <1>8, DbAssumption
        <3>3. stack_lock' = th <=> call'[th].pc = "pop"
            BY <1>2, <1>4, <1>5, DbAssumption
        <3>4. call'[th].pc \notin {"wait", "backend", "pop"}
            BY <1>4, <1>5
        <3>. QED BY <1>1, <1>2, <2>1, <3>1, <3>2, <3>3, <3>4 DEF PoolOwned
    <2>2. CASE u # th
        <3>1. writer' = u <=> writer = u
            BY <1>2, <1>8, <2>2, DbAssumption
        <3>2. stack_lock' = u <=> stack_lock = u
            BY <1>2, <2>2, DbAssumption
        <3>. QED BY <1>2, <1>5, <1>6, <2>2, <3>1, <3>2, PoolFrame
    <2>. QED BY <2>1, <2>2
<1>. QED BY <1>7, <1>9 DEF PoolInv

\* The pool's database starts empty as well.
LEMMA PoolInit == ASSUME Init PROVE PoolInv
<1>1. Empty \in Content
    BY DEF Empty, Content
<1>2. Cardinality(Key) \in Nat
    BY DbAssumption, FS_CardinalityType
<1>3. PoolShape(Idle) /\ Idle.pc = "idle"
    BY DEF PoolShape, PoolLabels, Idle
<1>4. /\ \A S : <<>> \in Seq(S)
      /\ Len(<<>>) = 0 /\ DOMAIN <<>> = {}
    BY EmptySeq
<1>5. PoolTypes
    BY <1>1, <1>2, <1>3, <1>4 DEF Init, PoolTypes
<1>6. ~HasWrite(<<>>) /\ ~has_writer_tx_in_stack(<<>>)
    BY <1>4 DEF HasWrite, has_writer_tx_in_stack
<1>7. Aligned(<<>>, <<>>)
    <2> DEFINE g == [j \in 1..1 |-> 1]
    <2>1. Starts(g, 0, 0)
        BY DEF Starts
    <2>2. AlignedBy(g, <<>>, <<>>)
        BY <1>4, <2>1 DEF AlignedBy
    <2>. QED BY <2>2 DEF Aligned
<1>8. ASSUME NEW th \in Thread PROVE PoolOwned(th)
    <2>1. Booked(th) = <<>>
        BY <1>3 DEF Init, Booked
    <2>. QED BY <1>3, <1>4, <1>6, <1>7, <2>1, DbAssumption DEF Init, PoolOwned
<1>. QED BY <1>5, <1>8 DEF PoolInv

\* Every step of the pool keeps the invariant.
LEMMA PoolStepKeeps == ASSUME PoolInv, [PoolNext]_vars PROVE PoolInv'
<1>1. CASE UNCHANGED vars
    <2>1. PoolTypes'
        BY <1>1 DEF PoolInv, PoolTypes, vars
    <2>2. \A u \in Thread : PoolOwned(u)'
        BY <1>1, PoolFrame DEF vars
    <2>. QED BY <2>1, <2>2 DEF PoolInv
<1>2. ASSUME NEW th \in Thread, PoolStep(th) PROVE PoolInv'
    <2>1. CASE Continue(th)
        <3>1. ~have_block_alt(th)
            BY DEF have_block_alt, PoolInv, PoolTypes, PoolShape, PoolLabels
        <3>. QED BY <2>1, <3>1, PoolPush, PoolLockStep, PoolEndBackend, PoolPop, PoolReadStep
             DEF Continue
    <2>2. CASE WriteStep(th)
        BY <2>2, PoolWriteStep
    <2>3. CASE \E readonly \in BOOLEAN : begin_backend(th, readonly)
        BY <2>3, PoolBegin
    <2>4. CASE commit_transaction(th)
        BY <2>4, PoolLockStep
    <2>5. CASE size(th)
        BY <2>5, PoolSizeStep
    <2>6. CASE \E k \in Key : get(th, k)
        BY <2>6, PoolReadStep
    <2>. QED BY <1>2, <2>1, <2>2, <2>3, <2>4, <2>5, <2>6 DEF PoolStep
<1>. QED BY <1>1, <1>2 DEF PoolNext

\* The invariant holds in every state of the pool's database.
THEOREM PoolInvariant == PoolSpec => []PoolInv
BY PoolInit, PoolStepKeeps, PTL DEF PoolSpec

\* Nor is the isolation of the cache switched on twice, or off by a thread that is not the
\* writer, in the pool's database, where read-only transactions stand between the writers'.
THEOREM PoolIsolation == PoolSpec => []IsolationExclusive
<1>1. PoolInv => IsolationExclusive
    <2>1. SUFFICES ASSUME PoolInv, NEW th \in Thread
                   PROVE  /\ (call[th].pc = "begin" /\ stack_lock = NoThread /\ ~call[th].readonly
                                 /\ ~has_writer_tx_in_stack(stack[th])) => writer = NoThread
                          /\ call[th].pc = "pop" /\ InWriteTx(th) => writer = th
        BY DEF IsolationExclusive
    <2>2. PoolOwned(th) /\ stack[th] \in Seq(BOOLEAN) /\ Len(stack[th]) \in Nat
        BY <2>1, PoolThread
    <2>3. InWriteTx(th) => has_writer_tx_in_stack(stack[th])
        <3>1. SUFFICES ASSUME InWriteTx(th) PROVE has_writer_tx_in_stack(stack[th])
            OBVIOUS
        <3>2. Len(stack[th]) > 0 /\ ~Last(stack[th])
            BY <2>2, <3>1, EmptySeq DEF InWriteTx
        <3>. QED BY <2>2, <3>2, WriterPopped
    <2>. QED BY <2>1, <2>2, <2>3, PoolWriterGone DEF PoolOwned
<1>. QED BY <1>1, PoolInvariant, PTL

\* Type correctness of the pool's database; a counted transaction never exceeds the depth of
\* the nesting, and a thread in no call has one in the backend if and only if it has one in the
\* accessor's stack.
THEOREM PoolTypeCorrect == PoolSpec => []TypeOK
<1>1. ASSUME PoolInv PROVE TypeOK
    <2>1. ASSUME NEW th \in Thread, NEW i \in DOMAIN txs[th]
          PROVE  txs[th][i] \in [read_only : BOOLEAN, count : 0..MaxNesting, view : Content]
        <3>1. /\ txs[th] \in Seq(PoolEntry) /\ i \in 1..Len(txs[th])
              /\ Len(Booked(th)) \in Nat /\ Len(Booked(th)) <= MaxNesting
              /\ Width(txs[th][i]) <= Len(Booked(th))
            BY <1>1, <2>1, PoolThread, LenProperties DEF PoolOwned
        <3>2. txs[th][i] \in PoolEntry
            BY <3>1, ElementOfSeq
        <3>3. txs[th][i].count \in Nat /\ txs[th][i].count <= Width(txs[th][i])
              /\ Width(txs[th][i]) \in Nat
            BY <3>2 DEF PoolEntry, Width
        <3>4. txs[th][i].count \in 0..MaxNesting
            BY <3>1, <3>3, DbAssumption
        <3>. QED BY <3>2, <3>4 DEF PoolEntry
    <2>2. ASSUME NEW th \in Thread, NEW i \in DOMAIN stack[th] PROVE stack[th][i] \in BOOLEAN
        BY <1>1, <2>2, PoolThread, ElementOfSeq, LenProperties
    <2>3. ASSUME NEW th \in Thread
          PROVE  /\ call[th].pc \in Labels
                 /\ call[th].pc = "idle" => (stack[th] = <<>> <=> txs[th] = <<>>)
        <3>1. /\ PoolShape(call[th])
              /\ txs[th] \in Seq(PoolEntry) /\ stack[th] \in Seq(BOOLEAN)
              /\ Len(Booked(th)) = 0 <=> Len(txs[th]) = 0
            BY <1>1, PoolThread
        <3>2. call[th].pc = "idle" => Booked(th) = stack[th]
            BY DEF Booked
        <3>. QED BY <3>1, <3>2, EmptySeq DEF PoolShape, PoolLabels, Labels
    <2>4. /\ size_cache.size \in 0..Cardinality(Key) /\ size_cache.valid \in BOOLEAN
          /\ db \in Content /\ cache \in Content /\ readers \subseteq Thread
          /\ {write_owner, stack_lock, writer, exclusive, alt_lock} \subseteq Thread \cup {NoThread}
        BY <1>1 DEF PoolInv, PoolTypes
    <2>. QED BY <2>1, <2>2, <2>3, <2>4 DEF TypeOK, Labels
<1>. QED BY <1>1, PoolInvariant, PTL
=============================================================================
