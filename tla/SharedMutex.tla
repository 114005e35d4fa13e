----------------------------- MODULE SharedMutex -----------------------------
(***************************************************************************)
(* shared_recursive_mutex (epee/readwrite_lock.h), step by step: a counter *)
(* of readers, a recursive mutex that readers pass through and a writer    *)
(* keeps, and a condition variable on which the writer waits for the last  *)
(* reader.  What a thread does under cv_mutex is one step.                 *)
(***************************************************************************)
EXTENDS Naturals, FiniteSets

CONSTANTS
    Thread, NoThread,
    MaxRecursion  \* bound: how often a thread enters before it leaves

ASSUME MutexAssumption ==
    /\ IsFiniteSet(Thread)
    /\ NoThread \notin Thread
    /\ MaxRecursion \in Nat

VARIABLES
    readers_count,
    exclusive_lock, \* the owner of exclusive_lock
    ptc,            \* per thread: recursion_count and is_writer_thread
    pc              \* per thread: where it is in lock, unlock, lock_shared or unlock_shared

vars == <<readers_count, exclusive_lock, ptc, pc>>

NoData == [recursion_count |-> 0, is_writer_thread |-> FALSE]

Init ==
    /\ readers_count = 0
    /\ exclusive_lock = NoThread
    /\ ptc = [th \in Thread |-> NoData]
    /\ pc = [th \in Thread |-> "user"]

Goto(th, label) == pc' = [pc EXCEPT ![th] = label]

(***************************************************************************)
(* lock and unlock.  A user never asks for exclusive ownership while it    *)
(* shares the mutex: the restriction the class comment states.             *)
(***************************************************************************)

lock(th) ==
    /\ pc[th] = "user"
    /\ ptc[th].recursion_count < MaxRecursion
    /\ ptc[th].recursion_count = 0 \/ ptc[th].is_writer_thread
    /\ exclusive_lock \in {NoThread, th}
    /\ exclusive_lock' = th
    /\ Goto(th, "lock")
    /\ UNCHANGED <<readers_count, ptc>>

\* mutant: the writer does not wait
lock_count_no_wait(th) ==
    /\ pc[th] = "lock"
    /\ ptc' = [ptc EXCEPT ![th] = [recursion_count |-> @.recursion_count + 1,
                                   is_writer_thread |-> TRUE]]
    /\ Goto(th, "user")
    /\ UNCHANGED <<readers_count, exclusive_lock>>

lock_count(th) ==
    /\ pc[th] = "lock"
    /\ ptc' = [ptc EXCEPT ![th] = [recursion_count |-> @.recursion_count + 1,
                                   is_writer_thread |-> TRUE]]
    /\ Goto(th, IF readers_count = 0 THEN "user" ELSE "wait")
    /\ UNCHANGED <<readers_count, exclusive_lock>>

\* cv.wait returns, and its predicate is evaluated again
lock_woken(th) ==
    /\ pc[th] = "woken"
    /\ Goto(th, IF readers_count = 0 THEN "user" ELSE "wait")
    /\ UNCHANGED <<readers_count, exclusive_lock, ptc>>

\* the per thread data go with the last recursion
Leave(th) ==
    [ptc EXCEPT ![th] = IF @.recursion_count = 1 THEN NoData
                        ELSE [recursion_count |-> @.recursion_count - 1,
                              is_writer_thread |-> @.is_writer_thread]]

unlock(th) ==
    /\ pc[th] = "user" /\ ptc[th].is_writer_thread
    /\ ptc' = Leave(th)
    /\ exclusive_lock' = IF ptc[th].recursion_count = 1 THEN NoThread ELSE exclusive_lock
    /\ UNCHANGED <<readers_count, pc>>

(***************************************************************************)
(* lock_shared and unlock_shared.                                          *)
(***************************************************************************)

lock_shared(th) ==
    /\ pc[th] = "user" /\ ptc[th].recursion_count = 0 /\ MaxRecursion > 0
    /\ exclusive_lock = NoThread
    /\ exclusive_lock' = th
    /\ Goto(th, "shared_count")
    /\ UNCHANGED <<readers_count, ptc>>

lock_shared_count(th) ==
    /\ pc[th] = "shared_count"
    /\ readers_count' = readers_count + 1
    /\ Goto(th, "shared_enter")
    /\ UNCHANGED <<exclusive_lock, ptc>>

lock_shared_enter(th) ==
    /\ pc[th] = "shared_enter"
    /\ ptc' = [ptc EXCEPT ![th].recursion_count = 1]
    /\ exclusive_lock' = NoThread
    /\ Goto(th, "user")
    /\ UNCHANGED readers_count

\* mutant: every entrance is counted
lock_shared_again_counted(th) ==
    /\ pc[th] = "user" /\ ptc[th].recursion_count \in 1..(MaxRecursion - 1)
    /\ ~ptc[th].is_writer_thread
    /\ ptc' = [ptc EXCEPT ![th].recursion_count = @ + 1]
    /\ readers_count' = readers_count + 1
    /\ UNCHANGED <<exclusive_lock, pc>>

\* only the first entrance of a reader passes through exclusive_lock and is counted
lock_shared_again(th) ==
    /\ pc[th] = "user" /\ ptc[th].recursion_count \in 1..(MaxRecursion - 1)
    /\ ~ptc[th].is_writer_thread
    /\ ptc' = [ptc EXCEPT ![th].recursion_count = @ + 1]
    /\ UNCHANGED <<readers_count, exclusive_lock, pc>>

\* mutant: every exit counts as the last one
unlock_shared_every(th) ==
    /\ pc[th] = "user" /\ ptc[th].recursion_count > 0 /\ ~ptc[th].is_writer_thread
    /\ ptc' = Leave(th)
    /\ Goto(th, "unshare")
    /\ UNCHANGED <<readers_count, exclusive_lock>>

unlock_shared(th) ==
    /\ pc[th] = "user" /\ ptc[th].recursion_count > 0 /\ ~ptc[th].is_writer_thread
    /\ ptc' = Leave(th)
    /\ Goto(th, IF ptc[th].recursion_count = 1 THEN "unshare" ELSE "user")
    /\ UNCHANGED <<readers_count, exclusive_lock>>

unlock_shared_count(th) ==
    /\ pc[th] = "unshare"
    /\ readers_count' = readers_count - 1
    /\ Goto(th, "unshare_test")
    /\ UNCHANGED <<exclusive_lock, ptc>>

\* readers_count is read again after cv_mutex is released
unlock_shared_test(th) ==
    /\ pc[th] = "unshare_test"
    /\ Goto(th, IF readers_count = 0 THEN "notify" ELSE "user")
    /\ UNCHANGED <<readers_count, exclusive_lock, ptc>>

\* mutant: the last reader that leaves does not notify
unlock_shared_notify_never(th) ==
    /\ pc[th] = "notify"
    /\ Goto(th, "user")
    /\ UNCHANGED <<readers_count, exclusive_lock, ptc>>

\* cv.notify_all
unlock_shared_notify(th) ==
    /\ pc[th] = "notify"
    /\ pc' = [u \in Thread |-> IF u = th THEN "user" ELSE IF pc[u] = "wait" THEN "woken" ELSE pc[u]]
    /\ UNCHANGED <<readers_count, exclusive_lock, ptc>>

Inside(th) ==
    \/ lock_count(th) \/ lock_woken(th)
    \/ lock_shared_count(th) \/ lock_shared_enter(th)
    \/ unlock_shared_count(th) \/ unlock_shared_test(th) \/ unlock_shared_notify(th)

Next ==
    \E th \in Thread :
        \/ Inside(th)
        \/ lock(th) \/ unlock(th)
        \/ lock_shared(th) \/ lock_shared_again(th) \/ unlock_shared(th)

Spec == Init /\ [][Next]_vars

\* A thread inside one of the four functions goes on, and an owner leaves in the end,
\* however often it enters again before it does.
LiveSpec ==
    /\ Spec
    /\ \A th \in Thread :
          /\ WF_vars(Inside(th))
          /\ WF_vars(unlock_shared(th) \/ unlock(th))
          /\ SF_vars(ptc[th].recursion_count = 1 /\ unlock_shared(th))
          /\ SF_vars(ptc[th].recursion_count = 1 /\ unlock(th))

(***************************************************************************)
(* Properties.                                                             *)
(***************************************************************************)

Labels == {"user", "lock", "wait", "woken", "shared_count", "shared_enter",
           "unshare", "unshare_test", "notify"}

\* Every variable has its type.
TypeOK ==
    /\ readers_count \in Nat
    /\ exclusive_lock \in Thread \cup {NoThread}
    /\ ptc \in [Thread -> [recursion_count : Nat, is_writer_thread : BOOLEAN]]
    /\ pc \in [Thread -> Labels]

Owns(th)   == ptc[th].is_writer_thread /\ pc[th] \notin {"wait", "woken"}
Passes(th) == pc[th] \in {"shared_count", "shared_enter"}
Shares(th) == ptc[th].recursion_count > 0 /\ ~ptc[th].is_writer_thread

\* readers_count is the number of threads between its increment and its decrement, so it
\* never wraps below zero and a writer that finds it zero is alone.
Counted == {th \in Thread : Shares(th) \/ pc[th] \in {"shared_enter", "unshare"}}
ReadersCounted == readers_count = Cardinality(Counted)

\* Who is where: a thread on its way through exclusive_lock owns it, its owner is a writer or
\* on its way, and the owner that returned from lock found no reader.
Position(th) ==
    /\ pc[th] \in {"lock", "wait", "woken"} \/ Passes(th) \/ ptc[th].is_writer_thread
          => exclusive_lock = th
    /\ exclusive_lock = th => pc[th] = "lock" \/ Passes(th) \/ ptc[th].is_writer_thread
    /\ ptc[th].is_writer_thread
          => ptc[th].recursion_count > 0 /\ pc[th] \in {"user", "lock", "wait", "woken"}
    /\ pc[th] \in {"wait", "woken"} => ptc[th].is_writer_thread
    /\ pc[th] = "lock" /\ ptc[th].recursion_count > 0 => ptc[th].is_writer_thread
    /\ pc[th] \notin {"user", "lock", "wait", "woken"} => ptc[th] = NoData
    /\ Owns(th) => readers_count = 0
Positions == \A th \in Thread : Position(th)

Lock == INSTANCE RWLock WITH
    sharing <- {th \in Thread : Shares(th)},
    claimed <- IF \E th \in Thread : exclusive_lock = th /\ Passes(th) THEN NoThread
               ELSE exclusive_lock,
    granted <- \E th \in Thread : Owns(th)

\* The mutex implements the abstract read-write lock: shared and exclusive ownership never
\* meet, through all of counting, waiting and waking up.
ImplementsRWLock == Lock!Spec

\* No wakeup is lost: a writer that waits for the readers becomes the owner, although
\* the last reader notifies after it has released cv_mutex.
WriterEnters == \A th \in Thread : (pc[th] \in {"lock", "wait", "woken"}) ~> Owns(th)
=============================================================================
