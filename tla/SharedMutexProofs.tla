-------------------------- MODULE SharedMutexProofs --------------------------
(***************************************************************************)
(* shared_recursive_mutex implements the abstract read-write lock, for     *)
(* every finite set of threads and every depth of recursion.               *)
(***************************************************************************)
EXTENDS SharedMutex, FiniteSetTheorems, TLAPS

Inv == TypeOK /\ ReadersCounted /\ Positions

\* The threads that are counted form a finite set, as all threads do.
LEMMA CountedFinite == IsFiniteSet(Counted) /\ Cardinality(Counted) \in Nat
<1>1. Counted \subseteq Thread
  BY DEF Counted
<1>2. IsFiniteSet(Counted)
  BY <1>1, MutexAssumption, FS_Subset
<1>. QED
  BY <1>2, FS_CardinalityType

\* The invariant holds when the mutex is constructed.
LEMMA InitInv == Init => Inv
<1>. SUFFICES ASSUME Init PROVE Inv
  OBVIOUS
<1>1. TypeOK
  BY DEF Init, TypeOK, NoData, Labels
<1>2. ReadersCounted
  <2>1. Counted = {}
    BY DEF Init, Counted, Shares, NoData
  <2>. QED
    BY <2>1, FS_EmptySet DEF Init, ReadersCounted
<1>3. Positions
  BY MutexAssumption DEF Init, Positions, Position, NoData, Owns, Passes
<1>. QED
  BY <1>1, <1>2, <1>3 DEF Inv

\* No step leaves the types; readers_count stays a natural number because whoever
\* decrements it is counted.
LEMMA NextType == Inv /\ [Next]_vars => TypeOK'
<1>. SUFFICES ASSUME Inv, [Next]_vars PROVE TypeOK'
  OBVIOUS
<1>. USE DEF Inv, TypeOK, Labels
<1>1. CASE UNCHANGED vars
  BY <1>1 DEF vars
<1>2. ASSUME NEW th \in Thread, lock(th) PROVE TypeOK'
  BY <1>2 DEF lock, Goto
<1>3. ASSUME NEW th \in Thread, lock_count(th) PROVE TypeOK'
  BY <1>3 DEF lock_count, Goto
<1>4. ASSUME NEW th \in Thread, lock_woken(th) PROVE TypeOK'
  BY <1>4 DEF lock_woken, Goto
<1>5. ASSUME NEW th \in Thread, unlock(th) PROVE TypeOK'
  BY <1>5 DEF unlock, Leave, NoData, Positions, Position
<1>6. ASSUME NEW th \in Thread, lock_shared(th) PROVE TypeOK'
  BY <1>6 DEF lock_shared, Goto
<1>7. ASSUME NEW th \in Thread, lock_shared_count(th) PROVE TypeOK'
  BY <1>7 DEF lock_shared_count, Goto
<1>8. ASSUME NEW th \in Thread, lock_shared_enter(th) PROVE TypeOK'
  BY <1>8 DEF lock_shared_enter, Goto
<1>9. ASSUME NEW th \in Thread, lock_shared_again(th) PROVE TypeOK'
  BY <1>9 DEF lock_shared_again
<1>10. ASSUME NEW th \in Thread, unlock_shared(th) PROVE TypeOK'
  BY <1>10 DEF unlock_shared, Goto, Leave, NoData
<1>11. ASSUME NEW th \in Thread, unlock_shared_count(th) PROVE TypeOK'
  <2>1. th \in Counted
    BY <1>11 DEF unlock_shared_count, Counted
  <2>2. Cardinality(Counted) # 0
    BY <2>1, CountedFinite, FS_EmptySet
  <2>3. readers_count - 1 \in Nat
    BY <2>2 DEF ReadersCounted
  <2>. QED
    BY <1>11, <2>3 DEF unlock_shared_count, Goto
<1>12. ASSUME NEW th \in Thread, unlock_shared_test(th) PROVE TypeOK'
  BY <1>12 DEF unlock_shared_test, Goto
<1>13. ASSUME NEW th \in Thread, unlock_shared_notify(th) PROVE TypeOK'
  BY <1>13 DEF unlock_shared_notify
<1>. QED
  BY <1>1, <1>2, <1>3, <1>4, <1>5, <1>6, <1>7, <1>8, <1>9, <1>10, <1>11, <1>12, <1>13
     DEF Next, Inside

\* Only lock_shared_count and unlock_shared_count change who is counted.
LEMMA NextCounted == Inv /\ [Next]_vars => ReadersCounted'
<1>. SUFFICES ASSUME Inv, [Next]_vars PROVE ReadersCounted'
  OBVIOUS
<1>. USE DEF Inv, TypeOK
<1>0. ASSUME Counted' = Counted, readers_count' = readers_count PROVE ReadersCounted'
  BY <1>0 DEF ReadersCounted
<1>1. CASE UNCHANGED vars
  BY <1>1, <1>0 DEF vars, Counted, Shares
<1>2. ASSUME NEW th \in Thread, lock(th) PROVE ReadersCounted'
  BY <1>2, <1>0 DEF lock, Goto, Counted, Shares
<1>3. ASSUME NEW th \in Thread, lock_count(th) PROVE ReadersCounted'
  BY <1>3, <1>0 DEF lock_count, Goto, Counted, Shares, Positions, Position
<1>4. ASSUME NEW th \in Thread, lock_woken(th) PROVE ReadersCounted'
  BY <1>4, <1>0 DEF lock_woken, Goto, Counted, Shares
<1>5. ASSUME NEW th \in Thread, unlock(th) PROVE ReadersCounted'
  BY <1>5, <1>0 DEF unlock, Leave, NoData, Counted, Shares
<1>6. ASSUME NEW th \in Thread, lock_shared(th) PROVE ReadersCounted'
  BY <1>6, <1>0 DEF lock_shared, Goto, Counted, Shares
<1>7. ASSUME NEW th \in Thread, lock_shared_count(th) PROVE ReadersCounted'
  <2>1. th \notin Counted
    BY <1>7 DEF lock_shared_count, Counted, Shares, Positions, Position, NoData
  <2>2. Counted' = Counted \cup {th}
    BY <1>7 DEF lock_shared_count, Goto, Counted, Shares
  <2>3. Cardinality(Counted') = Cardinality(Counted) + 1
    BY <2>1, <2>2, CountedFinite, FS_AddElement
  <2>. QED
    BY <1>7, <2>3 DEF lock_shared_count, ReadersCounted
<1>8. ASSUME NEW th \in Thread, lock_shared_enter(th) PROVE ReadersCounted'
  BY <1>8, <1>0 DEF lock_shared_enter, Goto, Counted, Shares, Positions, Position, NoData
<1>9. ASSUME NEW th \in Thread, lock_shared_again(th) PROVE ReadersCounted'
  BY <1>9, <1>0 DEF lock_shared_again, Counted, Shares
<1>10. ASSUME NEW th \in Thread, unlock_shared(th) PROVE ReadersCounted'
  BY <1>10, <1>0 DEF unlock_shared, Goto, Leave, NoData, Counted, Shares
<1>11. ASSUME NEW th \in Thread, unlock_shared_count(th) PROVE ReadersCounted'
  <2>1. th \in Counted
    BY <1>11 DEF unlock_shared_count, Counted
  <2>2. Counted' = Counted \ {th}
    BY <1>11 DEF unlock_shared_count, Goto, Counted, Shares, Positions, Position, NoData
  <2>3. Cardinality(Counted') = Cardinality(Counted) - 1
    BY <2>1, <2>2, CountedFinite, FS_RemoveElement
  <2>. QED
    BY <1>11, <2>3 DEF unlock_shared_count, ReadersCounted
<1>12. ASSUME NEW th \in Thread, unlock_shared_test(th) PROVE ReadersCounted'
  BY <1>12, <1>0 DEF unlock_shared_test, Goto, Counted, Shares
<1>13. ASSUME NEW th \in Thread, unlock_shared_notify(th) PROVE ReadersCounted'
  BY <1>13, <1>0 DEF unlock_shared_notify, Counted, Shares
<1>. QED
  BY <1>1, <1>2, <1>3, <1>4, <1>5, <1>6, <1>7, <1>8, <1>9, <1>10, <1>11, <1>12, <1>13
     DEF Next, Inside

\* Every step of the four functions leaves each thread where Position allows it.
LEMMA NextPositions == Inv /\ [Next]_vars => Positions'
<1>. SUFFICES ASSUME Inv, [Next]_vars PROVE Positions'
  OBVIOUS
<1>. USE MutexAssumption DEF Inv, TypeOK, Labels, Positions, Position, Owns, Passes, NoData
<1>1. CASE UNCHANGED vars
  BY <1>1 DEF vars
<1>2. ASSUME NEW th \in Thread, lock(th) PROVE Positions'
  BY <1>2 DEF lock, Goto
<1>3. ASSUME NEW th \in Thread, lock_count(th) PROVE Positions'
  BY <1>3 DEF lock_count, Goto
<1>4. ASSUME NEW th \in Thread, lock_woken(th) PROVE Positions'
  BY <1>4 DEF lock_woken, Goto
<1>5. ASSUME NEW th \in Thread, unlock(th) PROVE Positions'
  <2>1. pc[th] = "user" /\ ptc[th].is_writer_thread /\ exclusive_lock = th
    BY <1>5 DEF unlock
  <2>2. \A u \in Thread \ {th} : ptc'[u] = ptc[u]
    BY <1>5 DEF unlock, Leave
  <2>3. \A u \in Thread \ {th} :
           ~ptc[u].is_writer_thread /\ pc[u] \notin {"lock", "wait", "woken"} /\ ~Passes(u)
    BY <2>1
  <2>4. CASE ptc[th].recursion_count = 1
    <3>1. ptc'[th] = NoData /\ exclusive_lock' = NoThread /\ pc' = pc
          /\ readers_count' = readers_count
      BY <1>5, <2>4 DEF unlock, Leave
    <3>2. Position(th)'
      BY <2>1, <3>1
    <3>3. ASSUME NEW u \in Thread \ {th} PROVE Position(u)'
      BY <2>2, <2>3, <3>1
    <3>. QED
      BY <3>2, <3>3
  <2>5. CASE ptc[th].recursion_count # 1
    <3>1. /\ ptc'[th].is_writer_thread /\ ptc'[th].recursion_count > 0
          /\ exclusive_lock' = exclusive_lock /\ pc' = pc /\ readers_count' = readers_count
      BY <1>5, <2>1, <2>5 DEF unlock, Leave
    <3>. QED
      BY <2>1, <2>2, <2>3, <3>1
  <2>. QED
    BY <2>4, <2>5
<1>6. ASSUME NEW th \in Thread, lock_shared(th) PROVE Positions'
  BY <1>6 DEF lock_shared, Goto
<1>7. ASSUME NEW th \in Thread, lock_shared_count(th) PROVE Positions'
  BY <1>7 DEF lock_shared_count, Goto
<1>8. ASSUME NEW th \in Thread, lock_shared_enter(th) PROVE Positions'
  BY <1>8 DEF lock_shared_enter, Goto
<1>9. ASSUME NEW th \in Thread, lock_shared_again(th) PROVE Positions'
  <2>1. /\ pc[th] = "user" /\ ptc[th].recursion_count > 0 /\ ~ptc[th].is_writer_thread
        /\ ptc'[th].recursion_count = ptc[th].recursion_count + 1
        /\ ptc'[th].is_writer_thread = ptc[th].is_writer_thread
    BY <1>9 DEF lock_shared_again
  <2>2. \A u \in Thread \ {th} : ptc'[u] = ptc[u]
    BY <1>9 DEF lock_shared_again
  <2>. QED
    BY <1>9, <2>1, <2>2 DEF lock_shared_again
<1>10. ASSUME NEW th \in Thread, unlock_shared(th) PROVE Positions'
  BY <1>10 DEF unlock_shared, Goto, Leave
<1>11. ASSUME NEW th \in Thread, unlock_shared_count(th) PROVE Positions'
  <2>1. th \in Counted
    BY <1>11 DEF unlock_shared_count, Counted
  <2>2. readers_count # 0
    BY <2>1, CountedFinite, FS_EmptySet DEF ReadersCounted
  <2>. QED
    BY <1>11, <2>2 DEF unlock_shared_count, Goto
<1>12. ASSUME NEW th \in Thread, unlock_shared_test(th) PROVE Positions'
  BY <1>12 DEF unlock_shared_test, Goto
<1>13. ASSUME NEW th \in Thread, unlock_shared_notify(th) PROVE Positions'
  BY <1>13 DEF unlock_shared_notify
<1>. QED
  BY <1>1, <1>2, <1>3, <1>4, <1>5, <1>6, <1>7, <1>8, <1>9, <1>10, <1>11, <1>12, <1>13
     DEF Next, Inside

\* The invariant that the counting and the refinement rest on.
THEOREM Invariance == Spec => []Inv
<1>1. Inv /\ [Next]_vars => Inv'
  BY NextType, NextCounted, NextPositions DEF Inv
<1>. QED
  BY InitInv, <1>1, PTL DEF Spec

\* The fields keep their types; that readers_count stays a natural number rests on the count
\* being exact, since unlock_shared decrements it without looking.
THEOREM TypeCorrect == Spec => []TypeOK
<1>1. Inv => TypeOK
  BY DEF Inv
<1>. QED
  BY Invariance, <1>1, PTL

\* readers_count is exact at every step of every thread, so it never wraps below zero.
THEOREM CountExact == Spec => []ReadersCounted
<1>1. Inv => ReadersCounted
  BY DEF Inv
<1>. QED
  BY Invariance, <1>1, PTL

-----------------------------------------------------------------------------

\* A new mutex is a free lock.
LEMMA InitRefines == Init => Lock!Init
  BY MutexAssumption DEF Init, Lock!Init, NoData, Shares, Owns, Passes

\* Abbreviations for the abstract state.
Sharing == {th \in Thread : Shares(th)}
Claimed == IF \E th \in Thread : exclusive_lock = th /\ Passes(th) THEN NoThread
           ELSE exclusive_lock
Granted == \E th \in Thread : Owns(th)

\* The owner of exclusive_lock decides the abstract state of the exclusive side.
LEMMA Owner ==
    ASSUME Inv
    PROVE  /\ Granted => readers_count = 0 /\ Sharing = {} /\ Claimed \in Thread
           /\ readers_count = 0 => Sharing = {}
<1>1. readers_count = 0 => Sharing = {}
  <2>1. Sharing \subseteq Counted
    BY DEF Sharing, Counted
  <2>2. Cardinality(Counted) = 0 => Counted = {}
    BY CountedFinite, FS_EmptySet
  <2>. QED
    BY <2>1, <2>2 DEF Inv, ReadersCounted
<1>. QED
  BY <1>1 DEF Inv, TypeOK, Positions, Position, Granted, Claimed, Owns, Passes, NoData

\* The abstract actions in terms of the abbreviations.
Stutters    == UNCHANGED <<Sharing, Claimed, Granted>>
Shared(th)  == /\ Claimed = NoThread /\ th \notin Sharing /\ Sharing' = Sharing \cup {th}
               /\ UNCHANGED <<Claimed, Granted>>
Left(th)    == th \in Sharing /\ Sharing' = Sharing \ {th} /\ UNCHANGED <<Claimed, Granted>>
Asked(th)   == /\ Claimed = NoThread /\ th \notin Sharing /\ Claimed' = th
               /\ UNCHANGED <<Sharing, Granted>>
Entered     == /\ Claimed # NoThread /\ ~Granted /\ Sharing = {} /\ Granted' = TRUE
               /\ UNCHANGED <<Sharing, Claimed>>
Released    == Granted /\ Granted' = FALSE /\ Claimed' = NoThread /\ UNCHANGED Sharing

\* Each of them is a step of the abstract lock.
LEMMA AbstractStep ==
    ASSUME Stutters \/ Entered \/ Released
               \/ \E th \in Thread : Shared(th) \/ Left(th) \/ Asked(th)
    PROVE  [Lock!Next]_Lock!vars
  BY DEF Lock!Next, Lock!vars, Lock!Share, Lock!Unshare, Lock!Claim, Lock!Grant, Lock!Release,
         Stutters, Shared, Left, Asked, Entered, Released, Sharing, Claimed, Granted

\* Every step of a thread is a step of the abstract lock or changes nothing of it.
LEMMA NextRefines == Inv /\ Inv' /\ [Next]_vars => [Lock!Next]_Lock!vars
<1>. SUFFICES ASSUME Inv, Inv', [Next]_vars
              PROVE  Stutters \/ Entered \/ Released
                         \/ \E th \in Thread : Shared(th) \/ Left(th) \/ Asked(th)
  BY AbstractStep
<1>. USE MutexAssumption DEF Inv, TypeOK, Positions, Position, Sharing, Claimed, Granted,
         Shares, Owns, Passes, NoData
<1>1. CASE UNCHANGED vars
  BY <1>1 DEF vars, Stutters
<1>2. ASSUME NEW th \in Thread, lock(th) PROVE Asked(th) \/ Stutters
  BY <1>2, Owner DEF lock, Goto, Stutters, Asked
<1>3. ASSUME NEW th \in Thread, lock_count(th) PROVE Entered \/ Stutters
  BY <1>3, Owner DEF lock_count, Goto, Stutters, Entered
<1>4. ASSUME NEW th \in Thread, lock_woken(th) PROVE Entered \/ Stutters
  BY <1>4, Owner DEF lock_woken, Goto, Stutters, Entered
<1>5. ASSUME NEW th \in Thread, unlock(th) PROVE Released \/ Stutters
  BY <1>5, Owner DEF unlock, Leave, Stutters, Released
<1>6. ASSUME NEW th \in Thread, lock_shared(th) PROVE Stutters
  BY <1>6, Owner DEF lock_shared, Goto, Stutters
<1>7. ASSUME NEW th \in Thread, lock_shared_count(th) PROVE Stutters
  BY <1>7, Owner DEF lock_shared_count, Goto, Stutters
<1>8. ASSUME NEW th \in Thread, lock_shared_enter(th) PROVE Shared(th)
  BY <1>8, Owner DEF lock_shared_enter, Goto, Shared
<1>9. ASSUME NEW th \in Thread, lock_shared_again(th) PROVE Stutters
  BY <1>9, Owner DEF lock_shared_again, Stutters
<1>10. ASSUME NEW th \in Thread, unlock_shared(th) PROVE Left(th) \/ Stutters
  BY <1>10, Owner DEF unlock_shared, Goto, Leave, Stutters, Left
<1>11. ASSUME NEW th \in Thread, unlock_shared_count(th) PROVE Stutters
  BY <1>11, Owner DEF unlock_shared_count, Goto, Stutters
<1>12. ASSUME NEW th \in Thread, unlock_shared_test(th) PROVE Stutters
  BY <1>12, Owner DEF unlock_shared_test, Goto, Stutters
<1>13. ASSUME NEW th \in Thread, unlock_shared_notify(th) PROVE Stutters
  BY <1>13, Owner DEF unlock_shared_notify, Stutters
<1>. QED
  BY <1>1, <1>2, <1>3, <1>4, <1>5, <1>6, <1>7, <1>8, <1>9, <1>10, <1>11, <1>12, <1>13
     DEF Next, Inside

\* shared_recursive_mutex implements the abstract read-write lock that DbAccessor uses.
THEOREM Refinement == Spec => ImplementsRWLock
<1>. QED
  BY InitRefines, NextRefines, Invariance, PTL DEF Spec, ImplementsRWLock, Lock!Spec
=============================================================================
