------------------------------- MODULE RWLock -------------------------------
(***************************************************************************)
(* What shared_recursive_mutex promises to its users (the comment on       *)
(* m_rw_lock in blockchain_storage.h): any number of threads share it, one *)
(* has it exclusively only while nobody shares it, and a thread that has   *)
(* asked for exclusive ownership keeps new sharers out while it waits for  *)
(* the old ones.  DbAccessor uses the lock in this form.                   *)
(***************************************************************************)
CONSTANTS Thread, NoThread

VARIABLES
    sharing,  \* the threads with shared ownership
    claimed,  \* the thread that has, or waits for, exclusive ownership
    granted   \* it has it

vars == <<sharing, claimed, granted>>

Init == sharing = {} /\ claimed = NoThread /\ granted = FALSE

Share(th) ==
    /\ claimed = NoThread /\ th \notin sharing
    /\ sharing' = sharing \cup {th}
    /\ UNCHANGED <<claimed, granted>>

Unshare(th) ==
    /\ th \in sharing
    /\ sharing' = sharing \ {th}
    /\ UNCHANGED <<claimed, granted>>

Claim(th) ==
    /\ claimed = NoThread /\ th \notin sharing
    /\ claimed' = th
    /\ UNCHANGED <<sharing, granted>>

Grant ==
    /\ claimed # NoThread /\ ~granted /\ sharing = {}
    /\ granted' = TRUE
    /\ UNCHANGED <<sharing, claimed>>

Release ==
    /\ granted
    /\ granted' = FALSE /\ claimed' = NoThread
    /\ UNCHANGED sharing

Next == Grant \/ Release \/ \E th \in Thread : Share(th) \/ Unshare(th) \/ Claim(th)

Spec == Init /\ [][Next]_vars
=============================================================================
