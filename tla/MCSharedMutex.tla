---------------------------- MODULE MCSharedMutex ----------------------------
(* Three threads are enough for two readers that leave while a writer waits. *)
EXTENDS SharedMutex
==============================================================================
