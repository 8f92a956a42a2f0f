----------------------------- MODULE MCRwMutex -----------------------------
(* RwMutex, its lock word and its wait queue for TLC. *)
EXTENDS RwMutex
CONSTANTS t1, t2, t3
MCThreads == {t1, t2, t3}
MCKinds == {"read", "write", "upread", "try_write"}   \* all but try_read and try_upread
MCAll == AllKinds
=============================================================================
