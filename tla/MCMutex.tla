------------------------------ MODULE MCMutex ------------------------------
(* Mutex and its wait queue for TLC. *)
EXTENDS Mutex
CONSTANTS t1, t2, t3
MCThreads == {t1, t2, t3}
=============================================================================
