------------------------------ MODULE MCRwLock ------------------------------
(* The shared lock word for TLC: four threads, so that two readers, an upreader *)
(* and a writer meet, and a reader limit that they reach.                       *)
EXTENDS RwLock
CONSTANTS t1, t2, t3, t4
MCThreads == {t1, t2, t3, t4}
=============================================================================
