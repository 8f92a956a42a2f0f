---------------------------- MODULE MCRcuMonitor ----------------------------
(* The RCU monitor for TLC: objects of several overlapping grace periods. *)
EXTENDS RcuMonitor
CONSTANTS c1, c2, o1, o2, o3
MCCpus == {c1, c2}
MCObjects == {o1, o2, o3}
=============================================================================
