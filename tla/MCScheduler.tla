---------------------------- MODULE MCScheduler ----------------------------
(* Two CPUs with their idle threads; a fair and a real-time task belong to *)
(* the first CPU, and either CPU may wake the real-time task.              *)
EXTENDS Scheduler

CONSTANTS c1, c2, i1, i2, fair, rt

MCPolicy == [t \in Tasks |-> CASE t \in {i1, i2} -> 3 [] t = fair -> 2 [] OTHER -> 1]

MCAffinity == [t \in Tasks |-> CASE t = i1 -> {c1} [] t = i2 -> {c2} [] OTHER -> {c1}]

MCIdleTask == [c \in Cpus |-> IF c = c1 THEN i1 ELSE i2]
=============================================================================
