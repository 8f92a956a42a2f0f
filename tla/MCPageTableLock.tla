-------------------------- MODULE MCPageTableLock --------------------------
(* Three levels of two entries each; a cursor on the first level 1 node, one *)
(* on the first level 2 node and one on the whole table.                     *)
EXTENDS PageTableLock

MCRanges == {[start |-> 0, end |-> 2], [start |-> 1, end |-> 3], [start |-> 0, end |-> 8]}
=============================================================================
