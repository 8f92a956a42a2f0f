------------------------------ MODULE MCFrame ------------------------------
(* One frame for TLC, with enough handles to race past REF_COUNT_MAX. *)
EXTENDS Frame
CONSTANTS h1, h2, h3, h4, h5
MCHandles == {h1, h2, h3, h4, h5}
=============================================================================
