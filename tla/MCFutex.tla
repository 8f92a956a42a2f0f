------------------------------ MODULE MCFutex ------------------------------
(* Three words: w1 and w2 share a bucket, w3 is in the other one.          *)
EXTENDS Futex

CONSTANTS w1, w2, w3

MCHash == [x \in Addrs |-> CASE x = w1 -> 0 [] x = w2 -> 2 [] OTHER -> 1]

MCPairs == {<<w1, w2>>, <<w1, w3>>, <<w3, w1>>}
=============================================================================
