---------------------------- MODULE MCLinkedList ----------------------------
(* Two lists and four nodes, two of them with the same key.                *)
EXTENDS LinkedList, TLC

CONSTANTS h1, h2, n1, n2, n3, n4

Keys == (n1 :> 1) @@ (n2 :> 1) @@ (n3 :> 2) @@ (n4 :> 3)
=============================================================================
