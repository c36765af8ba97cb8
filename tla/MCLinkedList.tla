---------------------------- MODULE MCLinkedList ----------------------------
(* LinkedList for TLC: three nodes, two values besides the zero value. *)
EXTENDS LinkedList

=============================================================================
