------------------------------- MODULE MCYmpi -------------------------------
(* Ympi for TLC.  Buffers are interchangeable, ranks are numbers. *)
EXTENDS Ympi, TLC

CONSTANTS Load     \* messages a rank may send to a peer

\* Rank 0 has a QP to itself and one to rank 1, and sends to itself only; to rank 1 it
\* writes and reads.  Rank 1 has nothing to do: its HCA serves rank 0.
Star == [p \in Proc |-> IF p = 0 THEN Proc ELSE {}]
StarLoad == [p \in Proc |-> [q \in Proc |-> IF q = 0 THEN Load ELSE 0]]

\* Rank 0 receives from every rank and from itself; its own message is one.
Hub == [p \in Proc |-> IF p = 0 THEN Proc ELSE {0}]
HubLoad == [p \in Proc |-> [q \in Proc |-> IF q # 0 THEN 0 ELSE IF p = 0 THEN 1 ELSE Load]]

VbufSymmetry == Permutations(Vbuf)
=============================================================================
