------------------------------- MODULE ZChannel -------------------------------
(***************************************************************************)
(* What YMPI_Zsend and YMPI_Zrecv promise (include/ympi.h): between every  *)
(* ordered pair of ranks there is a FIFO channel.  Each message accepted   *)
(* is handed over at most once, in the order of the sends, with its own    *)
(* content and its own length.  Nothing is promised about the order of     *)
(* messages from different ranks.                                          *)
(***************************************************************************)
EXTENDS Integers, Sequences

CONSTANT Proc

VARIABLES
  sent,      \* sent[p][q]: number of messages p has sent to q
  got        \* got[q][p]: what YMPI_Zrecv returned at q for source p, in order

\* The n-th message of src, returned with the length of that same message.
Message(src, n) == [data |-> [src |-> src, n |-> n], len |-> [src |-> src, n |-> n]]

Init == /\ sent = [p \in Proc |-> [q \in Proc |-> 0]]
        /\ got = [q \in Proc |-> [p \in Proc |-> <<>>]]

Send(p, q) == /\ sent' = [sent EXCEPT ![p][q] = @ + 1]
              /\ UNCHANGED got

Receive(q, p) == /\ Len(got[q][p]) < sent[p][q]
                 /\ got' = [got EXCEPT ![q][p] = Append(@, Message(p, Len(@) + 1))]
                 /\ UNCHANGED sent

Next == \E p, q \in Proc : Send(p, q) \/ Receive(q, p)

Spec == Init /\ [][Next]_<<sent, got>>
================================================================================
