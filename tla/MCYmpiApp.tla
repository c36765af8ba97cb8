------------------------------ MODULE MCYmpiApp ------------------------------
(* The programs of YmpiApp for TLC.  Sends are bounded by the program. *)
EXTENDS YmpiApp, TLC

\* A view for NeverStuck: which vbuf holds what, and what was returned, is left out, as
\* neither it nor a guard of AppNext depends on them.
LengthsOf(queues) == [p \in Proc |-> [q \in Proc |-> Len(queues[p][q])]]
ProgressView == <<program, ip, pc, source, batch, ret, qp_pending_send_wr, pending_send_wr, sq, done,
                  LengthsOf(pending_recv_queue), [p \in Proc |-> Len(vbuf_fetched[p])],
                  LengthsOf(rcq), [p \in Proc |-> Cardinality(srq[p])], sent, faults>>

AllPeers == [p \in Proc |-> Proc]
Unbounded == [p \in Proc |-> [q \in Proc |-> 9]]

PairPrograms == {TestPointToPoint(2), TestWrite(5), Allputall(2), ZAlltoall(2),
                 FanOut(3), Latency(2), Then(PingPong(1), Allputall(2))}
RingPrograms == {Allputall(2)}
FanInPrograms == {FanIn(2)}

\* What the theorems about programs assume.
ASSUME ProgramsFit ==
  \A prog \in Programs : /\ prog \in [Proc -> Seq(Operation)]
                         /\ Throttled(prog) /\ Matched(prog)
                         /\ prog \in FanInPrograms \/ KeepsGoing(prog)

\* How many vbufs all-put-all needs when rounds follow each other: a rank may hold two
\* messages of each rank but itself and the one it asks, and needs a vbuf for what it asks.
\* (The runs evaluate it on two ranks, and on three with as many and with one too few.)
ASSUME AllputallRoom ==
  \A iter \in 2 .. 3 : KeepsGoing(Allputall(iter)) <=> PrepostDepth > 2 * (Cardinality(Proc) - 2)
==============================================================================
