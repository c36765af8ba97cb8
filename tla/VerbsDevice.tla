---------------------------- MODULE VerbsDevice ----------------------------
(* The HCAs and the TCP connections under the verbs programs (the ping-pongs    *)
(* and ibprobe). Neither is under src/: both are modelled from how the programs *)
(* use them. A QP here is a QP of its own program: the two XRC QPs that         *)
(* xsrq_pingpong.c makes per client are one. What the programs do is in the     *)
(* modules that extend this one.                                                *)
EXTENDS Naturals, FiniteSets, SequencesExt

CONSTANTS Node,      \* processes: the server is 0, clients follow
          QP,        \* indices of queue pairs
          MaxFaults  \* how many things may go wrong in a run

ASSUME NodeAssumption == Node \subseteq Nat /\ {0, 1} \subseteq Node
ASSUME QPAssumption == QP \subseteq Nat /\ 0 \in QP /\ IsFiniteSet(QP)
ASSUME FaultsAssumption == MaxFaults \in Nat

VARIABLES program,   \* which program the nodes run, and with which options
          hca,       \* the queues of each node's HCA
          sock,      \* sock[<<n, m>>]: what n wrote to m and m has not read
          faults,    \* what went wrong so far
          dropped    \* messages an unreliable transport could not deliver

deviceVars == <<hca, sock, faults, dropped>>

Completion == [op : {"send", "recv"}, qp : QP, ok : BOOLEAN]

(* A send in flight: it passes QP viaQp of node via and takes a receive of node *)
(* to, whose completion names QP qp. Only for XRC do via and to differ.         *)
Message == [to : Node, qp : QP, via : Node, viaQp : QP, signaled : BOOLEAN]

HCA == [qp : [QP -> {"none", "init", "rts"}],
        rq : Nat,                   \* receives posted and not yet used
        wire : [QP -> Seq(Message)],\* sends posted and not yet delivered
        acks : [QP -> Nat],         \* sends done, completion not yet written
        cq : Seq(Completion),       \* the CQ the program may sleep on
        tx_cq : Seq(Completion),    \* a CQ for sends, if there is one
        armed : BOOLEAN,            \* ibv_req_notify_cq was called
        events : Nat]               \* notifications not yet read

NoHCA == [qp |-> [q \in QP |-> "none"], rq |-> 0, wire |-> [q \in QP |-> <<>>],
          acks |-> [q \in QP |-> 0], cq |-> <<>>, tx_cq |-> <<>>,
          armed |-> FALSE, events |-> 0]

reliable == program.transport \in {"RC", "XRC"}

(****************************************************************************)
(* Verbs: what a call does to the record h of the caller's HCA.              *)
(****************************************************************************)
Created(h, qps, depth, arm) ==
  [h EXCEPT !.qp = [q \in QP |-> IF q \in qps THEN "init" ELSE "none"],
            !.rq = depth, !.armed = arm]

Connected(h, qps) == [h EXCEPT !.qp = [q \in QP |-> IF q \in qps THEN "rts" ELSE @[q]]]

RecvPosted(h, k) == [h EXCEPT !.rq = @ + k]

(* Over UC and UD the completion of a send does not wait for its delivery.      *)
SendPosted(h, q, m) ==
  [h EXCEPT !.wire[q] = Append(@, m), !.acks[q] = IF reliable THEN @ ELSE @ + 1]

(* A CQ entry takes an armed notification with it.                              *)
Entered(h, wc) ==
  IF wc.op = "send" /\ program.split
  THEN [h EXCEPT !.tx_cq = Append(@, wc)]
  ELSE [h EXCEPT !.cq = Append(@, wc), !.armed = FALSE,
                 !.events = IF h.armed THEN @ + 1 ELSE @]

(* The QPs are destroyed: a reliable transport gives up what is in flight.      *)
Destroyed(h) ==
  [NoHCA EXCEPT !.wire = IF reliable THEN @ ELSE h.wire]

(****************************************************************************)
(* Steps of the adapters.                                                    *)
(****************************************************************************)
ready(m) == hca[m.via].qp[m.viaQp] = "rts"

(* The next send of a QP takes a receive of its target.                         *)
hca_deliver(n, q) ==
  /\ hca[n].wire[q] # <<>>
  /\ LET m == Head(hca[n].wire[q])
         sent == [hca EXCEPT ![n].wire[q] = Tail(@),
                             ![n].acks[q] = IF reliable /\ m.signaled THEN @ + 1 ELSE @]
         wc == [op |-> "recv", qp |-> m.qp, ok |-> TRUE]
     IN \/ /\ ready(m) /\ hca[m.to].rq > 0
           /\ hca' = [sent EXCEPT ![m.to] = Entered([sent[m.to] EXCEPT !.rq = @ - 1], wc)]
           /\ UNCHANGED dropped
        \/ /\ ~reliable /\ (~ready(m) \/ hca[m.to].rq = 0)
           /\ hca' = sent
           /\ dropped' = dropped + 1
  /\ UNCHANGED <<sock, faults>>

hca_complete(n, q) ==
  /\ hca[n].acks[q] > 0
  /\ hca' = [hca EXCEPT ![n] = Entered([hca[n] EXCEPT !.acks[q] = @ - 1],
                                       [op |-> "send", qp |-> q, ok |-> TRUE])]
  /\ UNCHANGED <<sock, faults, dropped>>

(* The target does not answer for half a second or more (timeout = 14,          *)
(* retry_cnt = 7): it is gone, and this node has long seen everything else, or  *)
(* it is slow, which counts as a fault. A receive that is missing is waited for *)
(* without limit (rnr_retry = 7).                                               *)
hca_retry_exceeded(n, q) ==
  /\ reliable
  /\ hca[n].wire[q] # <<>>
  /\ LET m == Head(hca[n].wire[q])
     IN \/ /\ hca[m.via].qp[m.viaQp] = "none"
           /\ hca[n].cq = <<>> /\ \A r \in QP : hca[n].acks[r] = 0
           /\ UNCHANGED faults
        \/ /\ hca[m.via].qp[m.viaQp] = "init"
           /\ faults < MaxFaults
           /\ faults' = faults + 1
  /\ hca' = [hca EXCEPT ![n] = Entered([@ EXCEPT !.wire[q] = <<>>],
                                       [op |-> "send", qp |-> q, ok |-> FALSE])]
  /\ UNCHANGED <<sock, dropped>>

hca_lose(n, q) ==
  /\ ~reliable
  /\ hca[n].wire[q] # <<>>
  /\ faults < MaxFaults
  /\ faults' = faults + 1
  /\ hca' = [hca EXCEPT ![n].wire[q] = Tail(@)]
  /\ UNCHANGED <<sock, dropped>>

hca_step == \E n \in Node, q \in QP :
  \/ hca_deliver(n, q)
  \/ hca_complete(n, q)
  \/ hca_retry_exceeded(n, q)
  \/ hca_lose(n, q)

(****************************************************************************)
(* TCP connections: reads and writes.                                        *)
(****************************************************************************)
socket_read(n, m, what) ==
  /\ sock[<<m, n>>] # <<>> /\ Head(sock[<<m, n>>]) = what

(* What n wrote after reading, if anything, and what it read.                   *)
sockAfter(n, m, read, written) ==
  [sock EXCEPT ![<<m, n>>] = IF read THEN Tail(@) ELSE @, ![<<n, m>>] = @ \o written]
=============================================================================
