--------------------------------- MODULE Ympi ---------------------------------
(***************************************************************************)
(* The messaging core of src/ympi.c after YMPI_Init: single-threaded       *)
(* processes that call YMPI_Zsend, YMPI_Write, YMPI_Read, YMPI_Zflush,     *)
(* YMPI_Zrecv and YMPI_Return, and the host channel adapters (HCAs) that   *)
(* execute their work requests (WRs).                                      *)
(*                                                                         *)
(* Each process has one reliable connection (a QP) per peer, one shared    *)
(* receive queue (SRQ) of buffers all its QPs draw from, and one           *)
(* completion queue (CQ) for sends and receives alike.  WRs of one QP      *)
(* complete in order; completions of different QPs, and those of sends and *)
(* of receives, reach the CQ in any order, so the CQ is kept as one queue  *)
(* of each sort per QP.  A completion is in the CQ as soon as the WR took  *)
(* effect; that it may come later is the same as its being polled later.   *)
(*                                                                         *)
(* A call that polls is a loop: process p stays in pc[p] = "throttle",     *)
(* "flush" or "recv" until the loop's condition fails, and other processes *)
(* and the HCAs step in between.  batch[p] counts the completions handled  *)
(* since the last ibv_poll_cq; the loop's condition is evaluated only when *)
(* it is 0.                                                                *)
(***************************************************************************)
EXTENDS Integers, Sequences, FiniteSets

CONSTANTS
  Proc,        \* the ranks
  Peers,       \* Peers[p]: the ranks p has a QP to (target_rank_list)
  Vbuf,        \* the YMPI_PREPOST_DEPTH receive buffers of a process
  MaxSendWr,   \* YMPI_MAX_SEND_WR_PER_QP
  SqDepth,     \* send queue entries the device grants for max_send_wr
  RecvCap,     \* YMPI_RECV_PER_PROCESS
  PollBatch,   \* the array length wc[64] of every polling loop
  Kinds,       \* the kinds of WR the processes post
  MaxSends,    \* bound: MaxSends[p][q] messages from p to q
  MaxFaults    \* bound: verbs calls and completions that fail

PrepostDepth == Cardinality(Vbuf)

ASSUME ProcAssumption == IsFiniteSet(Proc) /\ Peers \in [Proc -> SUBSET Proc]
ASSUME VbufAssumption == IsFiniteSet(Vbuf) /\ RecvCap \in Nat /\ RecvCap >= PrepostDepth
ASSUME QueueAssumption == /\ MaxSendWr \in Nat \ {0}
                          /\ SqDepth \in Nat /\ SqDepth >= MaxSendWr
                          /\ PollBatch \in Nat \ {0}
ASSUME KindsAssumption == Kinds \subseteq {"send", "write", "read"}
ASSUME BoundAssumption == MaxSends \in [Proc -> [Proc -> Nat]] /\ MaxFaults \in Nat


\* The n-th message of process src.  It stands for the bytes sent and for their
\* number alike: a buffer and a length that belong together name the same message.
Msg == [src : Proc, n : Nat]
WR == [kind : Kinds, n : Nat]              \* n: the message number of a send
Recv == [id : Vbuf, msg : Msg]             \* a receive completion

VARIABLES
  \* the context of process p
  pc,                  \* the call p is in; "exit" after exit(-1)
  source,              \* the argument of the current YMPI_Zrecv
  batch,               \* completions handled since the last ibv_poll_cq
  ret,                 \* the value the last YMPI_Zsend, _Write or _Read returned
  qp_pending_send_wr,  \* per peer
  pending_send_wr,
  pending_recv_queue,  \* rx_win: per peer, vbufs received and not fetched
  vbuf_fetched,        \* rx_win: vbufs whose pointers the caller holds
  buf_bytes,           \* rx_win.buffer: length of the message in each vbuf
  data,                \* rx_win.buffer: what the HCA wrote into each vbuf
  \* the HCA of process p
  sq,                  \* per peer: WRs posted whose completion is not polled
  done,                \* per peer: how many of sq took effect and have a completion
  rcq,                 \* per peer: receive completions in the CQ
  srq,                 \* vbufs posted to the SRQ
  \* history and environment
  sent,                \* messages p sent to each peer so far
  got,                 \* per peer: what YMPI_Zrecv returned, in order
  lost,                \* vbufs dequeued by YMPI_Return but not posted
  faults               \* failures so far

context == <<pc, source, batch, ret, qp_pending_send_wr, pending_send_wr>>
rx_win == <<pending_recv_queue, vbuf_fetched, buf_bytes, data>>
sendq == <<sq, done>>
recvq == <<rcq, srq>>
history == <<sent, got, lost, faults>>
vars == <<context, rx_win, sendq, recvq, history>>

Labels == {"idle", "throttle", "flush", "recv", "return", "exit"}

PairOf(S) == [Proc -> [Proc -> S]]

TypeOK ==
  /\ pc \in [Proc -> Labels]
  /\ source \in [Proc -> Proc]
  /\ batch \in [Proc -> 0 .. PollBatch - 1]
  /\ ret \in [Proc -> {0, -1}]
  /\ qp_pending_send_wr \in PairOf(Int)
  /\ pending_send_wr \in [Proc -> Int]
  /\ pending_recv_queue \in PairOf(Seq(Vbuf))
  /\ vbuf_fetched \in [Proc -> Seq(Vbuf)]
  /\ buf_bytes \in [Proc -> [Vbuf -> Msg]]
  /\ data \in [Proc -> [Vbuf -> Msg]]
  /\ sq \in PairOf(Seq(WR))
  /\ done \in PairOf(Nat)
  /\ \A p, q \in Proc : done[p][q] <= Len(sq[p][q])
  /\ rcq \in PairOf(Seq(Recv))
  /\ srq \in [Proc -> SUBSET Vbuf]
  /\ sent \in PairOf(Nat)
  /\ got \in PairOf(Seq([data : Msg, len : Msg]))
  /\ lost \in [Proc -> SUBSET Vbuf]
  /\ faults \in 0 .. MaxFaults

--------------------------------------------------------------------------------
\* After YMPID_Init: the counters are zero and every vbuf is in the SRQ.
Init ==
  /\ pc = [p \in Proc |-> "idle"]
  /\ source = [p \in Proc |-> p]
  /\ batch = [p \in Proc |-> 0]
  /\ ret = [p \in Proc |-> 0]
  /\ qp_pending_send_wr = [p \in Proc |-> [q \in Proc |-> 0]]
  /\ pending_send_wr = [p \in Proc |-> 0]
  /\ pending_recv_queue = [p \in Proc |-> [q \in Proc |-> <<>>]]
  /\ vbuf_fetched = [p \in Proc |-> <<>>]
  /\ buf_bytes = [p \in Proc |-> [v \in Vbuf |-> [src |-> p, n |-> 0]]]
  /\ data = [p \in Proc |-> [v \in Vbuf |-> [src |-> p, n |-> 0]]]
  /\ sq = [p \in Proc |-> [q \in Proc |-> <<>>]]
  /\ done = [p \in Proc |-> [q \in Proc |-> 0]]
  /\ rcq = [p \in Proc |-> [q \in Proc |-> <<>>]]
  /\ srq = [p \in Proc |-> Vbuf]
  /\ sent = [p \in Proc |-> [q \in Proc |-> 0]]
  /\ got = [p \in Proc |-> [q \in Proc |-> <<>>]]
  /\ lost = [p \in Proc |-> {}]
  /\ faults = 0

At(p, label) == pc[p] = label

Goto(p, label) == pc' = [pc EXCEPT ![p] = label]

\* _enqueue: every node of the list's pool is in use, the program ends.
list_full_early(list, pool_size) == Len(list) >= pool_size - 1   \* mutant: a sentinel too many
list_full(list, pool_size) == Len(list) >= pool_size

--------------------------------------------------------------------------------
(* The posting calls. *)

\* Mutant: the WR is counted before the result of ibv_post_send is looked at.
post_rejected_counted(p, q) ==
  /\ Len(sq[p][q]) >= SqDepth
  /\ ret' = [ret EXCEPT ![p] = -1]
  /\ qp_pending_send_wr' = [qp_pending_send_wr EXCEPT ![p][q] = @ + 1]
  /\ pending_send_wr' = [pending_send_wr EXCEPT ![p] = @ + 1]
  /\ UNCHANGED <<pc, source, batch, sendq, sent, faults>>

\* ibv_post_send fails, because the queue is full or for another reason, and nothing
\* is counted.
post_rejected(p, q) ==
  /\ \/ Len(sq[p][q]) >= SqDepth /\ UNCHANGED faults
     \/ faults < MaxFaults /\ faults' = faults + 1
  /\ ret' = [ret EXCEPT ![p] = -1]
  /\ UNCHANGED <<pc, source, batch, qp_pending_send_wr, pending_send_wr, sendq, sent>>

\* Mutant: no throttle.
post_unthrottled(p, q, kind) ==
  LET n == IF kind = "send" THEN sent[p][q] + 1 ELSE 0 IN
  /\ Len(sq[p][q]) < SqDepth
  /\ sent' = IF kind = "send" THEN [sent EXCEPT ![p][q] = @ + 1] ELSE sent
  /\ sq' = [sq EXCEPT ![p][q] = Append(@, [kind |-> kind, n |-> n])]
  /\ qp_pending_send_wr' = [qp_pending_send_wr EXCEPT ![p][q] = @ + 1]
  /\ pending_send_wr' = [pending_send_wr EXCEPT ![p] = @ + 1]
  /\ ret' = [ret EXCEPT ![p] = 0]
  /\ UNCHANGED <<pc, source, batch, done, faults>>

\* The WR is posted and counted; the call polls when the count hits the limit.
post_accepted(p, q, kind) ==
  LET n == IF kind = "send" THEN sent[p][q] + 1 ELSE 0 IN
  /\ Len(sq[p][q]) < SqDepth
  /\ kind = "send" => sent[p][q] < MaxSends[p][q]
  /\ sent' = IF kind = "send" THEN [sent EXCEPT ![p][q] = @ + 1] ELSE sent
  /\ sq' = [sq EXCEPT ![p][q] = Append(@, [kind |-> kind, n |-> n])]
  /\ qp_pending_send_wr' = [qp_pending_send_wr EXCEPT ![p][q] = @ + 1]
  /\ pending_send_wr' = [pending_send_wr EXCEPT ![p] = @ + 1]
  /\ ret' = [ret EXCEPT ![p] = 0]
  /\ Goto(p, IF qp_pending_send_wr[p][q] + 1 = MaxSendWr THEN "throttle" ELSE "idle")
  /\ UNCHANGED <<source, batch, done, faults>>

post(p, q, kind) ==
  /\ At(p, "idle")
  /\ q \in Peers[p] /\ kind \in Kinds
  /\ post_rejected(p, q) \/ post_accepted(p, q, kind)
  /\ UNCHANGED <<rx_win, recvq, got, lost>>

YMPI_Zsend(p, q) == post(p, q, "send")
YMPI_Write(p, q) == post(p, q, "write")
YMPI_Read(p, q) == post(p, q, "read")

--------------------------------------------------------------------------------
(* The polling loops and the handling of one completion. *)

Enter(p, label) ==
  /\ At(p, "idle")
  /\ Goto(p, label)
  /\ UNCHANGED <<batch, ret, qp_pending_send_wr, pending_send_wr, rx_win, sendq, recvq, history>>

YMPI_Zflush(p) == Enter(p, "flush") /\ UNCHANGED source

YMPI_Zrecv(p, q) == /\ q \in Peers[p]
                    /\ Enter(p, "recv")
                    /\ source' = [source EXCEPT ![p] = q]

\* Mutant: YMPI_Zrecv polls under the condition of YMPI_Zflush.
PollsNow_for_sends(p) ==
  /\ batch[p] = 0
  /\ \/ At(p, "throttle")
     \/ At(p, "flush") /\ pending_send_wr[p] > 0
     \/ At(p, "recv") /\ pending_send_wr[p] > 0

\* p is about to call ibv_poll_cq.
PollsNow(p) ==
  /\ batch[p] = 0
  /\ \/ At(p, "throttle")
     \/ At(p, "flush") /\ pending_send_wr[p] > 0
     \/ At(p, "recv") /\ pending_recv_queue[p][source[p]] = <<>>

Polling(p) == batch[p] > 0 \/ PollsNow(p)

\* The completions in the CQ of p and in the array its last poll filled.  There may be more
\* than the CQ has entries for: what an overrun then breaks, and when, is up to the device,
\* so it is a failure like any other (process_wc_failed, poll_failed).
Completions(p) ==
  (UNION {{<<"sent", q, i>> : i \in 1 .. done[p][q]} : q \in Proc})
  \cup (UNION {{<<"received", q, i>> : i \in 1 .. Len(rcq[p][q])} : q \in Proc})

\* Mutant: one completion more than the array holds.
EndOfWc_overrun(p) ==
  \/ /\ Cardinality(Completions(p)) > 1
     /\ batch[p] < PollBatch
     /\ batch' = [batch EXCEPT ![p] = @ + 1]
     /\ UNCHANGED pc
  \/ /\ batch' = [batch EXCEPT ![p] = 0]
     /\ pc' = IF At(p, "throttle") THEN [pc EXCEPT ![p] = "idle"] ELSE pc

\* Either the batch ibv_poll_cq returned holds another completion, or the loop is
\* back at its condition: the throttle's is ne == 0, which is false now.
EndOfWc(p) ==
  \/ /\ Cardinality(Completions(p)) > 1
     /\ batch[p] + 1 < PollBatch
     /\ batch' = [batch EXCEPT ![p] = @ + 1]
     /\ UNCHANGED pc
  \/ /\ batch' = [batch EXCEPT ![p] = 0]
     /\ pc' = IF At(p, "throttle") THEN [pc EXCEPT ![p] = "idle"] ELSE pc

\* process_wc, cases SEND_WRID, WRITE_WRID and READ_WRID.  The CQE of the oldest
\* WR of the QP is consumed, which also frees its send queue entry.
process_wc_sent(p, q) ==
  /\ Polling(p)
  /\ done[p][q] > 0
  /\ sq' = [sq EXCEPT ![p][q] = Tail(@)]
  /\ done' = [done EXCEPT ![p][q] = @ - 1]
  /\ qp_pending_send_wr' = [qp_pending_send_wr EXCEPT ![p][q] = @ - 1]
  /\ pending_send_wr' = [pending_send_wr EXCEPT ![p] = @ - 1]
  /\ EndOfWc(p)
  /\ UNCHANGED <<source, ret, rx_win, recvq, history>>

\* Mutant: the vbuf is never put on pending_recv_queue.
process_wc_recv_dropped(p, q) ==
  /\ Polling(p)
  /\ rcq[p][q] # <<>>
  /\ rcq' = [rcq EXCEPT ![p][q] = Tail(@)]
  /\ EndOfWc(p)
  /\ UNCHANGED <<source, ret, qp_pending_send_wr, pending_send_wr, rx_win, sendq, srq, history>>

\* Mutant: the vbuf is put in front of the earlier ones.
process_wc_recv_lifo(p, q) ==
  LET c == Head(rcq[p][q]) IN
  /\ Polling(p)
  /\ rcq[p][q] # <<>>
  /\ rcq' = [rcq EXCEPT ![p][q] = Tail(@)]
  /\ buf_bytes' = [buf_bytes EXCEPT ![p][c.id] = c.msg]
  /\ pending_recv_queue' = [pending_recv_queue EXCEPT ![p][q] = <<c.id>> \o @]
  /\ EndOfWc(p)
  /\ UNCHANGED <<source, ret, qp_pending_send_wr, pending_send_wr, vbuf_fetched, data,
                 sendq, srq, history>>

\* process_wc, case RECV_WRID.  A full list ends the program.
process_wc_recv(p, q) ==
  LET c == Head(rcq[p][q]) IN
  /\ Polling(p)
  /\ rcq[p][q] # <<>>
  /\ rcq' = [rcq EXCEPT ![p][q] = Tail(@)]
  /\ buf_bytes' = [buf_bytes EXCEPT ![p][c.id] = c.msg]
  /\ IF ~ list_full(pending_recv_queue[p][q], RecvCap)
       THEN /\ pending_recv_queue' = [pending_recv_queue EXCEPT ![p][q] = Append(@, c.id)]
            /\ EndOfWc(p)
       ELSE /\ Goto(p, "exit")
            /\ UNCHANGED <<batch, pending_recv_queue>>
  /\ UNCHANGED <<source, ret, qp_pending_send_wr, pending_send_wr, vbuf_fetched, data,
                 sendq, srq, history>>

\* process_wc of a completion with an error status: a WR whose peer has exited, or
\* one that fails for a reason of its own.
process_wc_failed(p, q) ==
  /\ Polling(p)
  /\ sq[p][q] # <<>>
  /\ \/ At(q, "exit") /\ UNCHANGED faults
     \/ faults < MaxFaults /\ faults' = faults + 1
  /\ Goto(p, "exit")
  /\ UNCHANGED <<source, batch, ret, qp_pending_send_wr, pending_send_wr, rx_win, sendq,
                 recvq, sent, got, lost>>

\* ibv_poll_cq returns a negative number: the throttle loop just ends, the others
\* exit(-1).
poll_failed(p) ==
  /\ PollsNow(p)
  /\ faults < MaxFaults
  /\ faults' = faults + 1
  /\ Goto(p, IF At(p, "throttle") THEN "idle" ELSE "exit")
  /\ UNCHANGED <<source, batch, ret, qp_pending_send_wr, pending_send_wr, rx_win, sendq,
                 recvq, sent, got, lost>>

\* Mutant: one poll is enough.
Zflush_return_early(p) ==
  /\ At(p, "flush")
  /\ batch[p] = 0
  /\ Goto(p, "idle")
  /\ UNCHANGED <<source, batch, ret, qp_pending_send_wr, pending_send_wr, rx_win, sendq,
                 recvq, history>>

Zflush_return(p) ==
  /\ At(p, "flush")
  /\ batch[p] = 0
  /\ ~ (pending_send_wr[p] > 0)
  /\ Goto(p, "idle")
  /\ UNCHANGED <<source, batch, ret, qp_pending_send_wr, pending_send_wr, rx_win, sendq,
                 recvq, history>>

\* The caller gets the pointer and the length; the vbuf waits for YMPI_Return.
Zrecv_return(p) ==
  LET q == source[p]
      v == Head(pending_recv_queue[p][q]) IN
  /\ At(p, "recv")
  /\ batch[p] = 0
  /\ pending_recv_queue[p][q] # <<>>
  /\ pending_recv_queue' = [pending_recv_queue EXCEPT ![p][q] = Tail(@)]
  /\ IF ~ list_full(vbuf_fetched[p], PrepostDepth)
       THEN /\ vbuf_fetched' = [vbuf_fetched EXCEPT ![p] = Append(@, v)]
            /\ got' = [got EXCEPT ![p][q] = Append(@, [data |-> data[p][v], len |-> buf_bytes[p][v]])]
            /\ Goto(p, "idle")
       ELSE /\ Goto(p, "exit")
            /\ UNCHANGED <<vbuf_fetched, got>>
  /\ UNCHANGED <<source, batch, ret, qp_pending_send_wr, pending_send_wr, buf_bytes, data,
                 sendq, recvq, sent, lost, faults>>

--------------------------------------------------------------------------------
(* YMPI_Return: every fetched vbuf goes back to the SRQ, one call each. *)

YMPI_Return(p) == Enter(p, "return") /\ UNCHANGED source

\* Mutant: the head is looked at and posted, but stays on the list.
Return_post_peek(p) ==
  /\ At(p, "return")
  /\ vbuf_fetched[p] # <<>>
  /\ srq' = [srq EXCEPT ![p] = @ \cup {Head(vbuf_fetched[p])}]
  /\ Goto(p, "idle")
  /\ UNCHANGED <<source, batch, ret, qp_pending_send_wr, pending_send_wr, rx_win, sendq,
                 rcq, history>>

\* A vbuf leaves vbuf_fetched before it is posted; if the post fails it is in neither,
\* and the call returns with the rest still fetched.
Return_post(p) ==
  LET v == Head(vbuf_fetched[p]) IN
  /\ At(p, "return")
  /\ vbuf_fetched[p] # <<>>
  /\ vbuf_fetched' = [vbuf_fetched EXCEPT ![p] = Tail(@)]
  /\ \/ /\ srq' = [srq EXCEPT ![p] = @ \cup {v}]
        /\ UNCHANGED <<pc, lost, faults>>
     \/ /\ faults < MaxFaults
        /\ faults' = faults + 1
        /\ lost' = [lost EXCEPT ![p] = @ \cup {v}]
        /\ Goto(p, "idle")
        /\ UNCHANGED srq
  /\ UNCHANGED <<source, batch, ret, qp_pending_send_wr, pending_send_wr, pending_recv_queue,
                 buf_bytes, data, sendq, rcq, sent, got>>

\* Mutant: the list is cleared, its vbufs are not posted.
Return_return_cleared(p) ==
  /\ At(p, "return")
  /\ vbuf_fetched' = [vbuf_fetched EXCEPT ![p] = <<>>]
  /\ Goto(p, "idle")
  /\ UNCHANGED <<source, batch, ret, qp_pending_send_wr, pending_send_wr, pending_recv_queue,
                 buf_bytes, data, sendq, recvq, history>>

Return_return(p) ==
  /\ At(p, "return")
  /\ vbuf_fetched[p] = <<>>
  /\ Goto(p, "idle")
  /\ UNCHANGED <<source, batch, ret, qp_pending_send_wr, pending_send_wr, rx_win, sendq,
                 recvq, history>>

--------------------------------------------------------------------------------
(* The HCAs. *)

\* The next WR of QP p -> q takes effect at q and completes.  A send needs a vbuf of q's SRQ, any of
\* them; without one it is retried (rnr_retry = 7, for ever).
hca_deliver(p, q) ==
  LET wr == sq[p][q][done[p][q] + 1]
      m == [src |-> p, n |-> wr.n] IN
  /\ ~ At(p, "exit") /\ ~ At(q, "exit")
  /\ done[p][q] < Len(sq[p][q])
  /\ done' = [done EXCEPT ![p][q] = @ + 1]
  /\ IF wr.kind = "send"
       THEN \E v \in srq[q] :
              /\ srq' = [srq EXCEPT ![q] = @ \ {v}]
              /\ data' = [data EXCEPT ![q][v] = m]
              /\ rcq' = [rcq EXCEPT ![q][p] = Append(@, [id |-> v, msg |-> m])]
       ELSE UNCHANGED <<srq, data, rcq>>
  /\ UNCHANGED <<context, pending_recv_queue, vbuf_fetched, buf_bytes, sq, history>>

--------------------------------------------------------------------------------
Call(p) == \/ \E q \in Proc : YMPI_Zsend(p, q)
           \/ \E q \in Proc : YMPI_Write(p, q)
           \/ \E q \in Proc : YMPI_Read(p, q)
           \/ \E q \in Proc : YMPI_Zrecv(p, q)
           \/ YMPI_Zflush(p)
           \/ YMPI_Return(p)

Step(p) == \/ \E q \in Proc : process_wc_sent(p, q)
           \/ \E q \in Proc : process_wc_recv(p, q)
           \/ \E q \in Proc : process_wc_failed(p, q)
           \/ poll_failed(p)
           \/ Zflush_return(p)
           \/ Zrecv_return(p)
           \/ Return_post(p)
           \/ Return_return(p)

Hca(p) == \E q \in Proc : hca_deliver(p, q)

Next == \E p \in Proc : Call(p) \/ Step(p) \/ Hca(p)

Spec == Init /\ [][Next]_vars

--------------------------------------------------------------------------------
\* WRs of p that are posted and whose completion has not been handled.
Outstanding(p) == UNION {{<<q, i>> : i \in 1 .. Len(sq[p][q])} : q \in Proc}

(***************************************************************************)
(* The counters of process_wc and of the posting calls never drift from    *)
(* the send queues: qp_pending_send_wr is the number of WRs of its QP that *)
(* are not completed, pending_send_wr that of all QPs.  (The assertion     *)
(* qp_send_wr >= 0, commented out at lines 777, 786 and 795, follows.)     *)
(***************************************************************************)
CountersExact ==
  \A p \in Proc :
    /\ \A q \in Proc : qp_pending_send_wr[p][q] = Len(sq[p][q])
    /\ pending_send_wr[p] = Cardinality(Outstanding(p))

\* Messages p sent to q that q's HCA has not received.
InFlight(p, q) == {i \in done[p][q] + 1 .. Len(sq[p][q]) : sq[p][q][i].kind = "send"}

(***************************************************************************)
(* "this call assures that send has completed" (line 883): when            *)
(* YMPI_Zflush returns, every WR the process posted to any peer has taken  *)
(* effect there and has been accounted for.                                *)
(***************************************************************************)
FlushCompletes ==
  [][\A p \in Proc : At(p, "flush") /\ pc'[p] = "idle" => \A q \in Proc : sq'[p][q] = <<>>]_vars

(***************************************************************************)
(* No message is lost or duplicated on its way: each one sent is waiting   *)
(* in the send queue, in the CQ, in pending_recv_queue, or was returned    *)
(* (unless the receiver has exited).                                       *)
(***************************************************************************)
MessagesConserved ==
  \A p, q \in Proc :
    ~ At(q, "exit") =>
      sent[p][q] = Cardinality(InFlight(p, q)) + Len(rcq[q][p])
                   + Len(pending_recv_queue[q][p]) + Len(got[q][p])

\* How often vbuf v of p occurs in a queue of vbufs.
Places(p, v) ==
  Cardinality({i \in 1 .. Len(vbuf_fetched[p]) : vbuf_fetched[p][i] = v})
  + Cardinality(UNION {{<<q, i>> : i \in {j \in 1 .. Len(pending_recv_queue[p][q]) :
                                            pending_recv_queue[p][q][j] = v}} : q \in Proc})
  + Cardinality(UNION {{<<q, i>> : i \in {j \in 1 .. Len(rcq[p][q]) :
                                            rcq[p][q][j].id = v}} : q \in Proc})
  + Cardinality({v} \cap srq[p]) + Cardinality({v} \cap lost[p])

(***************************************************************************)
(* Every vbuf of a running process is in exactly one place: posted to the  *)
(* SRQ, in the CQ, in one pending_recv_queue, in vbuf_fetched, or lost to  *)
(* a failed post of YMPID_Return.  So no buffer is posted twice and the    *)
(* receive window shrinks by failures only.                                *)
(***************************************************************************)
VbufsConserved == \A p \in Proc : ~ At(p, "exit") => \A v \in Vbuf : Places(p, v) = 1

(***************************************************************************)
(* The pointers YMPI_Zrecv returned stay valid until YMPI_Return gives     *)
(* their vbuf back ("all the returned pointers will be inaccessible after  *)
(* this", line 990): neither the HCA nor process_wc touches the message or *)
(* its length while the vbuf is fetched.                                   *)
(***************************************************************************)
PointersStable ==
  [][\A p \in Proc : \A i \in 1 .. Len(vbuf_fetched[p]) :
       LET v == vbuf_fetched[p][i] IN
       \/ data'[p][v] = data[p][v] /\ buf_bytes'[p][v] = buf_bytes[p][v]
       \/ v \in srq'[p]]_vars

(***************************************************************************)
(* The program never ends for a reason of its own making: no list of vbufs *)
(* overflows (the exit(1) of _enqueue), so every exit has a failed verbs   *)
(* call or completion behind it.                                           *)
(***************************************************************************)
ExitsOnlyOnFault == (\E p \in Proc : At(p, "exit")) => faults > 0

\* The CQ was created with 4 * YMPI_PREPOST_DEPTH entries.
CqSize == 4 * PrepostDepth

(***************************************************************************)
(* Completions beyond the size of the CQ overrun it and break every QP.    *)
(* The code tests nothing that would keep them from it: with its limits,   *)
(* sends to four ranks and the messages received meanwhile are enough. But *)
(* it counts what it would have to test: the CQ overruns only while        *)
(* pending_send_wr says that more sends are outstanding than the CQ has    *)
(* places besides those of the vbufs.                                      *)
(***************************************************************************)
OverrunsOnlyOverdrawn ==
  \A p \in Proc : Cardinality(Completions(p)) > CqSize => pending_send_wr[p] > CqSize - PrepostDepth

(***************************************************************************)
(* Each ordered pair of ranks has a FIFO channel that keeps content and    *)
(* length together (the assertions of test/test_ympi.c, lines 62-63).      *)
(***************************************************************************)
Channel == INSTANCE ZChannel

ChannelSpec == Channel!Spec
================================================================================
