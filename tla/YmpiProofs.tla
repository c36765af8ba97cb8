------------------------------ MODULE YmpiProofs ------------------------------
(***************************************************************************)
(* Theorems about module Ympi, for any number of ranks, buffers, queue     *)
(* sizes, messages and failures.                                           *)
(***************************************************************************)
EXTENDS Ympi, FiniteSetTheorems, SequenceTheorems, TLAPS

(* Updating one cell of a table indexed by pairs of ranks. *)
LEMMA PairUpdate ==
  ASSUME NEW S, NEW f \in PairOf(S), NEW p \in Proc, NEW q \in Proc, NEW x \in S
  PROVE  [f EXCEPT ![p][q] = x] \in PairOf(S)
  BY DEF PairOf

LEMMA MaybePairUpdate ==
  ASSUME NEW S, NEW f \in PairOf(S), NEW p \in Proc, NEW q \in Proc, NEW x \in S, NEW g,
         g = f \/ g = [f EXCEPT ![p][q] = x]
  PROVE  g \in PairOf(S)
  BY PairUpdate

LEMMA MaybeUpdate ==
  ASSUME NEW S, NEW f \in [Proc -> S], NEW p \in Proc, NEW x \in S, NEW g,
         g = f \/ g = [f EXCEPT ![p] = x]
  PROVE  g \in [Proc -> S]
  OBVIOUS

LEMMA PairApply ==
  ASSUME NEW S, NEW f \in PairOf(S), NEW p \in Proc, NEW q \in Proc
  PROVE  f[p][q] \in S
  BY DEF PairOf

(* The head and the tail of a queue that is not empty. *)
LEMMA QueueParts ==
  ASSUME NEW S, NEW s \in Seq(S), s # <<>>
  PROVE  Head(s) \in S /\ Tail(s) \in Seq(S) /\ Len(s) \in Nat \ {0} /\ Len(Tail(s)) = Len(s) - 1
  OBVIOUS

(* The loop control after a completion. *)
LEMMA EndOfWcType ==
  ASSUME TypeOK, NEW p \in Proc, EndOfWc(p)
  PROVE  batch' \in [Proc -> 0 .. PollBatch - 1] /\ pc' \in [Proc -> Labels]
<1>1. CASE batch[p] + 1 < PollBatch /\ batch' = [batch EXCEPT ![p] = batch[p] + 1] /\ UNCHANGED pc
  BY <1>1, QueueAssumption DEF TypeOK
<1>2. CASE /\ batch' = [batch EXCEPT ![p] = 0]
           /\ pc' = IF At(p, "throttle") THEN [pc EXCEPT ![p] = "idle"] ELSE pc
  BY <1>2, QueueAssumption DEF TypeOK, Labels
<1>3. QED  BY <1>1, <1>2 DEF EndOfWc

(* One step of any action keeps every variable in its type. *)
LEMMA TypeStep ==
  ASSUME TypeOK, Next
  PROVE  TypeOK'
<1>1. ASSUME NEW p \in Proc, NEW q \in Proc, NEW kind \in {"send", "write", "read"}, post(p, q, kind)
      PROVE  TypeOK'
  <2>1. CASE post_rejected(p, q)
    <3>1. faults' \in 0 .. MaxFaults
      <4>1. faults \in 0 .. MaxFaults
        BY DEF TypeOK
      <4>2. \/ UNCHANGED faults
            \/ faults < MaxFaults /\ faults' = faults + 1
        BY <2>1 DEF post_rejected
      <4>3. QED  BY <4>1, <4>2, BoundAssumption
    <3>2. ret' \in [Proc -> {0, -1}]
      <4>1. ret \in [Proc -> {0, -1}]
        BY DEF TypeOK
      <4>2. ret' = [ret EXCEPT ![p] = -1]
        BY <2>1 DEF post_rejected
      <4>3. QED  BY <4>1, <4>2
    <3>3. UNCHANGED <<pc, source, batch, qp_pending_send_wr, pending_send_wr, sendq, sent,
                      rx_win, recvq, got, lost>>
      BY <1>1, <2>1 DEF post, post_rejected
    <3>4. QED  BY <3>1, <3>2, <3>3 DEF TypeOK, rx_win, recvq, sendq
  <2>2. CASE post_accepted(p, q, kind)
    <3> DEFINE n == IF kind = "send" THEN sent[p][q] + 1 ELSE 0
               wr == [kind |-> kind, n |-> n]
    <3>1. sent[p][q] \in Nat /\ sq[p][q] \in Seq(WR) /\ done[p][q] \in Nat /\ qp_pending_send_wr[p][q] \in Int
      BY PairApply DEF TypeOK
    <3>2. wr \in WR
      BY <1>1, <3>1 DEF WR, post
    <3>3. Append(sq[p][q], wr) \in Seq(WR) /\ Len(Append(sq[p][q], wr)) = Len(sq[p][q]) + 1
      BY <3>1, <3>2
    <3>4. /\ sq' = [sq EXCEPT ![p][q] = Append(sq[p][q], wr)]
          /\ qp_pending_send_wr' = [qp_pending_send_wr EXCEPT ![p][q] = qp_pending_send_wr[p][q] + 1]
          /\ sent' = sent \/ sent' = [sent EXCEPT ![p][q] = sent[p][q] + 1]
          /\ done' = done
      BY <2>2 DEF post_accepted
    <3>5. sq' \in PairOf(Seq(WR))
      BY <3>3, <3>4, PairUpdate DEF TypeOK
    <3>6. qp_pending_send_wr' \in PairOf(Int)
      <4>1. qp_pending_send_wr[p][q] + 1 \in Int
        BY <3>1
      <4>2. qp_pending_send_wr \in PairOf(Int)
        BY DEF TypeOK
      <4>3. QED  BY <3>4, <4>1, <4>2, PairUpdate
    <3>7. sent' \in PairOf(Nat)
      <4>1. sent[p][q] + 1 \in Nat
        BY <3>1
      <4>2. sent \in PairOf(Nat)
        BY DEF TypeOK
      <4>3. sent' = sent \/ sent' = [sent EXCEPT ![p][q] = sent[p][q] + 1]
        BY <3>4
      <4>4. QED  BY <4>1, <4>2, <4>3, MaybePairUpdate
    <3>8. ASSUME NEW a \in Proc, NEW b \in Proc PROVE done'[a][b] <= Len(sq'[a][b])
      <4>1. sq'[a][b] = IF a = p /\ b = q THEN Append(sq[p][q], wr) ELSE sq[a][b]
        BY <3>4 DEF TypeOK, PairOf
      <4>2. done[a][b] \in Nat /\ sq[a][b] \in Seq(WR) /\ done[a][b] <= Len(sq[a][b])
        BY PairApply DEF TypeOK
      <4>3. done'[a][b] = done[a][b]
        BY <3>4
      <4> HIDE DEF n, wr
      <4>4. CASE a = p /\ b = q
        <5>1. sq'[a][b] = Append(sq[p][q], wr) /\ sq[a][b] = sq[p][q]
          BY <4>1, <4>4
        <5>2. Len(sq[p][q]) \in Nat
          BY <3>1
        <5>3. QED  BY <3>3, <4>2, <4>3, <5>1, <5>2
      <4>5. CASE ~ (a = p /\ b = q)
        <5>1. sq'[a][b] = sq[a][b]
          BY <4>1, <4>5
        <5>2. QED  BY <4>2, <4>3, <5>1
      <4>6. QED  BY <4>4, <4>5
    <3> HIDE DEF n, wr
    <3>9. pc' \in [Proc -> Labels] /\ ret' \in [Proc -> {0, -1}] /\ pending_send_wr' \in [Proc -> Int]
      BY <2>2 DEF post_accepted, Goto, TypeOK, Labels
    <3>10. UNCHANGED <<source, batch, done, rx_win, recvq, got, lost, faults>>
      BY <1>1, <2>2 DEF post, post_accepted
    <3>11. QED
      BY <3>5, <3>6, <3>7, <3>8, <3>9, <3>10 DEF TypeOK, rx_win, recvq
  <2>3. QED  BY <1>1, <2>1, <2>2 DEF post
<1>2. ASSUME NEW p \in Proc, NEW q \in Proc, YMPI_Zrecv(p, q)
      PROVE  TypeOK'
  BY <1>2 DEF YMPI_Zrecv, Enter, TypeOK, rx_win, sendq, recvq, history, Goto, Labels
<1>3. ASSUME NEW p \in Proc, YMPI_Zflush(p) \/ YMPI_Return(p)
      PROVE  TypeOK'
  <2>1. Enter(p, "flush") \/ Enter(p, "return")
    BY <1>3 DEF YMPI_Zflush, YMPI_Return
  <2>2. UNCHANGED source
    BY <1>3 DEF YMPI_Zflush, YMPI_Return
  <2>3. pc' \in [Proc -> Labels]
    BY <2>1 DEF Enter, Goto, TypeOK, Labels
  <2>4. UNCHANGED <<batch, ret, qp_pending_send_wr, pending_send_wr, rx_win, sendq, recvq, history>>
    BY <2>1 DEF Enter
  <2>5. QED  BY <2>2, <2>3, <2>4 DEF TypeOK, rx_win, sendq, recvq, history
<1>4. ASSUME NEW p \in Proc, NEW q \in Proc, process_wc_sent(p, q)
      PROVE  TypeOK'
  <2>1. /\ sq[p][q] \in Seq(WR) /\ done[p][q] \in Nat /\ qp_pending_send_wr[p][q] \in Int
        /\ done[p][q] <= Len(sq[p][q]) /\ done[p][q] > 0
    BY <1>4, PairApply DEF TypeOK, process_wc_sent
  <2>2. Tail(sq[p][q]) \in Seq(WR) /\ Len(Tail(sq[p][q])) = Len(sq[p][q]) - 1
    BY <2>1
  <2>3. /\ sq' = [sq EXCEPT ![p][q] = Tail(sq[p][q])]
        /\ done' = [done EXCEPT ![p][q] = done[p][q] - 1]
        /\ qp_pending_send_wr' = [qp_pending_send_wr EXCEPT ![p][q] = qp_pending_send_wr[p][q] - 1]
    BY <1>4 DEF process_wc_sent
  <2>4. sq' \in PairOf(Seq(WR))
    BY <2>2, <2>3, PairUpdate DEF TypeOK
  <2>5. done' \in PairOf(Nat) /\ qp_pending_send_wr' \in PairOf(Int)
    <3>1. done[p][q] - 1 \in Nat /\ qp_pending_send_wr[p][q] - 1 \in Int
      BY <2>1
    <3>2. QED  BY <3>1, <2>3, PairUpdate DEF TypeOK
  <2>6. ASSUME NEW a \in Proc, NEW b \in Proc PROVE done'[a][b] <= Len(sq'[a][b])
    <3>1. /\ sq'[a][b] = IF a = p /\ b = q THEN Tail(sq[p][q]) ELSE sq[a][b]
          /\ done'[a][b] = IF a = p /\ b = q THEN done[p][q] - 1 ELSE done[a][b]
      BY <2>3 DEF TypeOK, PairOf
    <3>2. done[a][b] \in Nat /\ sq[a][b] \in Seq(WR) /\ done[a][b] <= Len(sq[a][b])
      BY PairApply DEF TypeOK
    <3>3. QED  BY <2>1, <2>2, <3>1, <3>2
  <2>7. batch' \in [Proc -> 0 .. PollBatch - 1] /\ pc' \in [Proc -> Labels]
    BY <1>4, EndOfWcType DEF process_wc_sent
  <2>8. pending_send_wr' \in [Proc -> Int]
    BY <1>4 DEF process_wc_sent, TypeOK
  <2>9. QED
    BY <1>4, <2>4, <2>5, <2>6, <2>7, <2>8 DEF process_wc_sent, TypeOK, rx_win, recvq, history
<1>5. ASSUME NEW p \in Proc, NEW q \in Proc, process_wc_recv(p, q)
      PROVE  TypeOK'
  <2> DEFINE c == Head(rcq[p][q])
  <2>1. rcq[p][q] \in Seq(Recv) /\ rcq[p][q] # <<>> /\ pending_recv_queue[p][q] \in Seq(Vbuf)
    BY <1>5, PairApply DEF TypeOK, process_wc_recv
  <2>2. c \in Recv /\ Tail(rcq[p][q]) \in Seq(Recv)
    BY <2>1, QueueParts
  <2>3. c.id \in Vbuf /\ c.msg \in Msg
    BY <2>2 DEF Recv
  <2>4. /\ rcq' = [rcq EXCEPT ![p][q] = Tail(rcq[p][q])]
        /\ buf_bytes' = [buf_bytes EXCEPT ![p][c.id] = c.msg]
        /\ \/ pending_recv_queue' = pending_recv_queue
           \/ pending_recv_queue' = [pending_recv_queue EXCEPT ![p][q] = Append(pending_recv_queue[p][q], c.id)]
    BY <1>5 DEF process_wc_recv
  <2>5. rcq' \in PairOf(Seq(Recv))
    BY <2>2, <2>4, PairUpdate DEF TypeOK
  <2>6. pending_recv_queue' \in PairOf(Seq(Vbuf))
    <3>1. Append(pending_recv_queue[p][q], c.id) \in Seq(Vbuf)
      BY <2>1, <2>3
    <3>2. pending_recv_queue \in PairOf(Seq(Vbuf))
      BY DEF TypeOK
    <3> HIDE DEF c
    <3>3. QED  BY <3>1, <3>2, <2>4, MaybePairUpdate
  <2>7. buf_bytes' \in [Proc -> [Vbuf -> Msg]]
    BY <2>3, <2>4 DEF TypeOK
  <2>8. batch' \in [Proc -> 0 .. PollBatch - 1] /\ pc' \in [Proc -> Labels]
    BY <1>5, EndOfWcType DEF process_wc_recv, Goto, TypeOK, Labels
  <2> HIDE DEF c
  <2>9. QED
    BY <1>5, <2>5, <2>6, <2>7, <2>8 DEF process_wc_recv, TypeOK, sendq, history
<1>6. ASSUME NEW p \in Proc, NEW q \in Proc, process_wc_failed(p, q)
      PROVE  TypeOK'
  <2>1. UNCHANGED <<pending_recv_queue, vbuf_fetched, buf_bytes, data, srq, rcq, lost, sq, done, got, sent>>
    BY <1>6 DEF process_wc_failed, rx_win, sendq, recvq
  <2>2. UNCHANGED <<source, batch, ret, qp_pending_send_wr, pending_send_wr>>
    BY <1>6 DEF process_wc_failed
  <2>3. faults' \in 0 .. MaxFaults
    BY <1>6, BoundAssumption DEF process_wc_failed, TypeOK
  <2>4. pc' \in [Proc -> Labels]
    BY <1>6 DEF process_wc_failed, Goto, TypeOK, Labels
  <2>5. QED  BY <2>1, <2>2, <2>3, <2>4 DEF TypeOK
<1>7. ASSUME NEW p \in Proc, poll_failed(p)
      PROVE  TypeOK'
  BY <1>7, BoundAssumption DEF poll_failed, Goto, TypeOK, rx_win, sendq, recvq, Labels
<1>8. ASSUME NEW p \in Proc, Zflush_return(p) \/ Return_return(p)
      PROVE  TypeOK'
  <2>1. pc' = [pc EXCEPT ![p] = "idle"]
    BY <1>8 DEF Zflush_return, Return_return, Goto
  <2>2. pc' \in [Proc -> Labels]
    BY <2>1 DEF TypeOK, Labels
  <2>3. UNCHANGED <<source, batch, ret, qp_pending_send_wr, pending_send_wr, rx_win, sendq, recvq, history>>
    BY <1>8 DEF Zflush_return, Return_return
  <2>4. QED  BY <2>2, <2>3 DEF TypeOK, rx_win, sendq, recvq, history
<1>9. ASSUME NEW p \in Proc, Zrecv_return(p)
      PROVE  TypeOK'
  <2> DEFINE s == source[p]
             v == Head(pending_recv_queue[p][s])
             x == [data |-> data[p][v], len |-> buf_bytes[p][v]]
  <2>1. s \in Proc
    BY DEF TypeOK
  <2>2. pending_recv_queue[p][s] \in Seq(Vbuf) /\ got[p][s] \in Seq([data : Msg, len : Msg])
    BY <2>1, PairApply DEF TypeOK
  <2>3. v \in Vbuf /\ Tail(pending_recv_queue[p][s]) \in Seq(Vbuf)
    BY <1>9, <2>2, QueueParts DEF Zrecv_return
  <2>4. x \in [data : Msg, len : Msg]
    BY <2>3 DEF TypeOK
  <2>5. Append(got[p][s], x) \in Seq([data : Msg, len : Msg])
    BY <2>2, <2>4
  <2>6. /\ pending_recv_queue' = [pending_recv_queue EXCEPT ![p][s] = Tail(pending_recv_queue[p][s])]
        /\ got' = got \/ got' = [got EXCEPT ![p][s] = Append(got[p][s], x)]
        /\ \/ vbuf_fetched' = vbuf_fetched
           \/ vbuf_fetched' = [vbuf_fetched EXCEPT ![p] = Append(vbuf_fetched[p], v)]
    BY <1>9 DEF Zrecv_return
  <2> HIDE DEF s, v, x
  <2>7. pending_recv_queue' \in PairOf(Seq(Vbuf))
    BY <2>1, <2>3, <2>6, PairUpdate DEF TypeOK
  <2>8. got' \in PairOf(Seq([data : Msg, len : Msg]))
    <3>1. got \in PairOf(Seq([data : Msg, len : Msg]))
      BY DEF TypeOK
    <3>2. QED  BY <3>1, <2>1, <2>5, <2>6, MaybePairUpdate
  <2>9. vbuf_fetched' \in [Proc -> Seq(Vbuf)]
    <3>1. vbuf_fetched \in [Proc -> Seq(Vbuf)]
      BY DEF TypeOK
    <3>2. Append(vbuf_fetched[p], v) \in Seq(Vbuf)
      BY <2>3, <3>1
    <3>3. QED  BY <2>6, <3>1, <3>2
  <2>10. pc' \in [Proc -> Labels]
    BY <1>9 DEF Zrecv_return, Goto, TypeOK, Labels
  <2>11. QED
    BY <1>9, <2>7, <2>8, <2>9, <2>10 DEF Zrecv_return, TypeOK, sendq, recvq
<1>10. ASSUME NEW p \in Proc, Return_post(p)
      PROVE  TypeOK'
  <2> DEFINE v == Head(vbuf_fetched[p])
  <2>1. v \in Vbuf /\ Tail(vbuf_fetched[p]) \in Seq(Vbuf)
    BY <1>10, QueueParts DEF Return_post, TypeOK
  <2>2. /\ vbuf_fetched' = [vbuf_fetched EXCEPT ![p] = Tail(vbuf_fetched[p])]
        /\ srq' = srq \/ srq' = [srq EXCEPT ![p] = srq[p] \cup {v}]
        /\ lost' = lost \/ lost' = [lost EXCEPT ![p] = lost[p] \cup {v}]
        /\ pc' = pc \/ pc' = [pc EXCEPT ![p] = "idle"]
        /\ faults' = faults \/ (faults < MaxFaults /\ faults' = faults + 1)
    BY <1>10 DEF Return_post, Goto
  <2> HIDE DEF v
  <2>3. vbuf_fetched' \in [Proc -> Seq(Vbuf)]
    BY <2>1, <2>2 DEF TypeOK
  <2>4. srq' \in [Proc -> SUBSET Vbuf] /\ lost' \in [Proc -> SUBSET Vbuf]
    <3>1. srq[p] \cup {v} \in SUBSET Vbuf /\ srq \in [Proc -> SUBSET Vbuf]
      BY <2>1 DEF TypeOK
    <3>2. lost[p] \cup {v} \in SUBSET Vbuf /\ lost \in [Proc -> SUBSET Vbuf]
      BY <2>1 DEF TypeOK
    <3>3. srq' \in [Proc -> SUBSET Vbuf]
      BY <2>2, <3>1, MaybeUpdate
    <3>4. lost' \in [Proc -> SUBSET Vbuf]
      BY <2>2, <3>2, MaybeUpdate
    <3>5. QED  BY <3>3, <3>4
  <2>5. pc' \in [Proc -> Labels] /\ faults' \in 0 .. MaxFaults
    <3>1. pc' \in [Proc -> Labels]
      BY <2>2 DEF TypeOK, Labels
    <3>2. faults' \in 0 .. MaxFaults
      BY <2>2, BoundAssumption DEF TypeOK
    <3>3. QED  BY <3>1, <3>2
  <2>6. QED
    BY <1>10, <2>3, <2>4, <2>5 DEF Return_post, TypeOK, sendq
<1>11. ASSUME NEW p \in Proc, NEW q \in Proc, hca_deliver(p, q)
      PROVE  TypeOK'
  <2> DEFINE wr == sq[p][q][done[p][q] + 1]
             m == [src |-> p, n |-> wr.n]
  <2>1. done[p][q] \in Nat /\ sq[p][q] \in Seq(WR) /\ done[p][q] < Len(sq[p][q]) /\ rcq[q][p] \in Seq(Recv)
    BY <1>11, PairApply DEF TypeOK, hca_deliver
  <2>2. wr \in WR
    BY <2>1
  <2>3. m \in Msg
    BY <2>2 DEF WR, Msg
  <2>4. done' \in PairOf(Nat)
    <3>1. done' = [done EXCEPT ![p][q] = done[p][q] + 1]
      BY <1>11 DEF hca_deliver
    <3>2. done[p][q] + 1 \in Nat /\ done \in PairOf(Nat)
      BY <2>1 DEF TypeOK
    <3>3. QED  BY <3>1, <3>2, PairUpdate
  <2>5. ASSUME NEW a \in Proc, NEW b \in Proc PROVE done'[a][b] <= Len(sq'[a][b])
    <3>1. done'[a][b] = IF a = p /\ b = q THEN done[p][q] + 1 ELSE done[a][b]
      BY <1>11 DEF hca_deliver, TypeOK, PairOf
    <3>2. sq' = sq
      BY <1>11 DEF hca_deliver
    <3>3. done[a][b] \in Nat /\ sq[a][b] \in Seq(WR) /\ done[a][b] <= Len(sq[a][b])
      BY PairApply DEF TypeOK
    <3>4. QED  BY <2>1, <3>1, <3>2, <3>3
  <2>6. \/ UNCHANGED <<srq, data, rcq>>
        \/ \E v \in srq[q] :
             /\ srq' = [srq EXCEPT ![q] = srq[q] \ {v}]
             /\ data' = [data EXCEPT ![q][v] = m]
             /\ rcq' = [rcq EXCEPT ![q][p] = Append(rcq[q][p], [id |-> v, msg |-> m])]
    BY <1>11 DEF hca_deliver
  <2> HIDE DEF wr, m
  <2>7. srq' \in [Proc -> SUBSET Vbuf] /\ data' \in [Proc -> [Vbuf -> Msg]] /\ rcq' \in PairOf(Seq(Recv))
    <3>1. CASE UNCHANGED <<srq, data, rcq>>
      BY <3>1 DEF TypeOK
    <3>2. ASSUME NEW v \in srq[q],
                 srq' = [srq EXCEPT ![q] = srq[q] \ {v}],
                 data' = [data EXCEPT ![q][v] = m],
                 rcq' = [rcq EXCEPT ![q][p] = Append(rcq[q][p], [id |-> v, msg |-> m])]
          PROVE  srq' \in [Proc -> SUBSET Vbuf] /\ data' \in [Proc -> [Vbuf -> Msg]] /\ rcq' \in PairOf(Seq(Recv))
      <4>1. v \in Vbuf
        BY DEF TypeOK
      <4>2. srq' \in [Proc -> SUBSET Vbuf] /\ data' \in [Proc -> [Vbuf -> Msg]]
        BY <2>3, <3>2, <4>1 DEF TypeOK
      <4>3. [id |-> v, msg |-> m] \in Recv
        BY <2>3, <4>1 DEF Recv
      <4>4. Append(rcq[q][p], [id |-> v, msg |-> m]) \in Seq(Recv)
        BY <2>1, <4>3
      <4>5. rcq' \in PairOf(Seq(Recv))
        BY <3>2, <4>4, PairUpdate DEF TypeOK
      <4>6. QED  BY <4>2, <4>5
    <3>3. QED  BY <2>6, <3>1, <3>2
  <2>8. QED
    BY <1>11, <2>4, <2>5, <2>7 DEF hca_deliver, TypeOK, context, history
<1>12. QED
  BY <1>1, <1>2, <1>3, <1>4, <1>5, <1>6, <1>7, <1>8, <1>9, <1>10, <1>11
     DEF Next, Call, Step, Hca, YMPI_Zsend, YMPI_Write, YMPI_Read

--------------------------------------------------------------------------------
(***************************************************************************)
(* Counting WRs.  Cells(len) is the set of the work requests when the QP   *)
(* to q holds len[q] of them: Outstanding(p) is Cells of the queue lengths *)
(* of p.                                                                   *)
(***************************************************************************)
Cells(len) == UNION {{<<q, i>> : i \in 1 .. len[q]} : q \in Proc}

Lengths(p) == [q \in Proc |-> Len(sq[p][q])]

LEMMA CellsMember ==
  ASSUME NEW len \in [Proc -> Nat]
  PROVE  \A q, i : <<q, i>> \in Cells(len) <=> q \in Proc /\ i \in 1 .. len[q]
  BY DEF Cells

LEMMA CellsArePairs ==
  ASSUME NEW len \in [Proc -> Nat], NEW c \in Cells(len)
  PROVE  \E q \in Proc, i \in Nat : c = <<q, i>>
  BY DEF Cells

(* One more WR on the QP to q is one more cell. *)
LEMMA CellsGrow ==
  ASSUME NEW len \in [Proc -> Nat], NEW q \in Proc,
         NEW more, more = [len EXCEPT ![q] = len[q] + 1]
  PROVE  /\ Cells(more) = Cells(len) \cup {<<q, len[q] + 1>>}
         /\ <<q, len[q] + 1>> \notin Cells(len)
<1>1. more \in [Proc -> Nat]
  OBVIOUS
<1>2. \A r \in Proc : more[r] = IF r = q THEN len[q] + 1 ELSE len[r]
  OBVIOUS
<1>3. <<q, len[q] + 1>> \notin Cells(len)
  BY CellsMember
<1>4. ASSUME NEW r \in Proc, NEW i \in Nat
      PROVE  <<r, i>> \in Cells(more) <=> <<r, i>> \in Cells(len) \cup {<<q, len[q] + 1>>}
  <2>1. i \in 1 .. more[r] <=> i \in 1 .. len[r] \/ (r = q /\ i = len[q] + 1)
    BY <1>2
  <2>2. QED  BY <1>1, <2>1, CellsMember
<1>5. Cells(more) \subseteq Cells(len) \cup {<<q, len[q] + 1>>}
  <2> SUFFICES ASSUME NEW c \in Cells(more) PROVE c \in Cells(len) \cup {<<q, len[q] + 1>>}
    OBVIOUS
  <2>1. PICK r \in Proc, i \in Nat : c = <<r, i>>
    BY <1>1, CellsArePairs
  <2>2. QED  BY <1>4, <2>1
<1>6. Cells(len) \cup {<<q, len[q] + 1>>} \subseteq Cells(more)
  <2> SUFFICES ASSUME NEW c \in Cells(len) \cup {<<q, len[q] + 1>>} PROVE c \in Cells(more)
    OBVIOUS
  <2>1. \E r \in Proc, i \in Nat : c = <<r, i>>
    BY CellsArePairs
  <2>2. PICK r \in Proc, i \in Nat : c = <<r, i>>
    BY <2>1
  <2>3. QED  BY <1>4, <2>2
<1>7. QED  BY <1>3, <1>5, <1>6

(* No cells, no WRs. *)
LEMMA NoCells ==
  ASSUME NEW len \in [Proc -> Nat], Cells(len) = {}
  PROVE  \A q \in Proc : len[q] = 0
<1> SUFFICES ASSUME NEW q \in Proc, len[q] # 0 PROVE FALSE
  OBVIOUS
<1>1. 1 \in 1 .. len[q]
  OBVIOUS
<1>2. QED  BY <1>1, CellsMember

LEMMA CellsEmpty ==
  ASSUME NEW len \in [Proc -> Nat], \A q \in Proc : len[q] = 0
  PROVE  Cells(len) = {}
<1> SUFFICES ASSUME NEW c \in Cells(len) PROVE FALSE
  OBVIOUS
<1>1. PICK q \in Proc, i \in Nat : c = <<q, i>>
  BY CellsArePairs
<1>2. i \in 1 .. len[q]
  BY <1>1, CellsMember
<1>3. QED  BY <1>2

LEMMA OutstandingCells ==
  ASSUME NEW s \in PairOf(Seq(WR)), NEW p \in Proc
  PROVE  /\ [q \in Proc |-> Len(s[p][q])] \in [Proc -> Nat]
         /\ UNION {{<<q, i>> : i \in 1 .. Len(s[p][q])} : q \in Proc}
              = Cells([q \in Proc |-> Len(s[p][q])])
<1>1. \A q \in Proc : Len(s[p][q]) \in Nat
  BY PairApply
<1>2. QED  BY <1>1 DEF Cells

(***************************************************************************)
(* The inductive invariant: CountersExact, and that there are finitely     *)
(* many WRs, without which their number means nothing.                     *)
(***************************************************************************)
CountersOK(p) ==
  /\ \A q \in Proc : qp_pending_send_wr[p][q] = Len(sq[p][q])
  /\ pending_send_wr[p] = Cardinality(Outstanding(p))
  /\ IsFiniteSet(Outstanding(p))

CountersInv == \A p \in Proc : CountersOK(p)

\* QP p -> q now holds the WRs s, change more than before, and the counters say so.
Counted(p, q, s, change) ==
  /\ sq' = [sq EXCEPT ![p][q] = s]
  /\ Len(s) = Len(sq[p][q]) + change
  /\ qp_pending_send_wr' = [qp_pending_send_wr EXCEPT ![p][q] = qp_pending_send_wr[p][q] + change]
  /\ pending_send_wr' = [pending_send_wr EXCEPT ![p] = pending_send_wr[p] + change]

LEMMA CountedStep ==
  ASSUME TypeOK, TypeOK', CountersInv,
         NEW p \in Proc, NEW q \in Proc, NEW s, NEW change \in {1, -1}, Counted(p, q, s, change)
  PROVE  CountersInv'
<1> DEFINE old == [b \in Proc |-> Len(sq[p][b])]
           new == [b \in Proc |-> Len(sq'[p][b])]
<1>1. sq \in PairOf(Seq(WR)) /\ sq' \in PairOf(Seq(WR))
  BY DEF TypeOK
<1>2. old \in [Proc -> Nat] /\ Outstanding(p) = Cells(old)
  BY <1>1, OutstandingCells DEF Outstanding
<1>3. new \in [Proc -> Nat] /\ Outstanding(p)' = Cells(new)
  BY <1>1, OutstandingCells DEF Outstanding
<1>4. \A a, b \in Proc : sq'[a][b] = IF a = p /\ b = q THEN s ELSE sq[a][b]
  BY <1>1 DEF Counted, PairOf
<1>5. new[q] = old[q] + change /\ \A b \in Proc \ {q} : new[b] = old[b]
  BY <1>4 DEF Counted
<1>6. CountersOK(p)
  BY DEF CountersInv
<1> HIDE DEF old, new
<1>7. /\ IsFiniteSet(Cells(new)) /\ IsFiniteSet(Cells(old))
      /\ Cardinality(Cells(new)) = Cardinality(Cells(old)) + change
  <2>1. IsFiniteSet(Cells(old)) /\ Cardinality(Cells(old)) \in Nat
    BY <1>2, <1>6, FS_CardinalityType DEF CountersOK
  <2>2. CASE change = 1
    <3>1. new = [old EXCEPT ![q] = old[q] + 1]
      BY <1>2, <1>3, <1>5, <2>2
    <3>2. Cells(new) = Cells(old) \cup {<<q, old[q] + 1>>} /\ <<q, old[q] + 1>> \notin Cells(old)
      BY <1>2, <3>1, CellsGrow
    <3>3. QED  BY <2>1, <2>2, <3>2, FS_AddElement
  <2>3. CASE change = -1
    <3>1. old = [new EXCEPT ![q] = new[q] + 1]
      BY <1>2, <1>3, <1>5, <2>3
    <3>2. Cells(old) = Cells(new) \cup {<<q, new[q] + 1>>} /\ <<q, new[q] + 1>> \notin Cells(new)
      BY <1>3, <3>1, CellsGrow
    <3>3. Cells(new) = Cells(old) \ {<<q, new[q] + 1>>} /\ <<q, new[q] + 1>> \in Cells(old)
      BY <3>2
    <3> DEFINE x == <<q, new[q] + 1>>
    <3> HIDE DEF x
    <3>0. IsFiniteSet(Cells(old)) /\ x \in Cells(old)
      BY <2>1, <3>3 DEF x
    <3>4. IsFiniteSet(Cells(old) \ {x}) /\ Cardinality(Cells(old) \ {x}) = Cardinality(Cells(old)) - 1
      BY <3>0, FS_RemoveElement
    <3>5. Cells(old) \ {x} = Cells(new)
      BY <3>3 DEF x
    <3>6. QED  BY <2>1, <2>3, <3>4, <3>5
  <2>4. QED  BY <2>2, <2>3
<1>8. CountersOK(p)'
  <2>1. pending_send_wr'[p] = pending_send_wr[p] + change
    BY DEF Counted, TypeOK
  <2>2. \A b \in Proc : qp_pending_send_wr'[p][b] =
          IF b = q THEN qp_pending_send_wr[p][q] + change ELSE qp_pending_send_wr[p][b]
    BY DEF Counted, TypeOK, PairOf
  <2>3. \A b \in Proc : qp_pending_send_wr'[p][b] = Len(sq'[p][b])
    BY <1>4, <1>6, <2>2 DEF Counted, CountersOK
  <2>4. QED  BY <1>2, <1>3, <1>6, <1>7, <2>1, <2>3 DEF CountersOK
<1>9. ASSUME NEW a \in Proc \ {p} PROVE CountersOK(a)'
  <2>1. CountersOK(a)
    BY DEF CountersInv
  <2>2. \A b \in Proc : sq'[a][b] = sq[a][b]
    BY <1>4
  <2>3. Outstanding(a)' = Outstanding(a)
    BY <2>2 DEF Outstanding
  <2>4. pending_send_wr'[a] = pending_send_wr[a]
    BY DEF Counted, TypeOK
  <2>5. \A b \in Proc : qp_pending_send_wr'[a][b] = qp_pending_send_wr[a][b]
    BY DEF Counted, TypeOK, PairOf
  <2>6. QED  BY <2>1, <2>2, <2>3, <2>4, <2>5 DEF CountersOK
<1>10. QED  BY <1>8, <1>9 DEF CountersInv

(* A step that leaves the send queues and the counters alone. *)
LEMMA NotCounted ==
  ASSUME CountersInv, UNCHANGED <<sq, qp_pending_send_wr, pending_send_wr>>
  PROVE  CountersInv'
<1> SUFFICES ASSUME NEW p \in Proc PROVE CountersOK(p)'
  BY DEF CountersInv
<1>1. CountersOK(p)
  BY DEF CountersInv
<1>2. Outstanding(p)' = Outstanding(p)
  BY DEF Outstanding
<1>3. QED  BY <1>1, <1>2 DEF CountersOK

LEMMA CountersStep ==
  ASSUME TypeOK, TypeOK', CountersInv, Next
  PROVE  CountersInv'
<1>1. ASSUME NEW p \in Proc, NEW q \in Proc, NEW kind \in {"send", "write", "read"}, post(p, q, kind)
      PROVE  CountersInv'
  <2>1. CASE post_rejected(p, q)
    BY <2>1, NotCounted DEF post_rejected, sendq
  <2>2. CASE post_accepted(p, q, kind)
    <3>1. PICK wr : sq' = [sq EXCEPT ![p][q] = Append(sq[p][q], wr)]
      BY <2>2 DEF post_accepted
    <3>2. sq'[p][q] = Append(sq[p][q], wr) /\ sq[p][q] \in Seq(WR) /\ sq'[p][q] \in Seq(WR)
      BY <3>1, PairApply DEF TypeOK, PairOf
    <3>3. Len(sq'[p][q]) = Len(sq[p][q]) + 1
      BY <3>2
    <3>4. Counted(p, q, Append(sq[p][q], wr), 1)
      BY <2>2, <3>1, <3>2, <3>3 DEF post_accepted, Counted
    <3>5. QED  BY <3>4, CountedStep
  <2>3. QED  BY <1>1, <2>1, <2>2 DEF post
<1>2. ASSUME NEW p \in Proc, NEW q \in Proc, process_wc_sent(p, q)
      PROVE  CountersInv'
  <2>1. sq' = [sq EXCEPT ![p][q] = Tail(sq[p][q])] /\ sq[p][q] \in Seq(WR) /\ Len(sq[p][q]) > 0
    <3>1. sq \in PairOf(Seq(WR)) /\ done[p][q] \in Nat /\ done[p][q] <= Len(sq[p][q])
      BY PairApply DEF TypeOK
    <3>2. sq[p][q] \in Seq(WR)
      BY <3>1, PairApply
    <3>3. sq' = [sq EXCEPT ![p][q] = Tail(sq[p][q])] /\ done[p][q] > 0
      BY <1>2 DEF process_wc_sent
    <3>4. Len(sq[p][q]) > 0
      BY <3>1, <3>2, <3>3
    <3>5. QED  BY <3>2, <3>3, <3>4
  <2>2. Len(Tail(sq[p][q])) = Len(sq[p][q]) - 1 /\ Len(sq[p][q]) \in Nat
    BY <2>1
  <2>3. Len(Tail(sq[p][q])) = Len(sq[p][q]) + (-1)
    BY <2>2
  <2>4. qp_pending_send_wr[p][q] \in Int /\ pending_send_wr[p] \in Int
    BY PairApply DEF TypeOK
  <2>5. Counted(p, q, Tail(sq[p][q]), -1)
    BY <1>2, <2>1, <2>3, <2>4 DEF process_wc_sent, Counted
  <2>6. QED  BY <2>5, CountedStep
<1>3. ASSUME NEW p \in Proc, NEW q \in Proc,
             \/ YMPI_Zrecv(p, q) \/ process_wc_recv(p, q) \/ process_wc_failed(p, q) \/ hca_deliver(p, q)
      PROVE  CountersInv'
  BY <1>3, NotCounted
     DEF YMPI_Zrecv, Enter, process_wc_recv, process_wc_failed, hca_deliver, sendq, context
<1>4. ASSUME NEW p \in Proc,
             \/ YMPI_Zflush(p) \/ YMPI_Return(p) \/ poll_failed(p) \/ Zflush_return(p)
             \/ Zrecv_return(p) \/ Return_post(p) \/ Return_return(p)
      PROVE  CountersInv'
  BY <1>4, NotCounted
     DEF YMPI_Zflush, YMPI_Return, Enter, poll_failed, Zflush_return, Zrecv_return, Return_post,
         Return_return, sendq
<1>5. QED
  BY <1>1, <1>2, <1>3, <1>4 DEF Next, Call, Step, Hca, YMPI_Zsend, YMPI_Write, YMPI_Read

LEMMA CountersInit ==
  ASSUME Init
  PROVE  CountersInv
<1> SUFFICES ASSUME NEW p \in Proc PROVE CountersOK(p)
  BY DEF CountersInv
<1>1. \A q \in Proc : Len(sq[p][q]) = 0 /\ qp_pending_send_wr[p][q] = 0
  BY DEF Init
<1>2. Outstanding(p) = {}
  BY <1>1 DEF Outstanding
<1>3. IsFiniteSet(Outstanding(p)) /\ Cardinality(Outstanding(p)) = 0
  BY <1>2, FS_EmptySet
<1>4. QED  BY <1>1, <1>3 DEF CountersOK, Init

--------------------------------------------------------------------------------
(***************************************************************************)
(* Every variable of the messaging core keeps its type, whatever the calls *)
(* of the processes, the steps of the HCAs and the failures.               *)
(***************************************************************************)
THEOREM TypeCorrect == Spec => []TypeOK
<1>1. Init => TypeOK
  BY QueueAssumption, BoundAssumption DEF Init, TypeOK, PairOf, Labels, Msg
<1>2. TypeOK /\ [Next]_vars => TypeOK'
  <2> SUFFICES ASSUME TypeOK, [Next]_vars PROVE TypeOK'
    OBVIOUS
  <2>1. CASE Next
    BY <2>1, TypeStep
  <2>2. CASE UNCHANGED vars
    BY <2>2 DEF TypeOK, vars, context, rx_win, sendq, recvq, history
  <2>3. QED  BY <2>1, <2>2
<1>3. QED  BY <1>1, <1>2, PTL DEF Spec

LEMMA CountersInvariant == Spec => []CountersInv
<1>1. Init => CountersInv
  BY CountersInit
<1>2. TypeOK /\ TypeOK' /\ CountersInv /\ [Next]_vars => CountersInv'
  <2> SUFFICES ASSUME TypeOK, TypeOK', CountersInv, [Next]_vars PROVE CountersInv'
    OBVIOUS
  <2>1. CASE Next
    BY <2>1, CountersStep
  <2>2. CASE UNCHANGED vars
    BY <2>2, NotCounted DEF vars, context, sendq
  <2>3. QED  BY <2>1, <2>2
<1>3. QED  BY <1>1, <1>2, TypeCorrect, PTL DEF Spec

(***************************************************************************)
(* The counters of process_wc and of the posting calls always equal the    *)
(* number of WRs that are posted and not yet handled, per QP and in total. *)
(***************************************************************************)
THEOREM CountersCorrect == Spec => []CountersExact
<1>1. CountersInv => CountersExact
  BY DEF CountersInv, CountersOK, CountersExact
<1>2. QED  BY <1>1, CountersInvariant, PTL

(* Only Zflush_return takes a process from its flush to the end of the call. *)
LEMMA FlushEnds ==
  ASSUME TypeOK, Next, NEW p \in Proc, At(p, "flush"), pc'[p] = "idle"
  PROVE  Zflush_return(p)
<1>1. \A a \in Proc : \A label : pc' = [pc EXCEPT ![a] = label] => (pc'[a] = label /\ \A b \in Proc \ {a} : pc'[b] = pc[b])
  BY DEF TypeOK
<1>2. pc[p] = "flush"
  BY DEF At
<1>3. pc' # pc
  BY <1>2
<1>4. ASSUME NEW a \in Proc, NEW q \in Proc, NEW kind \in {"send", "write", "read"}, post(a, q, kind)
      PROVE  FALSE
  <2>1. pc[a] = "idle"
    BY <1>4 DEF post, At
  <2>2. PICK label : pc' = [pc EXCEPT ![a] = label]
    BY <1>3, <1>4 DEF post, post_rejected, post_accepted, Goto
  <2>3. QED  BY <1>1, <1>2, <2>1, <2>2
<1>5. ASSUME NEW a \in Proc, NEW label, Enter(a, label) PROVE FALSE
  <2>1. pc[a] = "idle" /\ pc' = [pc EXCEPT ![a] = label]
    BY <1>5 DEF Enter, At, Goto
  <2>2. QED  BY <1>1, <1>2, <2>1
<1>6. ASSUME NEW a \in Proc, EndOfWc(a) PROVE FALSE
  <2>1. pc[a] = "throttle" /\ pc' = [pc EXCEPT ![a] = "idle"]
    BY <1>3, <1>6 DEF EndOfWc, At
  <2>2. QED  BY <1>1, <1>2, <2>1
<1>7. ASSUME NEW a \in Proc, pc' = [pc EXCEPT ![a] = "exit"] PROVE FALSE
  BY <1>1, <1>2, <1>7
<1>8. ASSUME NEW a \in Proc, poll_failed(a) PROVE FALSE
  <2>1. CASE At(a, "throttle")
    <3>1. pc[a] = "throttle" /\ pc' = [pc EXCEPT ![a] = "idle"]
      BY <1>8, <2>1 DEF poll_failed, At, Goto
    <3>2. QED  BY <1>1, <1>2, <3>1
  <2>2. CASE ~ At(a, "throttle")
    <3>1. pc' = [pc EXCEPT ![a] = "exit"]
      BY <1>8, <2>2 DEF poll_failed, Goto
    <3>2. QED  BY <1>7, <3>1
  <2>3. QED  BY <2>1, <2>2
<1>9. ASSUME NEW a \in Proc, Zrecv_return(a) PROVE FALSE
  <2>1. pc[a] = "recv" /\ \E label : pc' = [pc EXCEPT ![a] = label]
    BY <1>9 DEF Zrecv_return, At, Goto
  <2>2. QED  BY <1>1, <1>2, <2>1
<1>10. ASSUME NEW a \in Proc, Return_post(a) \/ Return_return(a) PROVE FALSE
  <2>1. pc[a] = "return" /\ \E label : pc' = [pc EXCEPT ![a] = label]
    BY <1>3, <1>10 DEF Return_post, Return_return, At, Goto
  <2>2. QED  BY <1>1, <1>2, <2>1
<1>11. ASSUME NEW a \in Proc, Zflush_return(a) PROVE Zflush_return(p)
  <2>1. pc' = [pc EXCEPT ![a] = "idle"]
    BY <1>11 DEF Zflush_return, Goto
  <2>2. a = p
    BY <1>1, <1>2, <2>1
  <2>3. QED  BY <1>11, <2>2
<1>12. ASSUME NEW a \in Proc, NEW q \in Proc,
              \/ YMPI_Zrecv(a, q) \/ process_wc_sent(a, q) \/ process_wc_recv(a, q)
              \/ process_wc_failed(a, q) \/ hca_deliver(a, q)
       PROVE  FALSE
  <2>1. CASE YMPI_Zrecv(a, q)
    BY <1>5, <2>1 DEF YMPI_Zrecv
  <2>2. CASE process_wc_sent(a, q)
    BY <1>6, <2>2 DEF process_wc_sent
  <2>3. CASE process_wc_recv(a, q)
    BY <1>6, <1>7, <2>3 DEF process_wc_recv, Goto
  <2>4. CASE process_wc_failed(a, q)
    BY <1>7, <2>4 DEF process_wc_failed, Goto
  <2>5. CASE hca_deliver(a, q)
    BY <1>3, <2>5 DEF hca_deliver, context
  <2>6. QED  BY <1>12, <2>1, <2>2, <2>3, <2>4, <2>5
<1>13. ASSUME NEW a \in Proc, YMPI_Zflush(a) \/ YMPI_Return(a) PROVE FALSE
  BY <1>5, <1>13 DEF YMPI_Zflush, YMPI_Return
<1>14. QED
  BY <1>4, <1>8, <1>9, <1>10, <1>11, <1>12, <1>13
     DEF Next, Call, Step, Hca, YMPI_Zsend, YMPI_Write, YMPI_Read

LEMMA FlushEmpties ==
  ASSUME TypeOK, CountersInv, NEW p \in Proc, NEW q \in Proc, Zflush_return(p)
  PROVE  sq'[p][q] = <<>>
<1>1. sq' = sq /\ ~ (pending_send_wr[p] > 0)
  BY DEF Zflush_return, sendq
<1>2. IsFiniteSet(Outstanding(p)) /\ pending_send_wr[p] = Cardinality(Outstanding(p))
  BY DEF CountersInv, CountersOK
<1>3. Cardinality(Outstanding(p)) = 0
  BY <1>1, <1>2, FS_CardinalityType
<1>4. Outstanding(p) = {}
  BY <1>2, <1>3, FS_EmptySet
<1>5. sq \in PairOf(Seq(WR))
  BY DEF TypeOK
<1> DEFINE len == [r \in Proc |-> Len(sq[p][r])]
<1>6. len \in [Proc -> Nat] /\ Cells(len) = {}
  BY <1>4, <1>5, OutstandingCells DEF Outstanding
<1>7. len[q] = 0
  BY <1>6, NoCells
<1>8. sq[p][q] \in Seq(WR) /\ Len(sq[p][q]) = 0
  BY <1>5, <1>7, PairApply
<1>9. QED  BY <1>1, <1>8

(***************************************************************************)
(* When YMPI_Zflush returns, no WR of the calling process is outstanding   *)
(* on any QP: the comment on line 883 is true of a single-threaded caller. *)
(***************************************************************************)
THEOREM FlushCorrect == Spec => FlushCompletes
<1>1. ASSUME TypeOK, CountersInv, [Next]_vars, NEW p \in Proc, At(p, "flush"), pc'[p] = "idle",
             NEW q \in Proc
      PROVE  sq'[p][q] = <<>>
  <2>1. Next
    BY <1>1 DEF vars, context, At
  <2>2. Zflush_return(p)
    BY <1>1, <2>1, FlushEnds
  <2>3. QED  BY <1>1, <2>2, FlushEmpties
<1>2. TypeOK /\ CountersInv /\ [Next]_vars =>
        [\A p \in Proc : At(p, "flush") /\ pc'[p] = "idle" => \A q \in Proc : sq'[p][q] = <<>>]_vars
  BY <1>1
<1>3. QED  BY <1>2, TypeCorrect, CountersInvariant, PTL DEF Spec, FlushCompletes

-----------------------------------------------------------------------------
(***************************************************************************)
(* The receive buffers (vbufs): each is in one place, so no list overflows *)
(* and no pointer the caller holds is touched.  The inductive invariant is *)
(* BuffersInv.                                                             *)
(***************************************************************************)

(* The elements of a queue, and that none occurs twice. *)
Elems(s) == {s[i] : i \in 1 .. Len(s)}
Distinct(s) == \A i, j \in 1 .. Len(s) : s[i] = s[j] => i = j

(* The vbufs of a queue of receive completions. *)
Ids(s) == [i \in 1 .. Len(s) |-> s[i].id]

(* The places a vbuf of p can be in.  The lists that p has one of are filed *)
(* under p itself.                                                          *)
Place == {"pending", "cq", "fetched", "srq", "lost"} \X Proc

Filed(p, pending, cq, fetched, posted, gone) ==
  [h \in Place |->
     CASE h[1] = "pending" -> Elems(pending[h[2]])
       [] h[1] = "cq"      -> Elems(Ids(cq[h[2]]))
       [] h[1] = "fetched" -> IF h[2] = p THEN Elems(fetched) ELSE {}
       [] h[1] = "srq"     -> IF h[2] = p THEN posted ELSE {}
       [] h[1] = "lost"    -> IF h[2] = p THEN gone ELSE {}]

Held(p) == Filed(p, pending_recv_queue[p], rcq[p], vbuf_fetched[p], srq[p], lost[p])

Partitions(f) ==
  /\ f \in [Place -> SUBSET Vbuf]
  /\ \A a, b \in Place : a # b => f[a] \cap f[b] = {}
  /\ \A v \in Vbuf : \E a \in Place : v \in f[a]

QueuesDistinct(p) ==
  /\ Distinct(vbuf_fetched[p])
  /\ \A q \in Proc : Distinct(pending_recv_queue[p][q]) /\ Distinct(Ids(rcq[p][q]))

BuffersInv == \A p \in Proc : Partitions(Held(p)) /\ QueuesDistinct(p)

--------------------------------------------------------------------------------
(* Queues. *)

LEMMA AppendElems ==
  ASSUME NEW S, NEW s \in Seq(S), NEW x \in S
  PROVE  /\ Elems(Append(s, x)) = Elems(s) \cup {x}
         /\ Distinct(s) /\ x \notin Elems(s) => Distinct(Append(s, x))
<1>1. Len(Append(s, x)) = Len(s) + 1 /\ Len(s) \in Nat
  OBVIOUS
<1>2. \A i \in 1 .. Len(s) + 1 : Append(s, x)[i] = IF i = Len(s) + 1 THEN x ELSE s[i]
  OBVIOUS
<1>3. Elems(Append(s, x)) = Elems(s) \cup {x}
  BY <1>1, <1>2 DEF Elems
<1>4. Distinct(s) /\ x \notin Elems(s) => Distinct(Append(s, x))
  BY <1>1, <1>2 DEF Elems, Distinct
<1>5. QED  BY <1>3, <1>4

LEMMA TailElems ==
  ASSUME NEW S, NEW s \in Seq(S), s # <<>>, Distinct(s)
  PROVE  /\ Head(s) \in Elems(s)
         /\ Elems(Tail(s)) = Elems(s) \ {Head(s)}
         /\ Distinct(Tail(s))
<1>1. Len(Tail(s)) = Len(s) - 1 /\ Len(s) \in Nat \ {0} /\ Head(s) = s[1]
  OBVIOUS
<1>2. \A i \in 1 .. Len(s) - 1 : Tail(s)[i] = s[i + 1]
  OBVIOUS
<1>3. Head(s) \in Elems(s)
  BY <1>1 DEF Elems
<1>4. Distinct(Tail(s))
  BY <1>1, <1>2 DEF Distinct
<1>5. ASSUME NEW y \in Elems(Tail(s)) PROVE y \in Elems(s) \ {Head(s)}
  <2>1. PICK i \in 1 .. Len(s) - 1 : y = s[i + 1]
    BY <1>1, <1>2 DEF Elems
  <2>2. i + 1 \in 1 .. Len(s) /\ i + 1 # 1 /\ 1 \in 1 .. Len(s)
    BY <1>1
  <2>3. s[i + 1] # s[1]
    BY <2>2 DEF Distinct
  <2>4. QED  BY <1>1, <2>1, <2>2, <2>3 DEF Elems
<1>6. ASSUME NEW y \in Elems(s) \ {Head(s)} PROVE y \in Elems(Tail(s))
  <2>1. PICK i \in 1 .. Len(s) : y = s[i]
    BY DEF Elems
  <2>2. i - 1 \in 1 .. Len(s) - 1 /\ (i - 1) + 1 = i
    BY <1>1, <2>1
  <2>3. y = Tail(s)[i - 1]
    BY <1>2, <2>1, <2>2
  <2>4. QED  BY <1>1, <2>2, <2>3 DEF Elems
<1>7. QED  BY <1>3, <1>4, <1>5, <1>6

(* The vbufs of a CQ that grows or shrinks. *)
LEMMA IdsType ==
  ASSUME NEW s \in Seq(Recv)
  PROVE  Ids(s) \in Seq(Vbuf) /\ Len(Ids(s)) = Len(s)
<1>1. ASSUME NEW i \in 1 .. Len(s) PROVE s[i].id \in Vbuf
  <2>1. s[i] \in Recv
    BY ElementOfSeq
  <2>2. QED  BY <2>1 DEF Recv
<1>2. Len(s) \in Nat
  OBVIOUS
<1>3. Ids(s) \in [1 .. Len(s) -> Vbuf]
  BY <1>1 DEF Ids
<1>4. Ids(s) \in Seq(Vbuf) /\ DOMAIN Ids(s) = 1 .. Len(s)
  BY <1>2, <1>3, SeqDef DEF Ids
<1>5. QED  BY <1>2, <1>4, LenProperties

LEMMA IdsAppend ==
  ASSUME NEW s \in Seq(Recv), NEW c \in Recv
  PROVE  Ids(Append(s, c)) = Append(Ids(s), c.id)
<1>1. Len(Append(s, c)) = Len(s) + 1 /\ Len(s) \in Nat
  OBVIOUS
<1>2. c.id \in Vbuf
  BY DEF Recv
<1>3. Append(s, c) \in Seq(Recv)
  OBVIOUS
<1> DEFINE t == Ids(Append(s, c))
           u == Append(Ids(s), c.id)
<1>4. t \in Seq(Vbuf) /\ Len(t) = Len(s) + 1
  BY <1>1, <1>3, IdsType
<1>5. u \in Seq(Vbuf) /\ Len(u) = Len(s) + 1
  BY <1>1, <1>2, IdsType
<1>6. ASSUME NEW i \in 1 .. Len(s) + 1 PROVE t[i] = u[i]
  <2>1. t[i] = (IF i = Len(s) + 1 THEN c ELSE s[i]).id
    BY <1>1 DEF Ids
  <2>2. u[i] = IF i = Len(s) + 1 THEN c.id ELSE Ids(s)[i]
    BY <1>1, <1>2, IdsType
  <2>3. i # Len(s) + 1 => Ids(s)[i] = s[i].id
    BY <1>1 DEF Ids
  <2>4. QED  BY <2>1, <2>2, <2>3
<1> HIDE DEF t, u
<1>7. t = u
  BY <1>4, <1>5, <1>6
<1>8. QED  BY <1>7 DEF t, u

LEMMA IdsTail ==
  ASSUME NEW s \in Seq(Recv), s # <<>>
  PROVE  Ids(s) # <<>> /\ Head(Ids(s)) = Head(s).id /\ Ids(Tail(s)) = Tail(Ids(s))
<1>1. Len(Tail(s)) = Len(s) - 1 /\ Len(s) \in Nat \ {0} /\ Tail(s) \in Seq(Recv)
  OBVIOUS
<1>2. Ids(s) \in Seq(Vbuf) /\ Len(Ids(s)) = Len(s)
  BY IdsType
<1>3. Ids(s) # <<>> /\ Head(Ids(s)) = Head(s).id
  <2>1. Ids(s) # <<>> /\ Head(Ids(s)) = Ids(s)[1] /\ Head(s) = s[1]
    BY <1>1, <1>2
  <2>2. Ids(s)[1] = s[1].id
    BY <1>1 DEF Ids
  <2>3. QED  BY <2>1, <2>2
<1> DEFINE t == Ids(Tail(s))
           u == Tail(Ids(s))
<1>4. t \in Seq(Vbuf) /\ Len(t) = Len(s) - 1
  BY <1>1, IdsType, Zenon
<1>5. u \in Seq(Vbuf) /\ Len(u) = Len(s) - 1
  BY <1>1, <1>2
<1>6. ASSUME NEW i \in 1 .. Len(s) - 1 PROVE t[i] = u[i]
  <2>1. t[i] = s[i + 1].id
    BY <1>1 DEF Ids
  <2>2. u[i] = Ids(s)[i + 1]
    BY <1>1, <1>2, <1>3
  <2>3. QED  BY <1>1, <2>1, <2>2 DEF Ids
<1> HIDE DEF t, u
<1>7. t = u
  BY <1>4, <1>5, <1>6
<1>8. QED  BY <1>3, <1>7 DEF t, u

(* A vbuf that moves from one place to another. *)
LEMMA Move ==
  ASSUME NEW f, Partitions(f), NEW a \in Place, NEW b \in Place, a # b, NEW v \in f[a],
         NEW g, g \in [Place -> SUBSET Vbuf],
         g[a] = f[a] \ {v}, g[b] = f[b] \cup {v},
         \A h \in Place \ {a, b} : g[h] = f[h]
  PROVE  Partitions(g)
<1>1. v \in Vbuf
  BY DEF Partitions
<1>2. \A h \in Place : h # a => v \notin f[h]
  BY DEF Partitions
<1>3. ASSUME NEW h \in Place, NEW k \in Place, h # k PROVE g[h] \cap g[k] = {}
  <2>1. f[h] \cap f[k] = {}
    BY <1>3 DEF Partitions
  <2>2. \A l \in Place : g[l] \subseteq f[l] \cup {v} /\ (v \in g[l] => l = b)
    BY <1>2
  <2>3. QED  BY <1>3, <2>1, <2>2
<1>4. ASSUME NEW w \in Vbuf PROVE \E h \in Place : w \in g[h]
  <2>1. PICK h \in Place : w \in f[h]
    BY DEF Partitions
  <2>2. CASE w = v
    BY <2>2
  <2>3. CASE w # v
    BY <2>1, <2>3
  <2>4. QED  BY <2>2, <2>3
<1>5. QED  BY <1>3, <1>4 DEF Partitions

(* A list without repetitions that misses a vbuf is not full. *)
LEMMA ListBound ==
  ASSUME NEW s \in Seq(Vbuf), Distinct(s), NEW v \in Vbuf, v \notin Elems(s)
  PROVE  Len(s) < PrepostDepth
<1>1. Len(s) \in Nat /\ \A i \in 1 .. Len(s) : s[i] \in Vbuf \ {v}
  BY DEF Elems
<1>2. s \in Injection(1 .. Len(s), Vbuf \ {v})
  <2>1. s \in [1 .. Len(s) -> Vbuf \ {v}]
    BY <1>1
  <2>2. QED  BY <2>1 DEF Injection, IsInjective, Distinct
<1>3. IsFiniteSet(Vbuf) /\ Cardinality(Vbuf) \in Nat
  BY VbufAssumption, FS_CardinalityType
<1>4. IsFiniteSet(Vbuf \ {v}) /\ Cardinality(Vbuf \ {v}) = Cardinality(Vbuf) - 1
  BY <1>3, FS_RemoveElement
<1>5. Cardinality(1 .. Len(s)) <= Cardinality(Vbuf \ {v})
  BY <1>2, <1>4, FS_Injection
<1>6. Cardinality(1 .. Len(s)) = Len(s)
  BY <1>1, FS_Interval
<1>7. QED  BY <1>1, <1>3, <1>4, <1>5, <1>6 DEF PrepostDepth

--------------------------------------------------------------------------------
(* The places of a vbuf. *)

LEMMA FiledAt ==
  ASSUME NEW p \in Proc, NEW pending, NEW cq, NEW fetched, NEW posted, NEW gone
  PROVE  /\ \A q \in Proc : Filed(p, pending, cq, fetched, posted, gone)[<<"pending", q>>] = Elems(pending[q])
         /\ \A q \in Proc : Filed(p, pending, cq, fetched, posted, gone)[<<"cq", q>>] = Elems(Ids(cq[q]))
         /\ \A q \in Proc : Filed(p, pending, cq, fetched, posted, gone)[<<"fetched", q>>] = IF q = p THEN Elems(fetched) ELSE {}
         /\ \A q \in Proc : Filed(p, pending, cq, fetched, posted, gone)[<<"srq", q>>] = IF q = p THEN posted ELSE {}
         /\ \A q \in Proc : Filed(p, pending, cq, fetched, posted, gone)[<<"lost", q>>] = IF q = p THEN gone ELSE {}
  BY DEF Filed, Place

LEMMA Apart ==
  ASSUME NEW f, Partitions(f), NEW a \in Place, NEW b \in Place, a # b, NEW v \in f[a]
  PROVE  v \in Vbuf /\ v \notin f[b]
  BY DEF Partitions

LEMMA PlaceNames ==
  ASSUME NEW q \in Proc
  PROVE  /\ <<"pending", q>> \in Place /\ <<"cq", q>> \in Place /\ <<"fetched", q>> \in Place
         /\ <<"srq", q>> \in Place /\ <<"lost", q>> \in Place
  BY DEF Place

LEMMA PlaceCases ==
  ASSUME NEW h \in Place
  PROVE  \E q \in Proc : h \in {<<"pending", q>>, <<"cq", q>>, <<"fetched", q>>, <<"srq", q>>,
                                <<"lost", q>>}
  BY DEF Place

LEMMA FiledType ==
  ASSUME NEW p \in Proc, NEW pending \in [Proc -> Seq(Vbuf)], NEW cq \in [Proc -> Seq(Recv)],
         NEW fetched \in Seq(Vbuf), NEW posted \in SUBSET Vbuf, NEW gone \in SUBSET Vbuf
  PROVE  Filed(p, pending, cq, fetched, posted, gone) \in [Place -> SUBSET Vbuf]
<1> DEFINE f == Filed(p, pending, cq, fetched, posted, gone)
<1>1. \A q \in Proc : pending[q] \in Seq(Vbuf) /\ Ids(cq[q]) \in Seq(Vbuf)
  BY IdsType
<1>2. \A s \in Seq(Vbuf) : Elems(s) \subseteq Vbuf
  BY DEF Elems
<1>3. ASSUME NEW h \in Place PROVE f[h] \subseteq Vbuf
  <2>1. PICK q \in Proc : h \in {<<"pending", q>>, <<"cq", q>>, <<"fetched", q>>, <<"srq", q>>,
                                 <<"lost", q>>}
    BY PlaceCases
  <2>2. /\ f[<<"pending", q>>] = Elems(pending[q])
        /\ f[<<"cq", q>>] = Elems(Ids(cq[q]))
        /\ f[<<"fetched", q>>] = IF q = p THEN Elems(fetched) ELSE {}
        /\ f[<<"srq", q>>] = IF q = p THEN posted ELSE {}
        /\ f[<<"lost", q>>] = IF q = p THEN gone ELSE {}
    BY FiledAt
  <2> HIDE DEF f
  <2>3. /\ Elems(pending[q]) \subseteq Vbuf /\ Elems(Ids(cq[q])) \subseteq Vbuf
        /\ Elems(fetched) \subseteq Vbuf /\ posted \subseteq Vbuf /\ gone \subseteq Vbuf
    BY <1>1, <1>2
  <2>4. QED  BY <2>1, <2>2, <2>3
<1>4. QED  BY <1>3 DEF Filed

LEMMA HeldType ==
  /\ TypeOK => \A p \in Proc : Held(p) \in [Place -> SUBSET Vbuf]
  /\ TypeOK' => \A p \in Proc : Held(p)' \in [Place -> SUBSET Vbuf]
<1>1. TypeOK => \A p \in Proc : Held(p) \in [Place -> SUBSET Vbuf]
  BY FiledType DEF TypeOK, PairOf, Held
<1>2. TypeOK' => \A p \in Proc : Held(p)' \in [Place -> SUBSET Vbuf]
  BY FiledType DEF TypeOK, PairOf, Held
<1>3. QED  BY <1>1, <1>2

LEMMA HeldAt ==
  /\ \A p, q \in Proc : Held(p)[<<"pending", q>>] = Elems(pending_recv_queue[p][q])
  /\ \A p, q \in Proc : Held(p)[<<"cq", q>>] = Elems(Ids(rcq[p][q]))
  /\ \A p, q \in Proc : Held(p)[<<"fetched", q>>] = IF q = p THEN Elems(vbuf_fetched[p]) ELSE {}
  /\ \A p, q \in Proc : Held(p)[<<"srq", q>>] = IF q = p THEN srq[p] ELSE {}
  /\ \A p, q \in Proc : Held(p)[<<"lost", q>>] = IF q = p THEN lost[p] ELSE {}
  BY DEF Held, Filed, Place

LEMMA HeldAtNext ==
  /\ \A p, q \in Proc : Held(p)'[<<"pending", q>>] = Elems(pending_recv_queue'[p][q])
  /\ \A p, q \in Proc : Held(p)'[<<"cq", q>>] = Elems(Ids(rcq'[p][q]))
  /\ \A p, q \in Proc : Held(p)'[<<"fetched", q>>] = IF q = p THEN Elems(vbuf_fetched'[p]) ELSE {}
  /\ \A p, q \in Proc : Held(p)'[<<"srq", q>>] = IF q = p THEN srq'[p] ELSE {}
  /\ \A p, q \in Proc : Held(p)'[<<"lost", q>>] = IF q = p THEN lost'[p] ELSE {}
  BY DEF Held, Filed, Place

(* A list that does not change holds the same vbufs. *)
LEMMA HeldFrame ==
  ASSUME NEW p \in Proc, NEW r \in Proc
  PROVE  /\ pending_recv_queue'[p][r] = pending_recv_queue[p][r]
              => Held(p)'[<<"pending", r>>] = Held(p)[<<"pending", r>>]
         /\ rcq'[p][r] = rcq[p][r] => Held(p)'[<<"cq", r>>] = Held(p)[<<"cq", r>>]
         /\ r # p \/ vbuf_fetched'[p] = vbuf_fetched[p]
              => Held(p)'[<<"fetched", r>>] = Held(p)[<<"fetched", r>>]
         /\ r # p \/ srq'[p] = srq[p] => Held(p)'[<<"srq", r>>] = Held(p)[<<"srq", r>>]
         /\ r # p \/ lost'[p] = lost[p] => Held(p)'[<<"lost", r>>] = Held(p)[<<"lost", r>>]
<1>1. /\ Held(p)[<<"pending", r>>] = Elems(pending_recv_queue[p][r])
      /\ Held(p)[<<"cq", r>>] = Elems(Ids(rcq[p][r]))
      /\ Held(p)[<<"fetched", r>>] = IF r = p THEN Elems(vbuf_fetched[p]) ELSE {}
      /\ Held(p)[<<"srq", r>>] = IF r = p THEN srq[p] ELSE {}
      /\ Held(p)[<<"lost", r>>] = IF r = p THEN lost[p] ELSE {}
  BY HeldAt
<1>2. /\ Held(p)'[<<"pending", r>>] = Elems(pending_recv_queue'[p][r])
      /\ Held(p)'[<<"cq", r>>] = Elems(Ids(rcq'[p][r]))
      /\ Held(p)'[<<"fetched", r>>] = IF r = p THEN Elems(vbuf_fetched'[p]) ELSE {}
      /\ Held(p)'[<<"srq", r>>] = IF r = p THEN srq'[p] ELSE {}
      /\ Held(p)'[<<"lost", r>>] = IF r = p THEN lost'[p] ELSE {}
  BY HeldAtNext
<1>3. QED  BY <1>1, <1>2

(* The places of the other processes do not change. *)
Untouched(p) ==
  \A r \in Proc \ {p} : Held(r)' = Held(r) /\ (QueuesDistinct(r) => QueuesDistinct(r)')

LEMMA SamePlaces ==
  ASSUME NEW r \in Proc,
         pending_recv_queue'[r] = pending_recv_queue[r], rcq'[r] = rcq[r],
         vbuf_fetched'[r] = vbuf_fetched[r], srq'[r] = srq[r], lost'[r] = lost[r]
  PROVE  Held(r)' = Held(r) /\ (QueuesDistinct(r) => QueuesDistinct(r)')
  BY DEF Held, QueuesDistinct

LEMMA BuffersSame ==
  ASSUME BuffersInv, UNCHANGED <<pending_recv_queue, rcq, vbuf_fetched, srq, lost>>
  PROVE  BuffersInv'
  BY SamePlaces DEF BuffersInv, Partitions

(* A step that moves one vbuf of p. *)
LEMMA BuffersMove ==
  ASSUME TypeOK', BuffersInv, NEW p \in Proc, Untouched(p), QueuesDistinct(p)',
         NEW a \in Place, NEW b \in Place, a # b, NEW v \in Held(p)[a],
         Held(p)'[a] = Held(p)[a] \ {v}, Held(p)'[b] = Held(p)[b] \cup {v},
         \A h \in Place \ {a, b} : Held(p)'[h] = Held(p)[h]
  PROVE  BuffersInv'
<1>1. Partitions(Held(p)')
  <2>1. Partitions(Held(p))
    BY DEF BuffersInv
  <2>2. Held(p)' \in [Place -> SUBSET Vbuf]
    BY HeldType
  <2>3. QED  BY <2>1, <2>2, Move
<1>2. \A r \in Proc \ {p} : Partitions(Held(r)') /\ QueuesDistinct(r)'
  BY DEF Untouched, BuffersInv
<1>3. QED  BY <1>1, <1>2 DEF BuffersInv, Partitions

(* A vbuf that is in one place is in no other. *)
LEMMA HeldOnce ==
  ASSUME BuffersInv, NEW p \in Proc, NEW q \in Proc
  PROVE  /\ \A v \in Elems(Ids(rcq[p][q])) : v \in Vbuf /\ v \notin Elems(pending_recv_queue[p][q])
         /\ \A v \in Elems(pending_recv_queue[p][q]) : v \in Vbuf /\ v \notin Elems(vbuf_fetched[p])
         /\ \A v \in Elems(vbuf_fetched[p]) : v \in Vbuf /\ v \notin srq[p] /\ v \notin lost[p]
         /\ \A v \in srq[p] : v \in Vbuf /\ v \notin Elems(Ids(rcq[p][q]))
<1> DEFINE f == Held(p)
           inCq == <<"cq", q>>
           inPending == <<"pending", q>>
           inFetched == <<"fetched", p>>
           inSrq == <<"srq", p>>
           inLost == <<"lost", p>>
<1>1. Partitions(f)
  BY DEF BuffersInv
<1>2. /\ f[inCq] = Elems(Ids(rcq[p][q])) /\ f[inPending] = Elems(pending_recv_queue[p][q])
      /\ f[inFetched] = Elems(vbuf_fetched[p]) /\ f[inSrq] = srq[p] /\ f[inLost] = lost[p]
  BY HeldAt
<1>3. {inCq, inPending, inFetched, inSrq, inLost} \subseteq Place
  BY PlaceNames
<1>4. inCq # inPending /\ inPending # inFetched /\ inFetched # inSrq /\ inFetched # inLost /\ inSrq # inCq
  OBVIOUS
<1> HIDE DEF f, inCq, inPending, inFetched, inSrq, inLost
<1>5. QED  BY <1>1, <1>2, <1>3, <1>4, Apart

(* The lists are never full when an element is to be put on them. *)
LEMMA PendingNotFull ==
  ASSUME TypeOK, BuffersInv, NEW p \in Proc, NEW q \in Proc, rcq[p][q] # <<>>
  PROVE  /\ Head(rcq[p][q]).id \in Held(p)[<<"cq", q>>]
         /\ ~ list_full(pending_recv_queue[p][q], RecvCap)
<1> DEFINE v == Head(rcq[p][q]).id
<1>1. rcq[p][q] \in Seq(Recv) /\ pending_recv_queue[p][q] \in Seq(Vbuf)
  BY PairApply DEF TypeOK
<1>2. Distinct(pending_recv_queue[p][q]) /\ Distinct(Ids(rcq[p][q])) /\ Partitions(Held(p))
  BY DEF BuffersInv, QueuesDistinct
<1>3. Ids(rcq[p][q]) \in Seq(Vbuf) /\ Ids(rcq[p][q]) # <<>> /\ Head(Ids(rcq[p][q])) = v
  BY <1>1, IdsType, IdsTail
<1> HIDE DEF v
<1>4. v \in Elems(Ids(rcq[p][q]))
  BY <1>2, <1>3, TailElems
<1>5. /\ Held(p)[<<"cq", q>>] = Elems(Ids(rcq[p][q]))
      /\ Held(p)[<<"pending", q>>] = Elems(pending_recv_queue[p][q])
  BY HeldAt
<1>6. v \in Vbuf /\ v \notin Elems(pending_recv_queue[p][q])
  BY <1>4, HeldOnce
<1>7. Len(pending_recv_queue[p][q]) < PrepostDepth /\ Len(pending_recv_queue[p][q]) \in Nat
  BY <1>1, <1>2, <1>6, ListBound
<1>8. PrepostDepth \in Nat /\ RecvCap \in Nat /\ RecvCap >= PrepostDepth
  BY VbufAssumption, FS_CardinalityType DEF PrepostDepth
<1>9. ~ list_full(pending_recv_queue[p][q], RecvCap)
  BY <1>7, <1>8 DEF list_full
<1>10. QED  BY <1>4, <1>5, <1>9 DEF v

LEMMA FetchedNotFull ==
  ASSUME TypeOK, BuffersInv, NEW p \in Proc, NEW q \in Proc, pending_recv_queue[p][q] # <<>>
  PROVE  /\ Head(pending_recv_queue[p][q]) \in Held(p)[<<"pending", q>>]
         /\ ~ list_full(vbuf_fetched[p], PrepostDepth)
<1> DEFINE v == Head(pending_recv_queue[p][q])
<1>1. pending_recv_queue[p][q] \in Seq(Vbuf) /\ vbuf_fetched[p] \in Seq(Vbuf)
  BY PairApply DEF TypeOK
<1>2. Distinct(pending_recv_queue[p][q]) /\ Distinct(vbuf_fetched[p]) /\ Partitions(Held(p))
  BY DEF BuffersInv, QueuesDistinct
<1>3. v \in Elems(pending_recv_queue[p][q])
  BY <1>1, <1>2, TailElems
<1>4. /\ Held(p)[<<"pending", q>>] = Elems(pending_recv_queue[p][q])
      /\ Held(p)[<<"fetched", p>>] = Elems(vbuf_fetched[p])
  BY HeldAt
<1> HIDE DEF v
<1>5. v \in Vbuf /\ v \notin Elems(vbuf_fetched[p])
  BY <1>3, HeldOnce DEF v
<1>6. Len(vbuf_fetched[p]) < PrepostDepth /\ Len(vbuf_fetched[p]) \in Nat
  BY <1>1, <1>2, <1>5, ListBound
<1>7. PrepostDepth \in Nat
  BY VbufAssumption, FS_CardinalityType DEF PrepostDepth
<1>8. ~ list_full(vbuf_fetched[p], PrepostDepth)
  BY <1>6, <1>7 DEF list_full
<1>9. QED  BY <1>3, <1>4, <1>8 DEF v

--------------------------------------------------------------------------------
(* The steps. *)

(* A completion is handled: from the CQ to pending_recv_queue. *)
LEMMA RecvMoves ==
  ASSUME TypeOK, TypeOK', BuffersInv, NEW p \in Proc, NEW q \in Proc, process_wc_recv(p, q)
  PROVE  BuffersInv'
<1> DEFINE c == Head(rcq[p][q])
           v == c.id
<1>1. rcq[p][q] # <<>> /\ rcq[p][q] \in Seq(Recv) /\ pending_recv_queue[p][q] \in Seq(Vbuf)
  BY PairApply DEF TypeOK, process_wc_recv
<1>2. v \in Held(p)[<<"cq", q>>] /\ ~ list_full(pending_recv_queue[p][q], RecvCap)
  BY <1>1, PendingNotFull
<1>3. /\ rcq' = [rcq EXCEPT ![p][q] = Tail(rcq[p][q])]
      /\ pending_recv_queue' = [pending_recv_queue EXCEPT ![p][q] = Append(pending_recv_queue[p][q], v)]
      /\ UNCHANGED <<vbuf_fetched, srq, lost>>
  BY <1>2 DEF process_wc_recv, history
<1>4. Ids(rcq[p][q]) \in Seq(Vbuf) /\ Ids(rcq[p][q]) # <<>> /\ Head(Ids(rcq[p][q])) = v
      /\ Ids(Tail(rcq[p][q])) = Tail(Ids(rcq[p][q]))
  BY <1>1, IdsType, IdsTail
<1> HIDE DEF v, c
<1>5. /\ \A a, b \in Proc : /\ rcq'[a][b] = IF a = p /\ b = q THEN Tail(rcq[p][q]) ELSE rcq[a][b]
                            /\ pending_recv_queue'[a][b] =
                                 IF a = p /\ b = q THEN Append(pending_recv_queue[p][q], v)
                                 ELSE pending_recv_queue[a][b]
      /\ \A a \in Proc \ {p} : rcq'[a] = rcq[a] /\ pending_recv_queue'[a] = pending_recv_queue[a]
  <2>1. rcq \in PairOf(Seq(Recv)) /\ pending_recv_queue \in PairOf(Seq(Vbuf))
    BY DEF TypeOK
  <2>2. QED  BY <1>3, <2>1 DEF PairOf
<1>6. Untouched(p)
  BY <1>3, <1>5, SamePlaces DEF Untouched
<1>7. QueuesDistinct(p) /\ Partitions(Held(p))
  BY DEF BuffersInv
<1>8. /\ Held(p)[<<"cq", q>>] = Elems(Ids(rcq[p][q]))
      /\ Held(p)[<<"pending", q>>] = Elems(pending_recv_queue[p][q])
      /\ Held(p)'[<<"cq", q>>] = Elems(Ids(rcq'[p][q]))
      /\ Held(p)'[<<"pending", q>>] = Elems(pending_recv_queue'[p][q])
  <2>1. /\ Held(p)[<<"cq", q>>] = Elems(Ids(rcq[p][q]))
        /\ Held(p)[<<"pending", q>>] = Elems(pending_recv_queue[p][q])
    BY HeldAt
  <2>2. /\ Held(p)'[<<"cq", q>>] = Elems(Ids(rcq'[p][q]))
        /\ Held(p)'[<<"pending", q>>] = Elems(pending_recv_queue'[p][q])
    BY HeldAtNext
  <2>3. QED  BY <2>1, <2>2
<1>9. <<"cq", q>> \in Place /\ <<"pending", q>> \in Place
  BY DEF Place
<1>10. v \in Vbuf /\ v \notin Elems(pending_recv_queue[p][q])
  BY <1>2, <1>8, HeldOnce
<1>11. /\ Elems(Tail(Ids(rcq[p][q]))) = Elems(Ids(rcq[p][q])) \ {v}
       /\ Distinct(Tail(Ids(rcq[p][q])))
  BY <1>4, <1>7, TailElems DEF QueuesDistinct
<1>12. /\ Elems(Append(pending_recv_queue[p][q], v)) = Elems(pending_recv_queue[p][q]) \cup {v}
       /\ Distinct(Append(pending_recv_queue[p][q], v))
  BY <1>1, <1>7, <1>10, AppendElems DEF QueuesDistinct
<1>13. QueuesDistinct(p)'
  <2>1. Distinct(vbuf_fetched'[p])
    BY <1>3, <1>7 DEF QueuesDistinct
  <2>2. \A r \in Proc : Distinct(pending_recv_queue'[p][r]) /\ Distinct(Ids(rcq'[p][r]))
    BY <1>4, <1>5, <1>7, <1>11, <1>12 DEF QueuesDistinct
  <2>3. QED  BY <2>1, <2>2 DEF QueuesDistinct
<1>14. /\ Held(p)'[<<"cq", q>>] = Held(p)[<<"cq", q>>] \ {v}
       /\ Held(p)'[<<"pending", q>>] = Held(p)[<<"pending", q>>] \cup {v}
  <2>1. rcq'[p][q] = Tail(rcq[p][q]) /\ pending_recv_queue'[p][q] = Append(pending_recv_queue[p][q], v)
    BY <1>5
  <2>2. QED  BY <1>4, <1>8, <1>11, <1>12, <2>1
<1>15. ASSUME NEW h \in Place \ {<<"cq", q>>, <<"pending", q>>} PROVE Held(p)'[h] = Held(p)[h]
  <2>1. PICK r \in Proc : h \in {<<"pending", r>>, <<"cq", r>>, <<"fetched", r>>, <<"srq", r>>,
                                 <<"lost", r>>}
    BY PlaceCases
  <2>2. vbuf_fetched'[p] = vbuf_fetched[p] /\ srq'[p] = srq[p] /\ lost'[p] = lost[p]
    BY <1>3
  <2>3. CASE h \in {<<"pending", r>>, <<"cq", r>>}
    <3>1. r # q
      BY <2>3
    <3>2. rcq'[p][r] = rcq[p][r] /\ pending_recv_queue'[p][r] = pending_recv_queue[p][r]
      BY <1>5, <3>1
    <3>3. Held(p)'[<<"pending", r>>] = Held(p)[<<"pending", r>>] /\ Held(p)'[<<"cq", r>>] = Held(p)[<<"cq", r>>]
      BY <3>2, HeldFrame
    <3>4. QED  BY <2>3, <3>3
  <2>4. CASE h \in {<<"fetched", r>>, <<"srq", r>>, <<"lost", r>>}
    <3>1. Held(p)'[<<"fetched", r>>] = Held(p)[<<"fetched", r>>]
      BY <2>2, HeldFrame
    <3>2. Held(p)'[<<"srq", r>>] = Held(p)[<<"srq", r>>] /\ Held(p)'[<<"lost", r>>] = Held(p)[<<"lost", r>>]
      BY <2>2, HeldFrame
    <3>3. QED  BY <2>4, <3>1, <3>2
  <2>5. QED  BY <2>1, <2>3, <2>4
<1>16. <<"cq", q>> # <<"pending", q>>
  OBVIOUS
<1>17. QED  BY <1>2, <1>6, <1>9, <1>13, <1>14, <1>15, <1>16, BuffersMove

(* A message is returned: from pending_recv_queue to vbuf_fetched. *)
LEMMA ZrecvMoves ==
  ASSUME TypeOK, TypeOK', BuffersInv, NEW p \in Proc, Zrecv_return(p)
  PROVE  BuffersInv'
<1> DEFINE q == source[p]
           v == Head(pending_recv_queue[p][q])
           inPending == <<"pending", q>>
           inFetched == <<"fetched", p>>
<1>1. /\ q \in Proc /\ pending_recv_queue[p][q] # <<>>
      /\ pending_recv_queue[p][q] \in Seq(Vbuf) /\ vbuf_fetched[p] \in Seq(Vbuf)
  <2>1. q \in Proc
    BY DEF TypeOK
  <2>2. QED  BY <2>1, PairApply DEF TypeOK, Zrecv_return
<1>2. ~ list_full(vbuf_fetched[p], PrepostDepth)
  BY <1>1, FetchedNotFull
<1>3. /\ pending_recv_queue' = [pending_recv_queue EXCEPT ![p][q] = Tail(pending_recv_queue[p][q])]
      /\ vbuf_fetched' = [vbuf_fetched EXCEPT ![p] = Append(vbuf_fetched[p], v)]
      /\ rcq' = rcq /\ srq' = srq /\ lost' = lost
  BY <1>2 DEF Zrecv_return, recvq
<1> HIDE DEF q, v
<1>4. /\ \A a, b \in Proc : pending_recv_queue'[a][b] = IF a = p /\ b = q THEN Tail(pending_recv_queue[p][q])
                                                       ELSE pending_recv_queue[a][b]
      /\ \A a \in Proc \ {p} : pending_recv_queue'[a] = pending_recv_queue[a]
      /\ \A a \in Proc : vbuf_fetched'[a] = IF a = p THEN Append(vbuf_fetched[p], v) ELSE vbuf_fetched[a]
  <2>1. pending_recv_queue \in PairOf(Seq(Vbuf)) /\ vbuf_fetched \in [Proc -> Seq(Vbuf)]
    BY DEF TypeOK
  <2>2. QED  BY <1>3, <2>1 DEF PairOf
<1>5. Untouched(p)
  BY <1>3, <1>4, SamePlaces DEF Untouched
<1>6. QueuesDistinct(p)
  BY DEF BuffersInv
<1>7. /\ v \in Elems(pending_recv_queue[p][q])
      /\ Elems(Tail(pending_recv_queue[p][q])) = Elems(pending_recv_queue[p][q]) \ {v}
      /\ Distinct(Tail(pending_recv_queue[p][q]))
  BY <1>1, <1>6, TailElems DEF QueuesDistinct, v
<1>8. v \in Vbuf /\ v \notin Elems(vbuf_fetched[p])
  BY <1>1, <1>7, HeldOnce
<1>9. /\ Elems(Append(vbuf_fetched[p], v)) = Elems(vbuf_fetched[p]) \cup {v}
      /\ Distinct(Append(vbuf_fetched[p], v))
  BY <1>1, <1>6, <1>8, AppendElems DEF QueuesDistinct
<1>10. QueuesDistinct(p)'
  <2>1. Distinct(vbuf_fetched'[p])
    BY <1>4, <1>9
  <2>2. \A r \in Proc : Distinct(pending_recv_queue'[p][r]) /\ Distinct(Ids(rcq'[p][r]))
    BY <1>3, <1>4, <1>6, <1>7 DEF QueuesDistinct
  <2>3. QED  BY <2>1, <2>2 DEF QueuesDistinct
<1>11. Held(p)[inPending] = Elems(pending_recv_queue[p][q]) /\ Held(p)[inFetched] = Elems(vbuf_fetched[p])
  BY <1>1, HeldAt
<1>12. Held(p)'[inPending] = Elems(pending_recv_queue'[p][q]) /\ Held(p)'[inFetched] = Elems(vbuf_fetched'[p])
  BY <1>1, HeldAtNext
<1>13. Held(p)'[inPending] = Held(p)[inPending] \ {v} /\ Held(p)'[inFetched] = Held(p)[inFetched] \cup {v}
  BY <1>1, <1>4, <1>7, <1>9, <1>11, <1>12
<1>14. inPending \in Place /\ inFetched \in Place /\ inPending # inFetched
  BY <1>1, PlaceNames
<1>15. ASSUME NEW h \in Place \ {inPending, inFetched} PROVE Held(p)'[h] = Held(p)[h]
  <2>1. PICK r \in Proc : h \in {<<"pending", r>>, <<"cq", r>>, <<"fetched", r>>, <<"srq", r>>,
                                 <<"lost", r>>}
    BY PlaceCases
  <2>2. rcq'[p][r] = rcq[p][r] /\ srq'[p] = srq[p] /\ lost'[p] = lost[p]
    BY <1>3
  <2>3. CASE h = <<"pending", r>>
    <3>1. r # q
      BY <2>3
    <3>2. pending_recv_queue'[p][r] = pending_recv_queue[p][r]
      BY <1>4, <3>1
    <3>3. Held(p)'[<<"pending", r>>] = Held(p)[<<"pending", r>>]
      BY <3>2, HeldFrame
    <3>4. QED  BY <2>3, <3>3
  <2>4. CASE h = <<"fetched", r>>
    <3>1. r # p
      BY <2>4
    <3>2. Held(p)'[<<"fetched", r>>] = Held(p)[<<"fetched", r>>]
      BY <3>1, HeldFrame
    <3>3. QED  BY <2>4, <3>2
  <2>5. CASE h \in {<<"cq", r>>, <<"srq", r>>, <<"lost", r>>}
    <3>1. Held(p)'[<<"cq", r>>] = Held(p)[<<"cq", r>>]
      BY <2>2, HeldFrame
    <3>2. Held(p)'[<<"srq", r>>] = Held(p)[<<"srq", r>>] /\ Held(p)'[<<"lost", r>>] = Held(p)[<<"lost", r>>]
      BY <2>2, HeldFrame
    <3>3. QED  BY <2>5, <3>1, <3>2
  <2>6. QED  BY <2>1, <2>3, <2>4, <2>5
<1> HIDE DEF inPending, inFetched
<1>16. v \in Held(p)[inPending]
  BY <1>7, <1>11
<1>17. QED  BY <1>5, <1>10, <1>13, <1>14, <1>15, <1>16, BuffersMove

(* A vbuf is given back: from vbuf_fetched to the SRQ or, if the post fails, to none. *)
LEMMA ReturnMoves ==
  ASSUME TypeOK, TypeOK', BuffersInv, NEW p \in Proc, Return_post(p)
  PROVE  BuffersInv'
<1> DEFINE v == Head(vbuf_fetched[p])
           inFetched == <<"fetched", p>>
           inSrq == <<"srq", p>>
           inLost == <<"lost", p>>
<1>1. vbuf_fetched[p] # <<>> /\ vbuf_fetched[p] \in Seq(Vbuf)
  BY DEF TypeOK, Return_post
<1>2. /\ vbuf_fetched' = [vbuf_fetched EXCEPT ![p] = Tail(vbuf_fetched[p])]
      /\ pending_recv_queue' = pending_recv_queue /\ rcq' = rcq
      /\ \/ srq' = [srq EXCEPT ![p] = srq[p] \cup {v}] /\ lost' = lost
         \/ lost' = [lost EXCEPT ![p] = lost[p] \cup {v}] /\ srq' = srq
  BY DEF Return_post
<1> HIDE DEF v
<1>3. /\ \A a \in Proc : vbuf_fetched'[a] = IF a = p THEN Tail(vbuf_fetched[p]) ELSE vbuf_fetched[a]
      /\ \A a \in Proc \ {p} : srq'[a] = srq[a] /\ lost'[a] = lost[a]
      /\ \/ srq'[p] = srq[p] \cup {v} /\ lost'[p] = lost[p]
         \/ lost'[p] = lost[p] \cup {v} /\ srq'[p] = srq[p]
  BY <1>2 DEF TypeOK
<1>4. Untouched(p)
  BY <1>2, <1>3, SamePlaces DEF Untouched
<1>5. QueuesDistinct(p)
  BY DEF BuffersInv
<1>6. /\ v \in Elems(vbuf_fetched[p])
      /\ Elems(Tail(vbuf_fetched[p])) = Elems(vbuf_fetched[p]) \ {v}
      /\ Distinct(Tail(vbuf_fetched[p]))
  BY <1>1, <1>5, TailElems DEF QueuesDistinct, v
<1>7. QueuesDistinct(p)'
  <2>1. Distinct(vbuf_fetched'[p])
    BY <1>3, <1>6
  <2>2. QED  BY <1>2, <1>5, <2>1 DEF QueuesDistinct
<1>8. /\ Held(p)[inFetched] = Elems(vbuf_fetched[p])
      /\ Held(p)[inSrq] = srq[p] /\ Held(p)[inLost] = lost[p]
  BY HeldAt
<1>9. /\ Held(p)'[inFetched] = Elems(vbuf_fetched'[p])
      /\ Held(p)'[inSrq] = srq'[p] /\ Held(p)'[inLost] = lost'[p]
  BY HeldAtNext
<1>10. PICK b \in {inSrq, inLost} :
         /\ Held(p)'[b] = Held(p)[b] \cup {v}
         /\ \A c \in {inSrq, inLost} : c # b => Held(p)'[c] = Held(p)[c]
  BY <1>3, <1>8, <1>9
<1>11. Held(p)'[inFetched] = Held(p)[inFetched] \ {v} /\ v \in Held(p)[inFetched]
  BY <1>3, <1>6, <1>8, <1>9
<1>12. inFetched \in Place /\ b \in Place /\ b # inFetched
  <2>1. {inFetched, inSrq, inLost} \subseteq Place
    BY PlaceNames
  <2>2. inFetched # inSrq /\ inFetched # inLost
    OBVIOUS
  <2>3. QED  BY <1>10, <2>1, <2>2
<1>13. ASSUME NEW h \in Place \ {inFetched, b} PROVE Held(p)'[h] = Held(p)[h]
  <2>1. PICK r \in Proc : h \in {<<"pending", r>>, <<"cq", r>>, <<"fetched", r>>, <<"srq", r>>,
                                 <<"lost", r>>}
    BY PlaceCases
  <2>2. rcq'[p][r] = rcq[p][r] /\ pending_recv_queue'[p][r] = pending_recv_queue[p][r]
    BY <1>2
  <2>3. CASE r = p
    <3>1. h \in {<<"pending", r>>, <<"cq", r>>, inSrq, inLost}
      BY <2>1, <2>3
    <3>2. CASE h \in {inSrq, inLost}
      BY <1>10, <3>2
    <3>3. CASE h \in {<<"pending", r>>, <<"cq", r>>}
      <4>1. Held(p)'[<<"pending", r>>] = Held(p)[<<"pending", r>>] /\ Held(p)'[<<"cq", r>>] = Held(p)[<<"cq", r>>]
        BY <2>2, HeldFrame
      <4>2. QED  BY <3>3, <4>1
    <3>4. QED  BY <3>1, <3>2, <3>3
  <2>4. CASE r # p
    <3>1. Held(p)'[<<"pending", r>>] = Held(p)[<<"pending", r>>] /\ Held(p)'[<<"cq", r>>] = Held(p)[<<"cq", r>>]
      BY <2>2, HeldFrame
    <3>2. Held(p)'[<<"fetched", r>>] = Held(p)[<<"fetched", r>>] /\ Held(p)'[<<"srq", r>>] = Held(p)[<<"srq", r>>]
          /\ Held(p)'[<<"lost", r>>] = Held(p)[<<"lost", r>>]
      BY <2>4, HeldFrame
    <3>3. QED  BY <2>1, <3>1, <3>2
  <2>5. QED  BY <2>3, <2>4
<1> HIDE DEF inFetched, inSrq, inLost
<1>14. QED  BY <1>4, <1>7, <1>10, <1>11, <1>12, <1>13, BuffersMove

(* A send arrives: a vbuf of the receiver moves from its SRQ to its CQ. *)
LEMMA DeliverMoves ==
  ASSUME TypeOK, TypeOK', BuffersInv, NEW p \in Proc, NEW q \in Proc, NEW v \in srq[p], NEW m \in Msg,
         srq' = [srq EXCEPT ![p] = srq[p] \ {v}],
         rcq' = [rcq EXCEPT ![p][q] = Append(rcq[p][q], [id |-> v, msg |-> m])],
         UNCHANGED <<pending_recv_queue, vbuf_fetched, lost>>
  PROVE  BuffersInv'
<1> DEFINE c == [id |-> v, msg |-> m]
           inSrq == <<"srq", p>>
           inCq == <<"cq", q>>
<1>1. rcq[p][q] \in Seq(Recv) /\ v \in Vbuf
  BY PairApply DEF TypeOK
<1>2. c \in Recv /\ c.id = v
  BY <1>1 DEF Recv
<1> HIDE DEF c
<1>3. /\ \A a, b \in Proc : rcq'[a][b] = IF a = p /\ b = q THEN Append(rcq[p][q], c) ELSE rcq[a][b]
      /\ \A a \in Proc \ {p} : rcq'[a] = rcq[a] /\ srq'[a] = srq[a]
      /\ srq'[p] = srq[p] \ {v}
  <2>1. rcq \in PairOf(Seq(Recv)) /\ srq \in [Proc -> SUBSET Vbuf]
    BY DEF TypeOK
  <2>2. QED  BY <2>1 DEF PairOf, c
<1>4. pending_recv_queue' = pending_recv_queue /\ vbuf_fetched' = vbuf_fetched /\ lost' = lost
  OBVIOUS
<1>5. Untouched(p)
  BY <1>3, <1>4, SamePlaces DEF Untouched
<1>6. QueuesDistinct(p)
  BY DEF BuffersInv
<1>7. Ids(rcq'[p][q]) = Append(Ids(rcq[p][q]), v) /\ Ids(rcq[p][q]) \in Seq(Vbuf)
  BY <1>1, <1>2, <1>3, IdsAppend, IdsType
<1>8. v \notin Elems(Ids(rcq[p][q]))
  BY HeldOnce
<1>9. Elems(Ids(rcq'[p][q])) = Elems(Ids(rcq[p][q])) \cup {v} /\ Distinct(Ids(rcq'[p][q]))
  <2>1. Distinct(Ids(rcq[p][q]))
    BY <1>6 DEF QueuesDistinct
  <2> DEFINE s == Ids(rcq[p][q])
  <2> HIDE DEF s
  <2>2. s \in Seq(Vbuf) /\ v \notin Elems(s) /\ Distinct(s)
    BY <1>7, <1>8, <2>1 DEF s
  <2>3. Elems(Append(s, v)) = Elems(s) \cup {v} /\ Distinct(Append(s, v))
    BY <1>1, <2>2, AppendElems
  <2>4. QED  BY <1>7, <2>3 DEF s
<1>10. QueuesDistinct(p)'
  <2>1. \A r \in Proc : Distinct(Ids(rcq'[p][r]))
    BY <1>3, <1>6, <1>9 DEF QueuesDistinct
  <2>2. QED  BY <1>4, <1>6, <2>1 DEF QueuesDistinct
<1>11. Held(p)[inSrq] = srq[p] /\ Held(p)[inCq] = Elems(Ids(rcq[p][q]))
  BY HeldAt
<1>12. Held(p)'[inSrq] = srq'[p] /\ Held(p)'[inCq] = Elems(Ids(rcq'[p][q]))
  BY HeldAtNext
<1>13. /\ Held(p)'[inSrq] = Held(p)[inSrq] \ {v} /\ Held(p)'[inCq] = Held(p)[inCq] \cup {v}
       /\ v \in Held(p)[inSrq]
  BY <1>3, <1>9, <1>11, <1>12
<1>14. inSrq \in Place /\ inCq \in Place /\ inSrq # inCq
  BY PlaceNames
<1>15. ASSUME NEW h \in Place \ {inSrq, inCq} PROVE Held(p)'[h] = Held(p)[h]
  <2>1. PICK r \in Proc : h \in {<<"pending", r>>, <<"cq", r>>, <<"fetched", r>>, <<"srq", r>>,
                                 <<"lost", r>>}
    BY PlaceCases
  <2>2. CASE h = <<"cq", r>>
    <3>1. r # q
      BY <2>2
    <3>2. rcq'[p][r] = rcq[p][r]
      BY <1>3, <3>1
    <3>3. Held(p)'[<<"cq", r>>] = Held(p)[<<"cq", r>>]
      BY <3>2, HeldFrame
    <3>4. QED  BY <2>2, <3>3
  <2>3. CASE h = <<"srq", r>>
    <3>1. r # p
      BY <2>3
    <3>2. Held(p)'[<<"srq", r>>] = Held(p)[<<"srq", r>>]
      BY <3>1, HeldFrame
    <3>3. QED  BY <2>3, <3>2
  <2>4. CASE h \in {<<"pending", r>>, <<"fetched", r>>, <<"lost", r>>}
    <3>1. /\ pending_recv_queue'[p][r] = pending_recv_queue[p][r]
          /\ vbuf_fetched'[p] = vbuf_fetched[p] /\ lost'[p] = lost[p]
      BY <1>4
    <3>2. /\ Held(p)'[<<"pending", r>>] = Held(p)[<<"pending", r>>]
          /\ Held(p)'[<<"fetched", r>>] = Held(p)[<<"fetched", r>>]
          /\ Held(p)'[<<"lost", r>>] = Held(p)[<<"lost", r>>]
      BY <3>1, HeldFrame
    <3>3. h = <<"pending", r>> \/ h = <<"fetched", r>> \/ h = <<"lost", r>>
      BY <2>4
    <3>4. QED  BY <3>2, <3>3
  <2>5. QED  BY <2>1, <2>2, <2>3, <2>4
<1> HIDE DEF inSrq, inCq
<1>16. QED  BY <1>5, <1>10, <1>13, <1>14, <1>15, BuffersMove

(* Every step moves one vbuf or none. *)
LEMMA BuffersStep ==
  ASSUME TypeOK, TypeOK', BuffersInv, Next
  PROVE  BuffersInv'
<1>1. ASSUME NEW p \in Proc, NEW q \in Proc, NEW kind \in {"send", "write", "read"}, post(p, q, kind)
      PROVE  BuffersInv'
  BY <1>1, BuffersSame DEF post, rx_win, recvq
<1>2. ASSUME NEW p \in Proc, NEW q \in Proc,
             YMPI_Zrecv(p, q) \/ process_wc_sent(p, q) \/ process_wc_failed(p, q)
      PROVE  BuffersInv'
  BY <1>2, BuffersSame DEF YMPI_Zrecv, Enter, process_wc_sent, process_wc_failed, rx_win, recvq, history
<1>3. ASSUME NEW p \in Proc,
             \/ YMPI_Zflush(p) \/ YMPI_Return(p) \/ poll_failed(p) \/ Zflush_return(p)
             \/ Return_return(p)
      PROVE  BuffersInv'
  BY <1>3, BuffersSame
     DEF YMPI_Zflush, YMPI_Return, Enter, poll_failed, Zflush_return, Return_return, rx_win, recvq,
         history
<1>4. ASSUME NEW p \in Proc, NEW q \in Proc, process_wc_recv(p, q)
      PROVE  BuffersInv'
  BY <1>4, RecvMoves
<1>5. ASSUME NEW p \in Proc, Zrecv_return(p) \/ Return_post(p)
      PROVE  BuffersInv'
  BY <1>5, ZrecvMoves, ReturnMoves
<1>6. ASSUME NEW p \in Proc, NEW q \in Proc, hca_deliver(p, q)
      PROVE  BuffersInv'
  <2> DEFINE wr == sq[p][q][done[p][q] + 1]
             m == [src |-> p, n |-> wr.n]
  <2>1. done[p][q] \in Nat /\ sq[p][q] \in Seq(WR) /\ done[p][q] < Len(sq[p][q])
    BY <1>6, PairApply DEF TypeOK, hca_deliver
  <2>2. m \in Msg
    <3>1. wr \in WR
      BY <2>1
    <3>2. QED  BY <3>1 DEF WR, Msg
  <2>3. UNCHANGED <<pending_recv_queue, vbuf_fetched, lost>>
    BY <1>6 DEF hca_deliver, history
  <2>4. CASE wr.kind = "send"
    <3>1. PICK v \in srq[q] :
            /\ srq' = [srq EXCEPT ![q] = srq[q] \ {v}]
            /\ rcq' = [rcq EXCEPT ![q][p] = Append(rcq[q][p], [id |-> v, msg |-> m])]
      BY <1>6, <2>4 DEF hca_deliver
    <3> HIDE DEF wr, m
    <3>2. QED  BY <2>2, <2>3, <3>1, DeliverMoves
  <2>5. CASE wr.kind # "send"
    <3>1. UNCHANGED <<srq, rcq>>
      BY <1>6, <2>5 DEF hca_deliver
    <3>2. QED  BY <2>3, <3>1, BuffersSame
  <2>6. QED  BY <2>4, <2>5
<1>7. QED
  BY <1>1, <1>2, <1>3, <1>4, <1>5, <1>6
     DEF Next, Call, Step, Hca, YMPI_Zsend, YMPI_Write, YMPI_Read

LEMMA BuffersInit ==
  ASSUME Init
  PROVE  BuffersInv
<1> SUFFICES ASSUME NEW p \in Proc PROVE Partitions(Held(p)) /\ QueuesDistinct(p)
  BY DEF BuffersInv
<1>1. TypeOK
  BY QueueAssumption, BoundAssumption DEF Init, TypeOK, PairOf, Labels, Msg
<1>2. /\ \A q \in Proc : pending_recv_queue[p][q] = <<>> /\ rcq[p][q] = <<>>
      /\ vbuf_fetched[p] = <<>> /\ srq[p] = Vbuf /\ lost[p] = {}
  BY DEF Init
<1>3. Elems(<<>>) = {} /\ Distinct(<<>>) /\ Ids(<<>>) = <<>>
  BY DEF Elems, Distinct, Ids
<1>4. QueuesDistinct(p)
  BY <1>2, <1>3 DEF QueuesDistinct
<1> DEFINE f == Held(p)
           inSrq == <<"srq", p>>
<1>5. f \in [Place -> SUBSET Vbuf]
  BY <1>1, HeldType
<1>6. f[inSrq] = Vbuf /\ inSrq \in Place
  BY <1>2, HeldAt, PlaceNames
<1>7. ASSUME NEW h \in Place, h # inSrq PROVE f[h] = {}
  <2>1. PICK r \in Proc : h \in {<<"pending", r>>, <<"cq", r>>, <<"fetched", r>>, <<"srq", r>>,
                                 <<"lost", r>>}
    BY PlaceCases
  <2>2. /\ f[<<"pending", r>>] = {} /\ f[<<"cq", r>>] = {} /\ f[<<"fetched", r>>] = {}
        /\ f[<<"srq", r>>] = (IF r = p THEN Vbuf ELSE {}) /\ f[<<"lost", r>>] = {}
    BY <1>2, <1>3, HeldAt
  <2>3. QED  BY <1>7, <2>1, <2>2
<1> HIDE DEF f, inSrq
<1>8. Partitions(f)
  BY <1>5, <1>6, <1>7 DEF Partitions
<1>9. QED  BY <1>4, <1>8 DEF f

LEMMA BuffersInvariant == Spec => []BuffersInv
<1>1. Init => BuffersInv
  BY BuffersInit
<1>2. TypeOK /\ TypeOK' /\ BuffersInv /\ [Next]_vars => BuffersInv'
  <2> SUFFICES ASSUME TypeOK, TypeOK', BuffersInv, [Next]_vars PROVE BuffersInv'
    OBVIOUS
  <2>1. CASE Next
    BY <2>1, BuffersStep
  <2>2. CASE UNCHANGED vars
    BY <2>2, BuffersSame DEF vars, rx_win, recvq, history
  <2>3. QED  BY <2>1, <2>2
<1>3. QED  BY <1>1, <1>2, TypeCorrect, PTL DEF Spec

--------------------------------------------------------------------------------
(* Where a vbuf occurs in a queue, and in a table of queues. *)
At1(s, v) == {i \in 1 .. Len(s) : s[i] = v}
At2(t, v) == UNION {{<<q, i>> : i \in {j \in 1 .. Len(t[q]) : t[q][j] = v}} : q \in Proc}

LEMMA Occurrences ==
  ASSUME NEW s, Len(s) \in Nat, Distinct(s), NEW v
  PROVE  IF v \in Elems(s) THEN \E i : At1(s, v) = {i} ELSE At1(s, v) = {}
<1>1. CASE v \in Elems(s)
  <2>1. PICK i \in 1 .. Len(s) : s[i] = v
    BY <1>1 DEF Elems
  <2>2. At1(s, v) = {i}
    BY <2>1 DEF Distinct, At1
  <2>3. QED  BY <1>1, <2>2
<1>2. CASE v \notin Elems(s)
  BY <1>2 DEF Elems, At1
<1>3. QED  BY <1>1, <1>2

(* The same in a table of queues none of which shares an element with another. *)
LEMMA TableOccurrences ==
  ASSUME NEW t, \A q \in Proc : Len(t[q]) \in Nat /\ Distinct(t[q]), NEW v,
         \A q, r \in Proc : v \in Elems(t[q]) /\ v \in Elems(t[r]) => q = r
  PROVE  IF \E q \in Proc : v \in Elems(t[q]) THEN \E x : At2(t, v) = {x} ELSE At2(t, v) = {}
<1>1. \A q \in Proc : IF v \in Elems(t[q]) THEN \E i : At1(t[q], v) = {i} ELSE At1(t[q], v) = {}
  BY Occurrences
<1>2. At2(t, v) = UNION {{<<q, i>> : i \in At1(t[q], v)} : q \in Proc}
  BY DEF At1, At2
<1>3. CASE \E q \in Proc : v \in Elems(t[q])
  <2>1. PICK q \in Proc : v \in Elems(t[q])
    BY <1>3
  <2>2. PICK i : At1(t[q], v) = {i}
    BY <1>1, <2>1
  <2>3. \A r \in Proc \ {q} : At1(t[r], v) = {}
    BY <1>1, <2>1
  <2>4. At2(t, v) = {<<q, i>>}
    BY <1>2, <2>2, <2>3
  <2>5. QED  BY <1>3, <2>4
<1>4. CASE ~ \E q \in Proc : v \in Elems(t[q])
  <2>1. At2(t, v) = {}
    BY <1>1, <1>2, <1>4
  <2>2. QED  BY <1>4, <2>1
<1>5. QED  BY <1>3, <1>4

(* Exactly one of the places of p holds v. *)
LEMMA OnePlace ==
  ASSUME BuffersInv, NEW p \in Proc, NEW v \in Vbuf
  PROVE  /\ \A q, r \in Proc : v \in Elems(pending_recv_queue[p][q]) /\ v \in Elems(pending_recv_queue[p][r])
                               => q = r
         /\ \A q, r \in Proc : v \in Elems(Ids(rcq[p][q])) /\ v \in Elems(Ids(rcq[p][r])) => q = r
         /\ LET inPending == \E q \in Proc : v \in Elems(pending_recv_queue[p][q])
                inCq == \E q \in Proc : v \in Elems(Ids(rcq[p][q]))
                inFetched == v \in Elems(vbuf_fetched[p])
                inSrq == v \in srq[p]
                inLost == v \in lost[p]
            IN  /\ inPending \/ inCq \/ inFetched \/ inSrq \/ inLost
                /\ inPending => ~ (inCq \/ inFetched \/ inSrq \/ inLost)
                /\ inCq => ~ (inFetched \/ inSrq \/ inLost)
                /\ inFetched => ~ (inSrq \/ inLost)
                /\ inSrq => ~ inLost
<1> DEFINE f == Held(p)
<1>1. Partitions(f)
  BY DEF BuffersInv
<1>2. \A q \in Proc :
        /\ f[<<"pending", q>>] = Elems(pending_recv_queue[p][q])
        /\ f[<<"cq", q>>] = Elems(Ids(rcq[p][q]))
        /\ f[<<"fetched", q>>] = (IF q = p THEN Elems(vbuf_fetched[p]) ELSE {})
        /\ f[<<"srq", q>>] = (IF q = p THEN srq[p] ELSE {})
        /\ f[<<"lost", q>>] = (IF q = p THEN lost[p] ELSE {})
  BY HeldAt
<1> HIDE DEF f
<1>3. \A a, b \in Place : v \in f[a] /\ v \in f[b] => a = b
  BY <1>1 DEF Partitions
<1>4. \A q, r \in Proc :
        /\ v \in Elems(pending_recv_queue[p][q]) /\ v \in Elems(pending_recv_queue[p][r]) => q = r
        /\ v \in Elems(Ids(rcq[p][q])) /\ v \in Elems(Ids(rcq[p][r])) => q = r
  <2> TAKE q, r \in Proc
  <2>1. /\ <<"pending", q>> \in Place /\ <<"pending", r>> \in Place
        /\ <<"cq", q>> \in Place /\ <<"cq", r>> \in Place
    BY PlaceNames
  <2>2. /\ <<"pending", q>> = <<"pending", r>> => q = r
        /\ <<"cq", q>> = <<"cq", r>> => q = r
    OBVIOUS
  <2>3. /\ v \in f[<<"pending", q>>] /\ v \in f[<<"pending", r>>] => q = r
        /\ v \in f[<<"cq", q>>] /\ v \in f[<<"cq", r>>] => q = r
    BY <1>3, <2>1, <2>2
  <2>4. QED  BY <1>2, <2>3
<1>5. \A a, b \in Place : a[1] # b[1] => ~ (v \in f[a] /\ v \in f[b])
  BY <1>3
<1>6. ASSUME NEW q \in Proc, NEW r \in Proc
      PROVE  /\ v \in Elems(pending_recv_queue[p][q])
                   => v \notin Elems(Ids(rcq[p][r])) /\ v \notin Elems(vbuf_fetched[p])
                      /\ v \notin srq[p] /\ v \notin lost[p]
             /\ v \in Elems(Ids(rcq[p][r]))
                   => v \notin Elems(vbuf_fetched[p]) /\ v \notin srq[p] /\ v \notin lost[p]
             /\ v \in Elems(vbuf_fetched[p]) => v \notin srq[p] /\ v \notin lost[p]
             /\ v \in srq[p] => v \notin lost[p]
  <2> DEFINE a == <<"pending", q>>
             b == <<"cq", r>>
             c == <<"fetched", p>>
             d == <<"srq", p>>
             e == <<"lost", p>>
  <2>1. {a, b, c, d, e} \subseteq Place
    BY PlaceNames
  <2>2. /\ f[a] = Elems(pending_recv_queue[p][q]) /\ f[b] = Elems(Ids(rcq[p][r]))
        /\ f[c] = Elems(vbuf_fetched[p]) /\ f[d] = srq[p] /\ f[e] = lost[p]
    BY <1>2
  <2>3. a[1] = "pending" /\ b[1] = "cq" /\ c[1] = "fetched" /\ d[1] = "srq" /\ e[1] = "lost"
    OBVIOUS
  <2> HIDE DEF a, b, c, d, e
  <2>4. a # b /\ a # c /\ a # d /\ a # e /\ b # c /\ b # d /\ b # e /\ c # d /\ c # e /\ d # e
    BY <2>3
  <2>5. QED  BY <1>3, <2>1, <2>2, <2>4
<1>7. \/ \E q \in Proc : v \in Elems(pending_recv_queue[p][q])
      \/ \E q \in Proc : v \in Elems(Ids(rcq[p][q]))
      \/ v \in Elems(vbuf_fetched[p]) \/ v \in srq[p] \/ v \in lost[p]
  <2>1. PICK h \in Place : v \in f[h]
    BY <1>1 DEF Partitions
  <2>2. PICK r \in Proc : h \in {<<"pending", r>>, <<"cq", r>>, <<"fetched", r>>, <<"srq", r>>,
                                 <<"lost", r>>}
    BY PlaceCases
  <2>3. \/ v \in f[<<"pending", r>>] \/ v \in f[<<"cq", r>>] \/ v \in f[<<"fetched", r>>]
        \/ v \in f[<<"srq", r>>] \/ v \in f[<<"lost", r>>]
    BY <2>1, <2>2
  <2>4. QED  BY <1>2, <2>3
<1>8. QED  BY <1>4, <1>6, <1>7

LEMMA PlacesOnce ==
  ASSUME TypeOK, BuffersInv, NEW p \in Proc, NEW v \in Vbuf
  PROVE  Places(p, v) = 1
<1>0. /\ \A q, r \in Proc : v \in Elems(pending_recv_queue[p][q]) /\ v \in Elems(pending_recv_queue[p][r])
                            => q = r
      /\ \A q, r \in Proc : v \in Elems(Ids(rcq[p][q])) /\ v \in Elems(Ids(rcq[p][r])) => q = r
  BY OnePlace
<1> DEFINE fetched == At1(vbuf_fetched[p], v)
           pending == At2(pending_recv_queue[p], v)
           ids == [q \in Proc |-> Ids(rcq[p][q])]
           cq == UNION {{<<q, i>> : i \in {j \in 1 .. Len(rcq[p][q]) : rcq[p][q][j].id = v}} : q \in Proc}
           cqIds == At2(ids, v)
<1>1. /\ \A q \in Proc : pending_recv_queue[p][q] \in Seq(Vbuf) /\ rcq[p][q] \in Seq(Recv)
      /\ vbuf_fetched[p] \in Seq(Vbuf)
  BY PairApply DEF TypeOK
<1>2. \A q \in Proc : ids[q] \in Seq(Vbuf) /\ Len(ids[q]) = Len(rcq[p][q])
  BY <1>1, IdsType
<1>3. /\ Distinct(vbuf_fetched[p])
      /\ \A q \in Proc : Distinct(pending_recv_queue[p][q]) /\ Distinct(ids[q])
  BY DEF BuffersInv, QueuesDistinct
<1>4. cq = cqIds
  <2>1. \A q \in Proc : \A j \in 1 .. Len(rcq[p][q]) : ids[q][j] = rcq[p][q][j].id
    BY DEF Ids
  <2>2. QED  BY <1>2, <2>1 DEF At2
<1>5. IF v \in Elems(vbuf_fetched[p]) THEN \E x : fetched = {x} ELSE fetched = {}
  <2>1. Len(vbuf_fetched[p]) \in Nat
    BY <1>1
  <2>2. QED  BY <1>3, <2>1, Occurrences
<1>6. IF \E q \in Proc : v \in Elems(pending_recv_queue[p][q])
        THEN \E x : pending = {x} ELSE pending = {}
  <2> DEFINE t == pending_recv_queue[p]
  <2>1. \A q \in Proc : Len(t[q]) \in Nat /\ Distinct(t[q])
    BY <1>1, <1>3
  <2>2. \A q, r \in Proc : v \in Elems(t[q]) /\ v \in Elems(t[r]) => q = r
    BY <1>0
  <2>3. QED  BY <2>1, <2>2, TableOccurrences
<1>7. IF \E q \in Proc : v \in Elems(ids[q]) THEN \E x : cqIds = {x} ELSE cqIds = {}
  <2>1. \A q \in Proc : Len(ids[q]) \in Nat /\ Distinct(ids[q])
    BY <1>2, <1>3
  <2>2. \A q, r \in Proc : v \in Elems(ids[q]) /\ v \in Elems(ids[r]) => q = r
    BY <1>0
  <2>3. QED  BY <2>1, <2>2, TableOccurrences
<1>8. /\ IF v \in srq[p] THEN \E x : {v} \cap srq[p] = {x} ELSE {v} \cap srq[p] = {}
      /\ IF v \in lost[p] THEN \E x : {v} \cap lost[p] = {x} ELSE {v} \cap lost[p] = {}
  BY Zenon
<1>9. ASSUME NEW S, NEW here \in BOOLEAN, IF here THEN \E x : S = {x} ELSE S = {}
      PROVE  Cardinality(S) = IF here THEN 1 ELSE 0
  <2>1. CASE here
    <3>1. PICK x : S = {x}
      BY <1>9, <2>1
    <3>2. Cardinality({x}) = 1
      BY FS_Singleton
    <3>3. QED  BY <2>1, <3>1, <3>2
  <2>2. CASE ~ here
    BY <1>9, <2>2, FS_EmptySet
  <2>3. QED  BY <2>1, <2>2
<1>10. /\ Cardinality(fetched) = IF v \in Elems(vbuf_fetched[p]) THEN 1 ELSE 0
       /\ Cardinality(pending) = IF \E q \in Proc : v \in Elems(pending_recv_queue[p][q]) THEN 1 ELSE 0
       /\ Cardinality(cq) = IF \E q \in Proc : v \in Elems(Ids(rcq[p][q])) THEN 1 ELSE 0
       /\ Cardinality({v} \cap srq[p]) = IF v \in srq[p] THEN 1 ELSE 0
       /\ Cardinality({v} \cap lost[p]) = IF v \in lost[p] THEN 1 ELSE 0
  <2> DEFINE inPending == \E q \in Proc : v \in Elems(pending_recv_queue[p][q])
             inIds == \E q \in Proc : v \in Elems(ids[q])
             inCq == \E q \in Proc : v \in Elems(Ids(rcq[p][q]))
             inFetched == v \in Elems(vbuf_fetched[p])
             inSrq == v \in srq[p]
             inLost == v \in lost[p]
  <2>1. inIds = inCq
    BY Zenon
  <2>2. /\ inPending \in BOOLEAN /\ inIds \in BOOLEAN /\ inFetched \in BOOLEAN
        /\ inSrq \in BOOLEAN /\ inLost \in BOOLEAN
    OBVIOUS
  <2>3. /\ IF inFetched THEN \E x : fetched = {x} ELSE fetched = {}
        /\ IF inPending THEN \E x : pending = {x} ELSE pending = {}
        /\ IF inIds THEN \E x : cqIds = {x} ELSE cqIds = {}
        /\ IF inSrq THEN \E x : {v} \cap srq[p] = {x} ELSE {v} \cap srq[p] = {}
        /\ IF inLost THEN \E x : {v} \cap lost[p] = {x} ELSE {v} \cap lost[p] = {}
    BY <1>5, <1>6, <1>7, <1>8
  <2> HIDE DEF fetched, pending, cqIds, cq, ids, inPending, inIds, inCq, inFetched, inSrq, inLost
  <2>4. Cardinality(fetched) = IF inFetched THEN 1 ELSE 0
    BY <1>9, <2>2, <2>3
  <2>5. Cardinality(pending) = IF inPending THEN 1 ELSE 0
    BY <1>9, <2>2, <2>3
  <2>6. Cardinality(cqIds) = IF inIds THEN 1 ELSE 0
    BY <1>9, <2>2, <2>3
  <2>7. Cardinality({v} \cap srq[p]) = IF inSrq THEN 1 ELSE 0
    BY <1>9, <2>2, <2>3
  <2>8. Cardinality({v} \cap lost[p]) = IF inLost THEN 1 ELSE 0
    BY <1>9, <2>2, <2>3
  <2>9. QED
    BY <1>4, <2>1, <2>4, <2>5, <2>6, <2>7, <2>8 DEF inPending, inCq, inFetched, inSrq, inLost
<1>11. Places(p, v) = Cardinality(fetched) + Cardinality(pending) + Cardinality(cq)
                      + Cardinality({v} \cap srq[p]) + Cardinality({v} \cap lost[p])
  BY DEF Places, At1, At2
<1> HIDE DEF fetched, pending, cq, ids, cqIds
<1>12. LET inPending == \E q \in Proc : v \in Elems(pending_recv_queue[p][q])
           inCq == \E q \in Proc : v \in Elems(Ids(rcq[p][q]))
           inFetched == v \in Elems(vbuf_fetched[p])
           inSrq == v \in srq[p]
           inLost == v \in lost[p]
       IN  (IF inFetched THEN 1 ELSE 0) + (IF inPending THEN 1 ELSE 0) + (IF inCq THEN 1 ELSE 0)
           + (IF inSrq THEN 1 ELSE 0) + (IF inLost THEN 1 ELSE 0) = 1
  BY OnePlace
<1>13. QED  BY <1>10, <1>11, <1>12

(* The vbufs the caller holds are neither posted nor in the CQ. *)
LEMMA FetchedApart ==
  ASSUME TypeOK, BuffersInv, NEW p \in Proc, NEW i \in 1 .. Len(vbuf_fetched[p])
  PROVE  /\ vbuf_fetched[p][i] \in Vbuf /\ vbuf_fetched[p][i] \notin srq[p]
         /\ \A q \in Proc : rcq[p][q] # <<>> => vbuf_fetched[p][i] # Head(rcq[p][q]).id
<1> DEFINE v == vbuf_fetched[p][i]
<1>1. vbuf_fetched[p] \in Seq(Vbuf)
  BY DEF TypeOK
<1>2. v \in Elems(vbuf_fetched[p])
  BY DEF Elems
<1>3. v \in Vbuf /\ v \notin srq[p]
  BY <1>2, HeldOnce
<1>4. \A q \in Proc : v \notin Elems(Ids(rcq[p][q]))
  BY <1>2, <1>3, OnePlace
<1>5. ASSUME NEW q \in Proc, rcq[p][q] # <<>> PROVE Head(rcq[p][q]).id \in Elems(Ids(rcq[p][q]))
  <2>1. rcq[p][q] \in Seq(Recv)
    BY PairApply DEF TypeOK
  <2>2. Len(rcq[p][q]) \in Nat \ {0} /\ Head(rcq[p][q]) = rcq[p][q][1]
    BY <1>5, <2>1
  <2>3. Ids(rcq[p][q]) \in Seq(Vbuf) /\ Len(Ids(rcq[p][q])) = Len(rcq[p][q])
    BY <2>1, IdsType
  <2>4. Ids(rcq[p][q])[1] = Head(rcq[p][q]).id
    BY <2>2 DEF Ids
  <2>5. QED  BY <2>2, <2>3, <2>4 DEF Elems
<1>6. QED  BY <1>3, <1>4, <1>5

LEMMA PointersStep ==
  ASSUME TypeOK, BuffersInv, Next, NEW p \in Proc, NEW i \in 1 .. Len(vbuf_fetched[p])
  PROVE  LET v == vbuf_fetched[p][i] IN data'[p][v] = data[p][v] /\ buf_bytes'[p][v] = buf_bytes[p][v]
<1> DEFINE v == vbuf_fetched[p][i]
           Kept == data'[p][v] = data[p][v] /\ buf_bytes'[p][v] = buf_bytes[p][v]
<1>1. /\ v \in Vbuf /\ v \notin srq[p]
      /\ \A q \in Proc : rcq[p][q] # <<>> => v # Head(rcq[p][q]).id
  BY FetchedApart
<1> HIDE DEF v
<1>2. data \in [Proc -> [Vbuf -> Msg]] /\ buf_bytes \in [Proc -> [Vbuf -> Msg]]
  BY DEF TypeOK
<1>3. ASSUME NEW a \in Proc, NEW q \in Proc, process_wc_recv(a, q)
      PROVE  Kept
  <2> DEFINE c == Head(rcq[a][q])
  <2>1. data' = data /\ buf_bytes' = [buf_bytes EXCEPT ![a][c.id] = c.msg]
    BY <1>3 DEF process_wc_recv
  <2>2. rcq[a][q] # <<>>
    BY <1>3 DEF process_wc_recv
  <2> HIDE DEF c
  <2>3. a = p => c.id # v
    BY <1>1, <2>2 DEF c
  <2>4. QED  BY <1>1, <1>2, <2>1, <2>3
<1>4. ASSUME NEW a \in Proc, NEW q \in Proc, hca_deliver(a, q)
      PROVE  Kept
  <2>1. buf_bytes' = buf_bytes
    BY <1>4 DEF hca_deliver
  <2>2. \/ data' = data
        \/ \E u \in srq[q] : \E m : data' = [data EXCEPT ![q][u] = m]
    BY <1>4 DEF hca_deliver
  <2>3. data'[p][v] = data[p][v]
    BY <1>1, <1>2, <2>2
  <2>4. QED  BY <2>1, <2>3
<1>5. ASSUME NEW a \in Proc, NEW q \in Proc, NEW kind \in {"send", "write", "read"}, post(a, q, kind)
      PROVE  Kept
  BY <1>5 DEF post, rx_win
<1>6. ASSUME NEW a \in Proc, NEW q \in Proc,
             YMPI_Zrecv(a, q) \/ process_wc_sent(a, q) \/ process_wc_failed(a, q)
      PROVE  Kept
  BY <1>6 DEF YMPI_Zrecv, Enter, process_wc_sent, process_wc_failed, rx_win
<1>7. ASSUME NEW a \in Proc,
             \/ YMPI_Zflush(a) \/ YMPI_Return(a) \/ poll_failed(a) \/ Zflush_return(a)
             \/ Return_return(a) \/ Zrecv_return(a) \/ Return_post(a)
      PROVE  Kept
  BY <1>7 DEF YMPI_Zflush, YMPI_Return, Enter, poll_failed, Zflush_return, Return_return,
              Zrecv_return, Return_post, rx_win
<1>8. Kept
  BY <1>3, <1>4, <1>5, <1>6, <1>7 DEF Next, Call, Step, Hca, YMPI_Zsend, YMPI_Write, YMPI_Read
<1>9. QED  BY <1>8 DEF v

(* A process exits after a failure of its own or after another process has exited. *)
LEMMA ExitStep ==
  ASSUME TypeOK, TypeOK', BuffersInv, ExitsOnlyOnFault, Next
  PROVE  ExitsOnlyOnFault'
<1> DEFINE Caused == /\ faults' >= faults
                     /\ \A a \in Proc : pc'[a] = "exit" => pc[a] = "exit" \/ faults' > 0
<1>0. faults \in Nat /\ faults' \in Nat /\ pc \in [Proc -> Labels] /\ pc' \in [Proc -> Labels]
  BY DEF TypeOK
<1>2. ASSUME NEW p \in Proc, NEW q \in Proc, NEW kind \in {"send", "write", "read"}, post(p, q, kind)
      PROVE  Caused
  <2>1. CASE post_rejected(p, q)
    BY <1>0, <2>1 DEF post_rejected
  <2>2. CASE post_accepted(p, q, kind)
    BY <1>0, <2>2 DEF post_accepted, Goto
  <2>3. QED  BY <1>2, <2>1, <2>2 DEF post
<1>3. ASSUME NEW p \in Proc, EndOfWc(p), UNCHANGED faults PROVE Caused
  BY <1>0, <1>3 DEF EndOfWc
<1>4. ASSUME NEW p \in Proc, NEW q \in Proc, process_wc_recv(p, q) PROVE Caused
  <2>1. ~ list_full(pending_recv_queue[p][q], RecvCap)
    BY <1>4, PendingNotFull DEF process_wc_recv
  <2>2. EndOfWc(p) /\ UNCHANGED faults
    BY <1>4, <2>1 DEF process_wc_recv, history
  <2>3. QED  BY <1>3, <2>2
<1>5. ASSUME NEW p \in Proc, Zrecv_return(p) PROVE Caused
  <2>1. source[p] \in Proc
    BY DEF TypeOK
  <2>2. ~ list_full(vbuf_fetched[p], PrepostDepth)
    BY <1>5, <2>1, FetchedNotFull DEF Zrecv_return
  <2>3. QED  BY <1>0, <1>5, <2>2 DEF Zrecv_return, Goto
<1>6. ASSUME NEW p \in Proc, NEW q \in Proc, process_wc_failed(p, q) PROVE Caused
  <2>1. CASE faults' = faults + 1
    BY <1>0, <2>1
  <2>2. CASE At(q, "exit") /\ UNCHANGED faults
    BY <1>0, <2>2 DEF ExitsOnlyOnFault
  <2>3. QED  BY <1>6, <2>1, <2>2 DEF process_wc_failed
<1>7. ASSUME NEW p \in Proc, poll_failed(p) PROVE Caused
  BY <1>0, <1>7 DEF poll_failed
<1>8. ASSUME NEW p \in Proc, NEW q \in Proc, process_wc_sent(p, q) PROVE Caused
  BY <1>3, <1>8 DEF process_wc_sent, history
<1>9. ASSUME NEW p \in Proc, NEW q \in Proc, hca_deliver(p, q) PROVE Caused
  BY <1>0, <1>9 DEF hca_deliver, context, history
<1>10. ASSUME NEW p \in Proc, NEW label \in {"flush", "recv", "return"}, Enter(p, label) PROVE Caused
  BY <1>0, <1>10 DEF Enter, Goto, history
<1>11. ASSUME NEW p \in Proc, Zflush_return(p) \/ Return_return(p) \/ Return_post(p) PROVE Caused
  BY <1>0, <1>11 DEF Zflush_return, Return_return, Return_post, Goto, history
<1>12. Caused
  BY <1>2, <1>4, <1>5, <1>6, <1>7, <1>8, <1>9, <1>10, <1>11
     DEF Next, Call, Step, Hca, YMPI_Zsend, YMPI_Write, YMPI_Read, YMPI_Zrecv, YMPI_Zflush, YMPI_Return
<1> HIDE DEF Caused
<1>13. QED
  BY <1>0, <1>12 DEF ExitsOnlyOnFault, At, Caused

--------------------------------------------------------------------------------
(* The completions of sends and of receives. *)
SentCompletions(p) == UNION {{<<"sent", q, i>> : i \in 1 .. done[p][q]} : q \in Proc}
ReceivedCompletions(p) == UNION {{<<"received", q, i>> : i \in 1 .. Len(rcq[p][q])} : q \in Proc}

(* A completion of a send is that of a WR that is counted as outstanding. *)
LEMMA SentBound ==
  ASSUME TypeOK, CountersInv, NEW p \in Proc
  PROVE  /\ IsFiniteSet(SentCompletions(p))
         /\ Cardinality(SentCompletions(p)) <= pending_send_wr[p]
<1> DEFINE S == SentCompletions(p)
           T == Outstanding(p)
           f == [c \in S |-> <<c[2], c[3]>>]
<1>1. ASSUME NEW c \in S
      PROVE  c = <<"sent", c[2], c[3]>> /\ <<c[2], c[3]>> \in T
  <2>1. PICK q \in Proc : \E i \in 1 .. done[p][q] : c = <<"sent", q, i>>
    BY DEF SentCompletions
  <2>2. PICK i \in 1 .. done[p][q] : c = <<"sent", q, i>>
    BY <2>1
  <2>3. done[p][q] \in Nat /\ done[p][q] <= Len(sq[p][q]) /\ Len(sq[p][q]) \in Nat
    BY PairApply DEF TypeOK
  <2>4. i \in 1 .. Len(sq[p][q])
    BY <2>3
  <2>5. <<q, i>> \in T
    BY <2>4 DEF Outstanding
  <2>6. QED  BY <2>2, <2>5
<1>2. f \in Injection(S, T)
  <2>1. f \in [S -> T]
    BY <1>1
  <2>2. ASSUME NEW a \in S, NEW b \in S, f[a] = f[b] PROVE a = b
    <3>1. a[2] = b[2] /\ a[3] = b[3]
      BY <2>2
    <3>2. QED  BY <1>1, <3>1
  <2> HIDE DEF f
  <2>3. QED  BY <2>1, <2>2 DEF Injection, IsInjective
<1>3. IsFiniteSet(T) /\ pending_send_wr[p] = Cardinality(T)
  BY DEF CountersInv, CountersOK
<1> HIDE DEF S, T, f
<1>4. IsFiniteSet(S) /\ Cardinality(S) <= Cardinality(T)
  BY <1>2, <1>3, FS_Injection
<1>5. QED  BY <1>3, <1>4 DEF S

(* A completion of a receive names a vbuf, and no other does. *)
LEMMA ReceivedBound ==
  ASSUME TypeOK, BuffersInv, NEW p \in Proc
  PROVE  /\ IsFiniteSet(ReceivedCompletions(p))
         /\ Cardinality(ReceivedCompletions(p)) <= PrepostDepth
<1> DEFINE S == ReceivedCompletions(p)
           f == [c \in S |-> Ids(rcq[p][c[2]])[c[3]]]
<1>1. ASSUME NEW c \in S
      PROVE  /\ c = <<"received", c[2], c[3]>>
             /\ c[2] \in Proc /\ c[3] \in 1 .. Len(Ids(rcq[p][c[2]]))
             /\ Ids(rcq[p][c[2]]) \in Seq(Vbuf)
  <2>1. PICK q \in Proc : \E i \in 1 .. Len(rcq[p][q]) : c = <<"received", q, i>>
    BY DEF ReceivedCompletions
  <2>2. rcq[p][q] \in Seq(Recv)
    BY PairApply DEF TypeOK
  <2>3. Ids(rcq[p][q]) \in Seq(Vbuf) /\ Len(Ids(rcq[p][q])) = Len(rcq[p][q])
    BY <2>2, IdsType
  <2>4. QED  BY <2>1, <2>3
<1>2. ASSUME NEW c \in S PROVE f[c] \in Vbuf /\ f[c] \in Elems(Ids(rcq[p][c[2]]))
  BY <1>1, ElementOfSeq DEF Elems
<1>3. f \in Injection(S, Vbuf)
  <2>1. f \in [S -> Vbuf]
    BY <1>2
  <2>2. ASSUME NEW a \in S, NEW b \in S, f[a] = f[b] PROVE a = b
    <3> DEFINE v == f[a]
    <3>1. v \in Vbuf /\ v \in Elems(Ids(rcq[p][a[2]])) /\ v \in Elems(Ids(rcq[p][b[2]]))
      BY <1>2, <2>2
    <3>2. a[2] \in Proc /\ b[2] \in Proc
      BY <1>1
    <3> HIDE DEF v
    <3>3. a[2] = b[2]
      BY <3>1, <3>2, OnePlace
    <3>4. Distinct(Ids(rcq[p][a[2]]))
      BY <3>2 DEF BuffersInv, QueuesDistinct
    <3>5. Ids(rcq[p][a[2]])[a[3]] = Ids(rcq[p][a[2]])[b[3]]
      BY <2>2, <3>3
    <3>6. a[3] = b[3]
      BY <1>1, <3>3, <3>4, <3>5 DEF Distinct
    <3>7. QED  BY <1>1, <3>3, <3>6
  <2> HIDE DEF f
  <2>3. QED  BY <2>1, <2>2 DEF Injection, IsInjective
<1> HIDE DEF S, f
<1>4. IsFiniteSet(S) /\ Cardinality(S) <= Cardinality(Vbuf)
  BY <1>3, VbufAssumption, FS_Injection
<1>5. QED  BY <1>4 DEF S, PrepostDepth

LEMMA CompletionsBound ==
  ASSUME TypeOK, BuffersInv, CountersInv, NEW p \in Proc
  PROVE  Cardinality(Completions(p)) <= pending_send_wr[p] + PrepostDepth
<1> DEFINE S == SentCompletions(p)
           R == ReceivedCompletions(p)
<1>1. Completions(p) = S \cup R
  BY DEF Completions, SentCompletions, ReceivedCompletions
<1>2. IsFiniteSet(S) /\ Cardinality(S) <= pending_send_wr[p]
  BY SentBound
<1>3. IsFiniteSet(R) /\ Cardinality(R) <= PrepostDepth
  BY ReceivedBound
<1> HIDE DEF S, R
<1>4. Cardinality(S \cup R) = Cardinality(S) + Cardinality(R) - Cardinality(S \cap R)
  BY <1>2, <1>3, FS_Union
<1>5. Cardinality(S) \in Nat /\ Cardinality(R) \in Nat /\ Cardinality(S \cap R) \in Nat
  BY <1>2, <1>3, FS_Intersection, FS_CardinalityType
<1>6. PrepostDepth \in Nat /\ pending_send_wr[p] \in Int
  BY VbufAssumption, FS_CardinalityType DEF PrepostDepth, TypeOK
<1>7. QED  BY <1>1, <1>2, <1>3, <1>4, <1>5, <1>6

--------------------------------------------------------------------------------
(***************************************************************************)
(* Every vbuf is in exactly one place, so none is posted twice or dropped. *)
(***************************************************************************)
THEOREM VbufsCorrect == Spec => []VbufsConserved
<1>1. TypeOK /\ BuffersInv => VbufsConserved
  BY PlacesOnce DEF VbufsConserved
<1>2. QED  BY <1>1, TypeCorrect, BuffersInvariant, PTL

(***************************************************************************)
(* The message behind a pointer YMPI_Zrecv returned, and its length, do    *)
(* not change before the vbuf is given back.                               *)
(***************************************************************************)
THEOREM PointersCorrect == Spec => PointersStable
<1>1. TypeOK /\ BuffersInv /\ [Next]_vars =>
        [\A p \in Proc : \A i \in 1 .. Len(vbuf_fetched[p]) :
           LET v == vbuf_fetched[p][i] IN
           \/ data'[p][v] = data[p][v] /\ buf_bytes'[p][v] = buf_bytes[p][v]
           \/ v \in srq'[p]]_vars
  BY PointersStep
<1>2. QED  BY <1>1, TypeCorrect, BuffersInvariant, PTL DEF Spec, PointersStable

(***************************************************************************)
(* No list of vbufs overflows, so a process exits only when a verbs call   *)
(* or a completion failed, its own or that of a process that exited.       *)
(***************************************************************************)
THEOREM ExitsCorrect == Spec => []ExitsOnlyOnFault
<1>1. Init => ExitsOnlyOnFault
  BY DEF Init, ExitsOnlyOnFault, At
<1>2. TypeOK /\ TypeOK' /\ BuffersInv /\ ExitsOnlyOnFault /\ [Next]_vars => ExitsOnlyOnFault'
  <2> SUFFICES ASSUME TypeOK, TypeOK', BuffersInv, ExitsOnlyOnFault, [Next]_vars
               PROVE  ExitsOnlyOnFault'
    OBVIOUS
  <2>1. CASE Next
    BY <2>1, ExitStep
  <2>2. CASE UNCHANGED vars
    BY <2>2 DEF vars, context, history, ExitsOnlyOnFault, At
  <2>3. QED  BY <2>1, <2>2
<1>3. QED  BY <1>1, <1>2, TypeCorrect, BuffersInvariant, PTL DEF Spec

(***************************************************************************)
(* In every instance, with any number of peers, the CQ overruns only while *)
(* the process counts more outstanding sends than the CQ has places        *)
(* besides those of the vbufs.                                             *)
(***************************************************************************)
THEOREM OverrunCorrect == Spec => []OverrunsOnlyOverdrawn
<1>1. TypeOK /\ BuffersInv /\ CountersInv => OverrunsOnlyOverdrawn
  <2> SUFFICES ASSUME TypeOK, BuffersInv, CountersInv, NEW p \in Proc,
                      Cardinality(Completions(p)) > CqSize
               PROVE  pending_send_wr[p] > CqSize - PrepostDepth
    BY DEF OverrunsOnlyOverdrawn
  <2>1. Cardinality(Completions(p)) <= pending_send_wr[p] + PrepostDepth
    BY CompletionsBound
  <2>2. Completions(p) = SentCompletions(p) \cup ReceivedCompletions(p)
    BY DEF Completions, SentCompletions, ReceivedCompletions
  <2>3. Cardinality(Completions(p)) \in Nat
    BY <2>2, SentBound, ReceivedBound, FS_Union, FS_CardinalityType
  <2>4. CqSize \in Nat /\ PrepostDepth \in Nat /\ pending_send_wr[p] \in Int
    BY VbufAssumption, FS_CardinalityType DEF CqSize, PrepostDepth, TypeOK
  <2>5. QED  BY <2>1, <2>3, <2>4
<1>2. QED  BY <1>1, TypeCorrect, BuffersInvariant, CountersInvariant, PTL
================================================================================
