------------------------------- MODULE IbProbe -------------------------------
(* src/ibprobe.c: rank 0 sends a window of messages, rank 1 answers when it has *)
(* received them all. RxDepth is the size of the window (tx_depth = rx_depth).  *)
(* The status of a completion is never looked at.                               *)
EXTENDS PingPong

IbProbe ==
  [name |-> "ibprobe", transport |-> "RC", event |-> FALSE, ts |-> FALSE, split |-> TRUE,
   qps |-> [n \in Node |-> IF n < 2 THEN {0} ELSE {}], rx_depth |-> RxDepth, iters |-> Iters,
   cqe |-> [n \in Node |-> RxDepth], tx_cqe |-> [n \in Node |-> RxDepth],
   max_send_wr |-> RxDepth]

(* Two buffers, two MRs and two CQs are made and then tested together.          *)
ibprobe_init_ctx ==
  [create |-> <<Step({"ctx"}, "return"), Step({"tx_buf", "rx_buf"}, "clean_ctx"),
                Step({"context"}, "clean_buffer"), Step({"pd"}, "clean_device"),
                Step({"tx_mr", "rx_mr"}, "clean_pd"), Step({"tx_cq", "rx_cq"}, "clean_mr"),
                Step({"qp"}, "clean_cq"), Step({}, "clean_qp")>>,
   cleanup |-> <<Label("clean_qp", <<"qp">>), Label("clean_cq", <<"tx_cq", "rx_cq">>),
                 Label("clean_mr", <<"tx_mr", "rx_mr">>), Label("clean_pd", <<"pd">>),
                 Label("clean_device", <<"context">>),
                 Label("clean_buffer", <<"tx_buf", "rx_buf">>), Label("clean_ctx", <<"ctx">>)>>]

(* N, the number of rounds, is read before it is set (line 505).                *)
ibprobe_N == 0 .. Iters

ibprobe_prepare(n) == prepared(n, ibprobe_init_ctx, program.rx_depth)
ibprobe_init_fails(n) == init_fails(n, ibprobe_init_ctx)
ibprobe_sendrecv(n) == mpi_sends(n) \/ mpi_receives(n)
ibprobe_connect_ctx(n) == mpi_connects(n)

begins(n, rank) == n = rank /\ proc[n].pc = "loop" /\ proc[n].turn < program.iters

(* Rank 0: a receive for the answer (the queue may be full, which is ignored),  *)
(* then the window.                                                             *)
ibprobe_post_send(n) ==
  /\ begins(n, 0)
  /\ LET h == IF hca[n].rq < program.rx_depth THEN RecvPosted(hca[n], 1) ELSE hca[n]
     IN hca' = [hca EXCEPT ![n] = [h EXCEPT !.wire[0] = @ \o [i \in 1 .. program.rx_depth |->
                                                               toPeer(n, 0)]]]
  /\ proc' = [proc EXCEPT ![n].pc = "drain", ![n].scnt = 0]
  /\ UNCHANGED <<program, sock, faults, dropped>>

ibprobe_poll_tx(n) ==
  /\ proc[n].pc = "drain" /\ hca[n].tx_cq # <<>>
  /\ LET scnt == proc[n].scnt + Len(hca[n].tx_cq)
     IN proc' = [proc EXCEPT ![n].scnt = scnt,
                             ![n].pc = IF scnt = program.rx_depth THEN "await" ELSE @]
  /\ hca' = [hca EXCEPT ![n].tx_cq = <<>>]
  /\ UNCHANGED <<program, sock, faults, dropped>>

ibprobe_await_ack(n) ==
  /\ n = 0 /\ proc[n].pc = "await" /\ hca[n].cq # <<>>
  /\ hca' = [hca EXCEPT ![n].cq = <<>>]
  /\ proc' = [proc EXCEPT ![n].pc = "loop", ![n].turn = @ + 1]
  /\ UNCHANGED <<program, sock, faults, dropped>>

(* Rank 1: when the window is there, all receives are posted again, then the    *)
(* answer is sent.                                                              *)
ibprobe_poll_rx(n) ==
  /\ begins(n, 1) /\ hca[n].cq # <<>>
  /\ LET rcnt == proc[n].rcnt + Len(hca[n].cq)
         h == [hca[n] EXCEPT !.cq = <<>>]
     IN IF rcnt = program.rx_depth
        THEN /\ hca' = [hca EXCEPT ![n] = SendPosted(RecvPosted(h, program.rx_depth), 0,
                                                     toPeer(n, 0))]
             /\ proc' = [proc EXCEPT ![n].rcnt = 0, ![n].pc = "await"]
        ELSE /\ hca' = [hca EXCEPT ![n] = h]
             /\ proc' = [proc EXCEPT ![n].rcnt = rcnt]
  /\ UNCHANGED <<program, sock, faults, dropped>>

ibprobe_await_sent(n) ==
  /\ n = 1 /\ proc[n].pc = "await" /\ hca[n].tx_cq # <<>>
  /\ hca' = [hca EXCEPT ![n].tx_cq = <<>>]
  /\ proc' = [proc EXCEPT ![n].pc = "loop", ![n].turn = @ + 1]
  /\ UNCHANGED <<program, sock, faults, dropped>>

ibprobe_barrier(n) ==
  /\ proc[n].pc = "loop" /\ proc[n].turn >= program.iters
  /\ proc' = [proc EXCEPT ![n].pc = "barrier"]
  /\ UNCHANGED <<program, hca, sock, faults, dropped>>

ibprobe_close_ctx(n) ==
  close_ctx(n, proc[n].pc = "barrier" /\ proc[peer(n)].pc \in {"barrier", "done"},
            <<"qp", "tx_cq", "rx_cq", "tx_mr", "rx_mr", "pd", "context", "tx_buf", "rx_buf",
              "ctx">>)

IbProbeNext(n) ==
  /\ program.name = "ibprobe"
  /\ \/ ibprobe_prepare(n) \/ ibprobe_init_fails(n)
     \/ ibprobe_sendrecv(n) \/ ibprobe_connect_ctx(n)
     \/ ibprobe_post_send(n) \/ ibprobe_poll_tx(n) \/ ibprobe_await_ack(n)
     \/ ibprobe_poll_rx(n) \/ ibprobe_await_sent(n)
     \/ ibprobe_barrier(n) \/ ibprobe_close_ctx(n)
=============================================================================
