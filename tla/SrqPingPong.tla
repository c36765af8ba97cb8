---------------------------- MODULE SrqPingPong ----------------------------
(* src/srq_pingpong.c: as rc_pingpong.c on several QPs whose receives come from *)
(* one shared queue; the counts are over all QPs. Its reads of addresses go on for *)
(* ever when the peer has closed the connection (lines 207 and 300): only the read *)
(* of "done" fails then.                                                        *)
EXTENDS PingPong

Srq(event) ==
  [name |-> "srq", transport |-> "RC", event |-> event, ts |-> FALSE, split |-> FALSE,
   qps |-> [n \in Node |-> IF n < 2 THEN QP ELSE {}], rx_depth |-> RxDepth, iters |-> Iters,
   cqe |-> [n \in Node |-> RxDepth + Cardinality(QP)], tx_cqe |-> [n \in Node |-> 0], max_send_wr |-> 1]

srq_init_ctx ==
  [create |-> <<Step({"ctx"}, "return"), Step({"buf"}, "clean_ctx"),
                Step({"context"}, "clean_buffer")>>
              \o (IF program.event THEN <<Step({"channel"}, "clean_device")>> ELSE <<>>)
              \o <<Step({"pd"}, "clean_comp_channel"), Step({"mr"}, "clean_pd"),
                   Step({"cq"}, "clean_mr"), Step({"srq"}, "clean_cq"),
                   Step({"qp"}, "clean_qps"), Step({"qp2"}, "clean_qps"),
                   Step({}, "clean_qps_full")>>,
   cleanup |-> <<Label("clean_qps_full", <<>>), Label("clean_qps", <<"qp2", "qp", "srq">>)>>
               \o CommonLabels]

srq_prepare(n) == prepared(n, srq_init_ctx, program.rx_depth)
srq_init_fails(n) == init_fails(n, srq_init_ctx)

srq_client_exch_dest(n) == client_calls(n) \/ client_reads(n)
srq_server_exch_dest(n) == server_accepts(n, {}) \/ server_ready(n)
srq_done_fails(n) == n = server /\ exchange_fails(n)
srq_connect_ctx(n) == client_connects(n, {})
srq_first_send(n) == client_first_send(n)
srq_get_cq_event(n) == get_cq_event(n)
srq_poll_cq(n) == poll_cq(n, program.rx_depth + Cardinality(qpsOf(n)))
srq_parse_wc(n) == parse_wc(n, Cardinality(qpsOf(n)), "loop")
srq_close_ctx(n) ==
  main_closes(n, <<"qp", "qp2", "srq", "cq", "mr", "pd", "channel", "context", "buf", "ctx">>)

SrqNext(n) ==
  /\ program.name = "srq"
  /\ \/ srq_prepare(n) \/ srq_init_fails(n)
     \/ srq_client_exch_dest(n) \/ srq_server_exch_dest(n) \/ srq_done_fails(n)
     \/ srq_connect_ctx(n) \/ srq_first_send(n)
     \/ srq_get_cq_event(n) \/ srq_poll_cq(n) \/ srq_parse_wc(n) \/ srq_close_ctx(n)
=============================================================================
