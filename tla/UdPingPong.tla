---------------------------- MODULE UdPingPong ----------------------------
(* src/ud_pingpong.c: as uc_pingpong.c with datagrams; to connect makes an address *)
(* handle.                                                                      *)
EXTENDS PingPong

Ud(event) ==
  [name |-> "ud", transport |-> "UD", event |-> event, ts |-> FALSE, split |-> FALSE,
   qps |-> [n \in Node |-> IF n < 2 THEN {0} ELSE {}], rx_depth |-> RxDepth, iters |-> Iters,
   cqe |-> [n \in Node |-> RxDepth + 1], tx_cqe |-> [n \in Node |-> 0], max_send_wr |-> 1]

ud_init_ctx ==
  [create |-> <<Step({"ctx"}, "return"), Step({"buf"}, "clean_ctx"),
                Step({"context"}, "clean_buffer"), Step({}, "clean_device")>>
              \o (IF program.event THEN <<Step({"channel"}, "clean_device")>> ELSE <<>>)
              \o <<Step({"pd"}, "clean_comp_channel"), Step({"mr"}, "clean_pd"),
                   Step({"cq"}, "clean_mr"), Step({"qp"}, "clean_cq"), Step({}, "clean_qp")>>,
   cleanup |-> <<Label("clean_qp", <<"qp">>)>> \o CommonLabels]

ud_prepare(n) == prepared(n, ud_init_ctx, program.rx_depth)
ud_init_fails(n) == init_fails(n, ud_init_ctx)

ud_client_exch_dest(n) == client_calls(n) \/ client_reads(n)
ud_server_exch_dest(n) == server_accepts(n, {"ah"}) \/ server_ready(n)
ud_connect_ctx(n) == client_connects(n, {"ah"})
ud_first_send(n) == client_first_send(n)
ud_get_cq_event(n) == get_cq_event(n)
ud_poll_cq(n) == poll_cq(n, 2)
ud_parse_wc(n) == parse_wc(n, 1, "loop")
ud_close_ctx(n) ==
  main_closes(n, <<"qp", "cq", "mr", "ah", "pd", "channel", "context", "buf", "ctx">>)

UdNext(n) ==
  /\ program.name = "ud"
  /\ \/ ud_prepare(n) \/ ud_init_fails(n)
     \/ ud_client_exch_dest(n) \/ ud_server_exch_dest(n) \/ exchange_fails(n)
     \/ ud_connect_ctx(n) \/ ud_first_send(n)
     \/ ud_get_cq_event(n) \/ ud_poll_cq(n) \/ ud_parse_wc(n) \/ ud_close_ctx(n)
=============================================================================
