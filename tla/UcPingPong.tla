---------------------------- MODULE UcPingPong ----------------------------
(* src/uc_pingpong.c: as rc_pingpong.c over an unreliable connection, in which a *)
(* message is lost if it, or the receive for it, is late.                       *)
EXTENDS PingPong

Uc(event) ==
  [name |-> "uc", transport |-> "UC", event |-> event, ts |-> FALSE, split |-> FALSE,
   qps |-> [n \in Node |-> IF n < 2 THEN {0} ELSE {}], rx_depth |-> RxDepth, iters |-> Iters,
   cqe |-> [n \in Node |-> RxDepth + 1], tx_cqe |-> [n \in Node |-> 0], max_send_wr |-> 1]

uc_init_ctx ==
  [create |-> <<Step({"ctx"}, "return"), Step({"buf"}, "clean_ctx"),
                Step({"context"}, "clean_buffer")>>
              \o (IF program.event THEN <<Step({"channel"}, "clean_device")>> ELSE <<>>)
              \o <<Step({"pd"}, "clean_comp_channel"), Step({"mr"}, "clean_pd"),
                   Step({"cq"}, "clean_mr"), Step({"qp"}, "clean_cq"), Step({}, "clean_qp")>>,
   cleanup |-> <<Label("clean_qp", <<"qp">>)>> \o CommonLabels]

uc_prepare(n) == prepared(n, uc_init_ctx, program.rx_depth)
uc_init_fails(n) == init_fails(n, uc_init_ctx)

uc_client_exch_dest(n) == client_calls(n) \/ client_reads(n)
uc_server_exch_dest(n) == server_accepts(n, {}) \/ server_ready(n)
uc_connect_ctx(n) == client_connects(n, {})
uc_first_send(n) == client_first_send(n)
uc_get_cq_event(n) == get_cq_event(n)
uc_poll_cq(n) == poll_cq(n, 2)
uc_parse_wc(n) == parse_wc(n, 1, "loop")
uc_close_ctx(n) ==
  main_closes(n, <<"qp", "cq", "mr", "pd", "channel", "context", "buf", "ctx">>)

UcNext(n) ==
  /\ program.name = "uc"
  /\ \/ uc_prepare(n) \/ uc_init_fails(n)
     \/ uc_client_exch_dest(n) \/ uc_server_exch_dest(n) \/ exchange_fails(n)
     \/ uc_connect_ctx(n) \/ uc_first_send(n)
     \/ uc_get_cq_event(n) \/ uc_poll_cq(n) \/ uc_parse_wc(n) \/ uc_close_ctx(n)
=============================================================================
