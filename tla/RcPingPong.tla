----------------------------- MODULE RcPingPong -----------------------------
(* src/rc_pingpong.c: two processes exchange messages over one reliable QP.     *)
EXTENDS PingPong

(* The options -e (sleep on events) and -t (completions with timestamps).       *)
Rc(event, ts) ==
  [name |-> "rc", transport |-> "RC", event |-> event, ts |-> ts, split |-> FALSE,
   qps |-> [n \in Node |-> IF n < 2 THEN {0} ELSE {}], rx_depth |-> RxDepth, iters |-> Iters,
   cqe |-> [n \in Node |-> RxDepth + 1], tx_cqe |-> [n \in Node |-> 0], max_send_wr |-> 1]

(* A failure of the query for -t jumps past the release of the PD.              *)
rc_init_ctx ==
  [create |-> <<Step({"ctx"}, "return"), Step({"buf"}, "clean_ctx"),
                Step({"context"}, "clean_buffer")>>
              \o (IF program.event THEN <<Step({"channel"}, "clean_device")>> ELSE <<>>)
              \o <<Step({"pd"}, "clean_comp_channel")>>
              \o (IF program.ts THEN <<Step({}, "clean_comp_channel")>> ELSE <<>>)
              \o <<Step({"mr"}, "clean_pd"), Step({"cq"}, "clean_mr"),
                   Step({"qp"}, "clean_cq"), Step({}, "clean_qp")>>,
   cleanup |-> <<Label("clean_qp", <<"qp">>)>> \o CommonLabels]

rc_prepare(n) == prepared(n, rc_init_ctx, program.rx_depth)
rc_init_fails(n) == init_fails(n, rc_init_ctx)

rc_client_exch_dest(n) == client_calls(n) \/ client_reads(n)
rc_server_exch_dest(n) == server_accepts(n, {}) \/ server_ready(n)
rc_connect_ctx(n) == client_connects(n, {})
rc_first_send(n) == client_first_send(n)
rc_get_cq_event(n) == get_cq_event(n)

rc_poll_cq(n) == ~program.ts /\ poll_cq(n, 2)

(* With timestamps: one completion is taken and handled, then a second one if   *)
(* there is one. With events, to find none at first is an error.                *)
rc_start_poll(n) ==
  /\ program.ts /\ polls(n)
  /\ IF hca[n].cq = <<>>
     THEN return_error(n)
     ELSE /\ proc' = [proc EXCEPT ![n].pc = "parse", ![n].turn = 0,
                                  ![n].todo = <<Head(hca[n].cq)>>]
          /\ hca' = [hca EXCEPT ![n].cq = Tail(@)]
  /\ UNCHANGED <<program, sock, faults, dropped>>

rc_next_poll(n) ==
  /\ proc[n].pc = "next_poll"
  /\ IF hca[n].cq = <<>>
     THEN proc' = [proc EXCEPT ![n].pc = "loop"] /\ UNCHANGED hca
     ELSE /\ proc' = [proc EXCEPT ![n].pc = "parse", ![n].turn = 1,
                                  ![n].todo = <<Head(hca[n].cq)>>]
          /\ hca' = [hca EXCEPT ![n].cq = Tail(@)]
  /\ UNCHANGED <<program, sock, faults, dropped>>

rc_parse_single_wc(n) ==
  parse_wc(n, 1, IF program.ts /\ proc[n].turn = 0 THEN "next_poll" ELSE "loop")

(* Mutant: the PD is released before the memory registered with it.             *)
rc_close_ctx_pd_first(n) ==
  main_closes(n, <<"qp", "cq", "pd", "mr", "channel", "context", "buf", "ctx">>)

rc_close_ctx(n) ==
  main_closes(n, <<"qp", "cq", "mr", "pd", "channel", "context", "buf", "ctx">>)

RcNext(n) ==
  /\ program.name = "rc"
  /\ \/ rc_prepare(n) \/ rc_init_fails(n)
     \/ rc_client_exch_dest(n) \/ rc_server_exch_dest(n) \/ exchange_fails(n)
     \/ rc_connect_ctx(n) \/ rc_first_send(n)
     \/ rc_get_cq_event(n) \/ rc_poll_cq(n) \/ rc_start_poll(n) \/ rc_next_poll(n)
     \/ rc_parse_single_wc(n) \/ rc_close_ctx(n)
=============================================================================
