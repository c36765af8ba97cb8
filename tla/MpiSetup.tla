------------------------------ MODULE MpiSetup ------------------------------
(* How YMPI (src/ympi.c) and its prototype (src/iballputall.c) are set up, and  *)
(* released: two ranks, each with a QP to itself and one to the other. What     *)
(* they do in between is in Ympi and RxWindow.                                  *)
EXTENDS PingPong

Library(name) ==
  [name |-> name, transport |-> "RC", event |-> FALSE, ts |-> FALSE, split |-> FALSE,
   qps |-> [n \in Node |-> IF n < 2 THEN {0} ELSE {}], rx_depth |-> RxDepth, iters |-> 0,
   cqe |-> [n \in Node |-> 4 * RxDepth], tx_cqe |-> [n \in Node |-> 0], max_send_wr |-> RxDepth]

(* YMPI. A failed allocation of memory aborts. A port that cannot be queried    *)
(* leaves the device open, and a QP that cannot be made leaves those before it. *)
(* No label releases the counters, the lengths, the vbuf queues or qp_rank.     *)
YMPID_Context_create ==
  [create |-> <<Step({"ctx"}, "return"), Step({"qp_pending_send_wr"}, "abort"),
                Step({"context"}, "clean_ctx"), Step({}, "clean_ctx"),
                Step({"pd"}, "clean_device"), Step({"cq"}, "clean_pd"), Step({"srq"}, "clean_cq"),
                Step({"buf"}, "abort"), Step({"buf_bytes"}, "abort"), Step({"mr"}, "clean_srq"),
                Step({"vbuf_queues"}, "abort"), Step({"qp_list"}, "abort"),
                Step({"qp_rank"}, "abort"), Step({"qp"}, "clean_qp_list"),
                Step({"qp2"}, "clean_qp_list"), Step({}, "clean_qp")>>,
   cleanup |-> <<Label("clean_qp", <<"qp", "qp2">>), Label("clean_qp_list", <<"qp_list">>),
                 Label("clean_rx_win", <<"mr", "buf">>), Label("clean_srq", <<"srq">>),
                 Label("clean_cq", <<"cq">>), Label("clean_pd", <<"pd">>),
                 Label("clean_device", <<"context">>), Label("clean_ctx", <<"ctx">>)>>]

(* Around it: no list of devices or an empty one; the lists of receive WRs, the *)
(* first YMPID_Return, the query of the LID, and the lists to exchange. What    *)
(* fails after Context_create returns with everything made.                     *)
YMPID_Init ==
  [create |-> <<Step({"dev_list"}, "return"), Step({}, "return")>> \o YMPID_Context_create.create
              \o <<Step({"recv_wr_lists"}, "abort"), Step({}, "return"), Step({}, "return"),
                   Step({"address_lists"}, "abort")>>,
   cleanup |-> YMPID_Context_create.cleanup]

ympi_init(n) == prepared(n, YMPID_Init, program.rx_depth)
ympi_init_fails(n) == init_fails(n, YMPID_Init)
ympi_exchange(n) == mpi_sends(n) \/ mpi_receives(n)
YMPID_Context_connect(n) == mpi_connects(n)

(* YMPID_Context_destroy goes on whatever a release returns, and releases what  *)
(* the labels of Context_create do: YmpiMemory stays.                           *)
YMPI_Finalize(n) ==
  /\ proc[n].pc = "loop"
  /\ proc' = [proc EXCEPT ![n].pc = "done",
                ![n].made = ReleasedAll(@, <<"qp", "qp2", "qp_list", "mr", "buf", "srq", "cq",
                                             "pd", "context", "ctx">>)]
  /\ hca' = [hca EXCEPT ![n] = Destroyed(@)]
  /\ UNCHANGED <<program, sock, faults, dropped>>

YmpiNext(n) ==
  /\ program.name = "ympi"
  /\ \/ ympi_init(n) \/ ympi_init_fails(n) \/ ympi_exchange(n)
     \/ YMPID_Context_connect(n) \/ YMPI_Finalize(n)

(* The prototype. No label and no line of its pp_close_ctx releases the SRQ.    *)
iballputall_init_ctx ==
  [create |-> <<Step({"ctx"}, "return"), Step({"tx_buf", "rx_buf"}, "clean_ctx"),
                Step({"context"}, "clean_buffer"), Step({"pd"}, "clean_device"),
                Step({"tx_mr", "rx_mr"}, "clean_pd"), Step({"cq"}, "clean_mr"),
                Step({"srq"}, "clean_cq"), Step({"qp_list"}, "abort"),
                Step({"qp"}, "clean_cq"), Step({"qp2"}, "clean_cq"), Step({}, "clean_qp")>>,
   cleanup |-> <<Label("clean_qp", <<"qp", "qp2">>), Label("clean_cq", <<"cq">>),
                 Label("clean_mr", <<"tx_mr", "rx_mr">>), Label("clean_pd", <<"pd">>),
                 Label("clean_device", <<"context">>),
                 Label("clean_buffer", <<"tx_buf", "rx_buf">>), Label("clean_ctx", <<"ctx">>)>>]

iballputall_init(n) == prepared(n, iballputall_init_ctx, program.rx_depth)
iballputall_init_fails(n) == init_fails(n, iballputall_init_ctx)
iballputall_exchange(n) == mpi_sends(n) \/ mpi_receives(n)
iballputall_connect_ctx(n) == mpi_connects(n)
iballputall_close_ctx(n) ==
  close_ctx(n, proc[n].pc = "loop",
            <<"qp", "qp2", "qp_list", "cq", "tx_mr", "rx_mr", "pd", "context", "tx_buf",
              "rx_buf", "ctx">>)

IballputallNext(n) ==
  /\ program.name = "iballputall"
  /\ \/ iballputall_init(n) \/ iballputall_init_fails(n) \/ iballputall_exchange(n)
     \/ iballputall_connect_ctx(n) \/ iballputall_close_ctx(n)
=============================================================================
