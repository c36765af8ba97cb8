---------------------------- MODULE XsrqPingPong ----------------------------
(* src/xsrq_pingpong.c: a server and several clients over XRC. A message to a   *)
(* client takes a receive of that client's shared queue and travels through the *)
(* QP of any client, one after the other. Clients are numbered in the order in  *)
(* which the server accepts them. Nothing is released when something fails.     *)
EXTENDS PingPong

CONSTANTS NumTests   \* -n (default 5)

ASSUME TestsAssumption == NumTests \in Nat \ {0}

xsrq_clients(n) == IF n = server THEN Cardinality(QP) ELSE 1

Xsrq(event) ==
  LET clients == [n \in Node |-> IF n = server THEN Cardinality(QP) ELSE 1]
  IN [name |-> "xsrq", transport |-> "XRC", event |-> event, ts |-> FALSE, split |-> TRUE,
      qps |-> [n \in Node |-> IF n = server THEN QP ELSE IF n - 1 \in QP THEN {0} ELSE {}],
      rx_depth |-> 0, iters |-> NumTests, cqe |-> clients, tx_cqe |-> clients,
      max_send_wr |-> Cardinality(QP) * NumTests]

xsrq_init_ctx ==
  [create |-> <<Step({"arrays"}, "return"), Step({"context"}, "return"), Step({}, "return"),
                Step({"buf"}, "return")>>
              \o (IF program.event THEN <<Step({"channel"}, "return")>> ELSE <<>>)
              \o <<Step({"pd"}, "return"), Step({"mr"}, "return"), Step({"xrcd"}, "return"),
                   Step({"rx_cq"}, "return"), Step({"tx_cq"}, "return"), Step({"srq"}, "return"),
                   Step({"qp"}, "return"), Step({"qp2"}, "return")>>,
   cleanup |-> <<>>]

xsrq_prepare(n) == prepared(n, xsrq_init_ctx, xsrq_clients(n))
xsrq_init_fails(n) == init_fails(n, xsrq_init_ctx)

(* Client: send_local_dest, recv_remote_dest, connect_qps.                      *)
xsrq_client_connect(n) ==
  /\ n # server
  /\ \/ /\ proc[n].pc = "exchange"
        /\ \/ /\ proc[server].pc = "exchange"
              /\ n = 1 \/ proc[n - 1].pc # "exchange"
              /\ sock' = sockAfter(n, server, FALSE, <<"addr">>)
              /\ proc' = [proc EXCEPT ![n].pc = "read_addr"]
              /\ UNCHANGED hca
           \/ exited(server) /\ return_error(n) /\ UNCHANGED sock
     \/ /\ proc[n].pc = "read_addr" /\ socket_read(n, server, "addr")
        /\ sock' = sockAfter(n, server, TRUE, <<>>)
        /\ proc' = [proc EXCEPT ![n].pc = "connect"]
        /\ UNCHANGED hca
     \/ /\ proc[n].pc = "connect"
        /\ hca' = [hca EXCEPT ![n] = Connected(@, {0})]
        /\ proc' = [proc EXCEPT ![n].pc = "loop"]
        /\ UNCHANGED sock
  /\ UNCHANGED <<program, faults, dropped>>

(* Server: each client in turn: recv_remote_dest, send_local_dest, connect_qps. *)
xsrq_server_connect(n) ==
  /\ n = server /\ proc[n].pc = "exchange"
  /\ LET i == proc[n].turn
     IN /\ socket_read(n, i + 1, "addr")
        /\ sock' = sockAfter(n, i + 1, TRUE, <<"addr">>)
        /\ hca' = [hca EXCEPT ![n] = Connected(@, {i})]
        /\ proc' = [proc EXCEPT ![n].turn = @ + 1,
                                ![n].pc = IF i + 1 = xsrq_clients(n) THEN "first" ELSE @]
  /\ UNCHANGED <<program, faults, dropped>>

(* pp_post_send: round robin over the QPs; the last send to a destination is    *)
(* the only one that makes a completion.                                        *)
xsrq_qpi(n, index) == (index + proc[n].pp_cnt[index]) % xsrq_clients(n)

xsrq_post_send(n, index, h) ==
  LET qpi == xsrq_qpi(n, index)
      last == proc[n].pp_cnt[index] + 1 >= NumTests
  IN SendPosted(h, qpi,
       IF n = server
       THEN [to |-> index + 1, qp |-> 0, via |-> qpi + 1, viaQp |-> 0, signaled |-> last]
       ELSE [to |-> server, qp |-> n - 1, via |-> server, viaQp |-> n - 1, signaled |-> last])

xsrq_server_first(n) ==
  /\ n = server /\ proc[n].pc = "first"
  /\ LET unsent == {i \in QP : proc[n].pp_cnt[i] = 0}
         i == Min(unsent)
     IN /\ hca' = [hca EXCEPT ![n] = xsrq_post_send(n, i, @)]
        /\ proc' = [proc EXCEPT ![n].pp_cnt[i] = 1,
                                ![n].pc = IF unsent = {i} THEN "loop" ELSE @]
  /\ UNCHANGED <<program, sock, faults, dropped>>

xsrq_total(n) == xsrq_clients(n) * NumTests

xsrq_get_cq_event(n) ==
  /\ proc[n].pc = "loop" /\ proc[n].rcnt < xsrq_total(n)
  /\ program.event /\ hca[n].events > 0
  /\ hca' = [hca EXCEPT ![n].events = @ - 1, ![n].armed = TRUE]
  /\ proc' = [proc EXCEPT ![n].pc = "poll"]
  /\ UNCHANGED <<program, sock, faults, dropped>>

(* One turn of the inner loop: a message is received and answered.              *)
xsrq_poll_recv(n) ==
  /\ \/ proc[n].pc = "poll"
     \/ ~program.event /\ proc[n].pc = "loop" /\ proc[n].rcnt < xsrq_total(n)
  /\ hca[n].cq # <<>>
  /\ LET wc == Head(hca[n].cq)
         h == RecvPosted([hca[n] EXCEPT !.cq = Tail(@)], 1)
         answer == proc[n].pp_cnt[wc.qp] < NumTests
     IN IF ~wc.ok THEN return_error(n)
        ELSE /\ hca' = [hca EXCEPT ![n] = IF answer THEN xsrq_post_send(n, wc.qp, h) ELSE h]
             /\ proc' = [proc EXCEPT ![n].pc = "poll", ![n].rcnt = @ + 1,
                                     ![n].pp_cnt[wc.qp] = IF answer THEN @ + 1 ELSE @]
  /\ UNCHANGED <<program, sock, faults, dropped>>

xsrq_poll_empty(n) ==
  /\ proc[n].pc = "poll" /\ hca[n].cq = <<>>
  /\ proc' = [proc EXCEPT ![n].pc = "loop"]
  /\ UNCHANGED <<program, hca, sock, faults, dropped>>

(* A completion per destination is taken from send_cq, whatever its status.     *)
xsrq_poll_send(n) ==
  /\ proc[n].pc = "loop" /\ proc[n].rcnt >= xsrq_total(n)
  /\ hca[n].tx_cq # <<>>
  /\ hca' = [hca EXCEPT ![n].tx_cq = Tail(@)]
  /\ proc' = [proc EXCEPT ![n].scnt = @ + 1, ![n].turn = 0,
                          ![n].pc = IF proc[n].scnt + 1 = xsrq_clients(n) THEN "end" ELSE @]
  /\ UNCHANGED <<program, sock, faults, dropped>>

(* Mutant: a client ends without hearing that the others have.                  *)
xsrq_client_termination_alone(n) ==
  /\ n # server /\ proc[n].pc = "end"
  /\ sock' = sockAfter(n, server, FALSE, <<"END">>)
  /\ proc' = [proc EXCEPT ![n].pc = "barrier"]
  /\ UNCHANGED <<program, hca, faults, dropped>>

(* A client tells the server that it has finished, and waits to hear that all   *)
(* have.                                                                        *)
xsrq_client_termination(n) ==
  /\ n # server
  /\ \/ /\ proc[n].pc = "end"
        /\ sock' = sockAfter(n, server, FALSE, <<"END">>)
        /\ proc' = [proc EXCEPT ![n].pc = "read_end"]
     \/ /\ proc[n].pc = "read_end" /\ socket_read(n, server, "END")
        /\ sock' = sockAfter(n, server, TRUE, <<>>)
        /\ proc' = [proc EXCEPT ![n].pc = "barrier"]
  /\ UNCHANGED <<program, hca, faults, dropped>>

xsrq_server_termination(n) ==
  /\ n = server /\ proc[n].pc = "end"
  /\ LET i == proc[n].turn
     IN IF i < xsrq_clients(n)
        THEN /\ socket_read(n, i + 1, "END")
             /\ sock' = sockAfter(n, i + 1, TRUE, <<>>)
             /\ proc' = [proc EXCEPT ![n].turn = @ + 1]
        ELSE /\ sock' = [e \in DOMAIN sock |-> IF e[1] = server /\ e[2] - 1 \in QP /\ e[2] # server
                                               THEN Append(sock[e], "END") ELSE sock[e]]
             /\ proc' = [proc EXCEPT ![n].pc = "barrier"]
  /\ UNCHANGED <<program, hca, faults, dropped>>

xsrq_close_ctx(n) ==
  close_ctx(n, proc[n].pc = "barrier",
            <<"qp", "qp2", "srq", "xrcd", "tx_cq", "rx_cq", "mr", "pd", "channel", "context",
              "buf", "arrays">>)

XsrqNext(n) ==
  /\ program.name = "xsrq"
  /\ \/ xsrq_prepare(n) \/ xsrq_init_fails(n)
     \/ xsrq_client_connect(n) \/ xsrq_server_connect(n) \/ xsrq_server_first(n)
     \/ xsrq_get_cq_event(n) \/ xsrq_poll_recv(n) \/ xsrq_poll_empty(n) \/ xsrq_poll_send(n)
     \/ xsrq_client_termination(n) \/ xsrq_server_termination(n) \/ xsrq_close_ctx(n)
=============================================================================
