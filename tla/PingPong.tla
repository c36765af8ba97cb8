------------------------------ MODULE PingPong ------------------------------
(* The state of a process of a verbs program, and the steps that rc_pingpong,   *)
(* uc_pingpong, ud_pingpong and srq_pingpong share. The sources are four        *)
(* copies of one program; each has a module of its own that says with which     *)
(* set-up, limits and transport it takes these steps.                           *)
EXTENDS Integers, VerbsDevice, VerbsSetup

CONSTANTS RxDepth,   \* -r (default 500)
          Iters      \* -n (default 1000)

ASSUME DepthAssumption == RxDepth \in Nat /\ RxDepth >= Cardinality(QP)
ASSUME ItersAssumption == Iters \in Nat \ {0}

VARIABLE proc        \* the local state of each process

vars == <<program, hca, sock, faults, dropped, proc>>

Op == {"send", "recv"}

Process == [pc : {"create", "exchange", "read_addr", "connect", "read_done",
                  "first", "loop", "poll", "parse", "next_poll", "await", "drain",
                  "barrier", "end", "read_end", "done", "failed", "no_ctx"},
            made : SUBSET Object,        \* objects that exist
            todo : Seq(Completion),      \* completions polled, not yet handled
            pending : [QP -> SUBSET Op], \* ctx->pending
            routs : Nat, scnt : Nat, rcnt : Nat,
            pp_cnt : [QP -> Nat],        \* xsrq: sends to each destination
            turn : Nat]                  \* xsrq: clients served; ibprobe: N;
                                         \* rc: completions after ibv_start_poll

NoProcess == [pc |-> "create", made |-> {}, todo |-> <<>>,
              pending |-> [q \in QP |-> {}], routs |-> 0, scnt |-> 0, rcnt |-> 0,
              pp_cnt |-> [q \in QP |-> 0], turn |-> 0]

server == 0
exited(n) == proc[n].pc \in {"done", "failed", "no_ctx"}

(* A pair of processes: QP q of one is connected to QP q of the other.          *)
peer(n) == 1 - n
qpsOf(n) == program.qps[n]
toPeer(n, q) == [to |-> peer(n), qp |-> q, via |-> peer(n), viaQp |-> q, signaled |-> TRUE]

(****************************************************************************)
(* Start and failure.                                                        *)
(****************************************************************************)
(* pp_init_ctx, then all receives posted and the CQ armed.                      *)
prepared(n, table, depth) ==
  /\ proc[n].pc = "create"
  /\ proc' = [proc EXCEPT ![n].pc = "exchange", ![n].routs = depth,
                          ![n].made = Made(table.create, Len(table.create))]
  /\ hca' = [hca EXCEPT ![n] = Created(@, qpsOf(n), depth, program.event)]
  /\ UNCHANGED <<program, sock, faults, dropped>>

init_fails(n, table) ==
  /\ proc[n].pc = "create"
  /\ faults < MaxFaults
  /\ faults' = faults + 1
  /\ \E i \in DOMAIN table.create :
       \E part \in SUBSET table.create[i].makes :
          /\ part # table.create[i].makes \/ part = {}
          /\ proc' = [proc EXCEPT ![n].pc = "no_ctx",
                                  ![n].made = AfterFailure(table, i, part)]
  /\ UNCHANGED <<program, hca, sock, dropped>>

(* main returns an error: the process ends and its HCA objects with it.         *)
return_error(n) ==
  /\ proc' = [proc EXCEPT ![n].pc = "failed", ![n].todo = <<>>]
  /\ hca' = [hca EXCEPT ![n] = Destroyed(@)]

main_fails(n) ==
  /\ ~exited(n) /\ proc[n].pc # "create"
  /\ faults < MaxFaults
  /\ faults' = faults + 1
  /\ return_error(n)
  /\ UNCHANGED <<program, sock, dropped>>

(****************************************************************************)
(* The exchange of addresses over TCP. The server is started first.          *)
(****************************************************************************)
client_calls(n) ==
  /\ n # server /\ proc[n].pc = "exchange"
  /\ \/ /\ proc[server].pc = "exchange"
        /\ sock' = sockAfter(n, server, FALSE, <<"addr">>)
        /\ proc' = [proc EXCEPT ![n].pc = "read_addr"]
        /\ UNCHANGED hca
     \/ exited(server) /\ return_error(n) /\ UNCHANGED sock
  /\ UNCHANGED <<program, faults, dropped>>

client_reads(n) ==
  /\ n # server /\ proc[n].pc = "read_addr" /\ socket_read(n, server, "addr")
  /\ sock' = sockAfter(n, server, TRUE, <<"done">>)
  /\ proc' = [proc EXCEPT ![n].pc = "connect"]
  /\ UNCHANGED <<program, hca, faults, dropped>>

(* The server is connected before the client learns its address.                *)
server_accepts(n, more) ==
  /\ n = server /\ proc[n].pc = "exchange" /\ socket_read(n, peer(n), "addr")
  /\ sock' = sockAfter(n, peer(n), TRUE, <<"addr">>)
  /\ hca' = [hca EXCEPT ![n] = Connected(@, qpsOf(n))]
  /\ proc' = [proc EXCEPT ![n].pc = "read_done", ![n].made = @ \cup more]
  /\ UNCHANGED <<program, faults, dropped>>

server_ready(n) ==
  /\ n = server /\ proc[n].pc = "read_done" /\ socket_read(n, peer(n), "done")
  /\ sock' = sockAfter(n, peer(n), TRUE, <<>>)
  /\ proc' = [proc EXCEPT ![n].pc = "loop",
                          ![n].pending = [q \in QP |-> IF q \in qpsOf(n) THEN {"recv"} ELSE {}]]
  /\ UNCHANGED <<program, hca, faults, dropped>>

(* A read or write on a connection the peer has closed.                         *)
exchange_fails(n) ==
  /\ proc[n].pc \in {"read_addr", "read_done"}
  /\ exited(peer(n)) /\ sock[<<peer(n), n>>] = <<>>
  /\ return_error(n)
  /\ UNCHANGED <<program, sock, faults, dropped>>

client_connects(n, more) ==
  /\ n # server /\ proc[n].pc = "connect"
  /\ hca' = [hca EXCEPT ![n] = Connected(@, qpsOf(n))]
  /\ proc' = [proc EXCEPT ![n].pc = "first", ![n].made = @ \cup more]
  /\ UNCHANGED <<program, sock, faults, dropped>>

(* The client serves: one send on each QP.                                      *)
client_first_send(n) ==
  /\ n # server /\ proc[n].pc = "first"
  /\ LET idle == {q \in qpsOf(n) : proc[n].pending[q] = {}}
     IN \E q \in idle :
          /\ \A other \in idle : q <= other
          /\ hca' = [hca EXCEPT ![n] = SendPosted(@, q, toPeer(n, q))]
          /\ proc' = [proc EXCEPT ![n].pending[q] = Op,
                                  ![n].pc = IF idle = {q} THEN "loop" ELSE @]
  /\ UNCHANGED <<program, sock, faults, dropped>>

(****************************************************************************)
(* The exchange of addresses by MPI: MPI_Sendrecv, MPI_Alltoall.             *)
(****************************************************************************)
mpi_sends(n) ==
  /\ proc[n].pc = "exchange"
  /\ sock' = sockAfter(n, peer(n), FALSE, <<"addr">>)
  /\ proc' = [proc EXCEPT ![n].pc = "read_addr"]
  /\ UNCHANGED <<program, hca, faults, dropped>>

mpi_receives(n) ==
  /\ proc[n].pc = "read_addr" /\ socket_read(n, peer(n), "addr")
  /\ sock' = sockAfter(n, peer(n), TRUE, <<>>)
  /\ proc' = [proc EXCEPT ![n].pc = "connect"]
  /\ UNCHANGED <<program, hca, faults, dropped>>

mpi_connects(n) ==
  /\ proc[n].pc = "connect"
  /\ hca' = [hca EXCEPT ![n] = Connected(@, qpsOf(n))]
  /\ proc' = [proc EXCEPT ![n].pc = "loop"]
  /\ UNCHANGED <<program, sock, faults, dropped>>

(****************************************************************************)
(* The loop.                                                                 *)
(****************************************************************************)
(* Mutant: the loop runs until the counts are exact.                            *)
finished_exactly(n) == proc[n].rcnt = program.iters /\ proc[n].scnt = program.iters
finished(n) == proc[n].rcnt >= program.iters /\ proc[n].scnt >= program.iters

(* Mutant: the notification is not armed again.                                 *)
get_cq_event_once(n) ==
  /\ proc[n].pc = "loop" /\ ~finished(n)
  /\ program.event /\ hca[n].events > 0
  /\ hca' = [hca EXCEPT ![n].events = @ - 1]
  /\ proc' = [proc EXCEPT ![n].pc = "poll"]
  /\ UNCHANGED <<program, sock, faults, dropped>>

get_cq_event(n) ==
  /\ proc[n].pc = "loop" /\ ~finished(n)
  /\ program.event /\ hca[n].events > 0
  /\ hca' = [hca EXCEPT ![n].events = @ - 1, ![n].armed = TRUE]
  /\ proc' = [proc EXCEPT ![n].pc = "poll"]
  /\ UNCHANGED <<program, sock, faults, dropped>>

polls(n) == IF program.event THEN proc[n].pc = "poll"
            ELSE proc[n].pc = "loop" /\ ~finished(n) /\ hca[n].cq # <<>>

(* ibv_poll_cq with room for batch completions.                                 *)
poll_cq(n, batch) ==
  /\ polls(n)
  /\ LET ne == IF Len(hca[n].cq) < batch THEN Len(hca[n].cq) ELSE batch
     IN /\ proc' = [proc EXCEPT ![n].pc = IF ne = 0 THEN "loop" ELSE "parse",
                                ![n].todo = SubSeq(hca[n].cq, 1, ne)]
        /\ hca' = [hca EXCEPT ![n].cq = SubSeq(@, ne + 1, Len(@))]
  /\ UNCHANGED <<program, sock, faults, dropped>>

(* Mutant: receives are never posted again.                                     *)
refill_never(left, low) == 0
(* Mutant: the difference is taken the wrong way round.                         *)
refill_swapped(left, low) == IF left <= low THEN left - program.rx_depth ELSE 0
(* How many receives to post when low or fewer are left.                        *)
refill(left, low) == IF left <= low THEN program.rx_depth - left ELSE 0

(* Mutants: the next exchange begins with any completion; or with that of a     *)
(* send, though the peer has not answered.                                      *)
serves_at_once(pending, scnt) == scnt < program.iters
serves_when_sent(pending, scnt) == scnt < program.iters /\ "send" \notin pending
(* The next exchange begins when both halves of this one are through.           *)
serves(pending, scnt) == scnt < program.iters /\ pending = {}

(* One completion is handled.                                                   *)
parse_wc(n, low, next) ==
  /\ proc[n].pc = "parse"
  /\ LET wc == Head(proc[n].todo)
         left == IF wc.op = "recv" THEN proc[n].routs - 1 ELSE proc[n].routs
         more == IF wc.op = "recv" THEN refill(left, low) ELSE 0
         scnt == IF wc.op = "send" THEN proc[n].scnt + 1 ELSE proc[n].scnt
         rcnt == IF wc.op = "recv" THEN proc[n].rcnt + 1 ELSE proc[n].rcnt
         pending == proc[n].pending[wc.qp] \ {wc.op}
         again == serves(pending, scnt)
         h == RecvPosted(hca[n], more)
     IN IF ~wc.ok THEN return_error(n)
        ELSE /\ proc' = [proc EXCEPT ![n].todo = Tail(@),
                           ![n].pc = IF Len(proc[n].todo) > 1 THEN "parse" ELSE next,
                           ![n].routs = left + more, ![n].scnt = scnt, ![n].rcnt = rcnt,
                           ![n].pending[wc.qp] = IF again THEN Op ELSE pending]
             /\ hca' = [hca EXCEPT ![n] =
                          IF again THEN SendPosted(h, wc.qp, toPeer(n, wc.qp)) ELSE h]
  /\ UNCHANGED <<program, sock, faults, dropped>>

(* The loop is over: pp_close_ctx.                                              *)
close_ctx(n, at, objects) ==
  /\ at
  /\ LET r == Closed(proc[n].made, objects)
     IN proc' = [proc EXCEPT ![n].pc = IF r.ok THEN "done" ELSE "failed", ![n].made = r.left]
  /\ hca' = [hca EXCEPT ![n] = Destroyed(@)]
  /\ UNCHANGED <<program, sock, faults, dropped>>

main_closes(n, objects) == close_ctx(n, proc[n].pc = "loop" /\ finished(n), objects)
=============================================================================
