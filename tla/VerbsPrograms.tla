---------------------------- MODULE VerbsPrograms ----------------------------
(* The verbs programs of the repository on one model of the device. Which       *)
(* program runs, and with which options, is chosen at the start.                *)
EXTENDS RcPingPong, UcPingPong, UdPingPong, SrqPingPong, XsrqPingPong, IbProbe, MpiSetup

CONSTANT Programs    \* programs to choose from

(* The four copies of one program; -n sets the number of iterations.            *)
PingPongs == {"rc", "uc", "ud", "srq"}

ASSUME ProgramsAssumption ==
  \A p \in Programs : p.name \in PingPongs =>
    /\ p.iters \in Nat \ {0}
    /\ \E event, ts \in BOOLEAN :
         \E o \in {Rc(event, ts), Uc(event), Ud(event), Srq(event)} :
           p = [o EXCEPT !.iters = p.iters]

nodes == {n \in Node : program.qps[n] # {}}

Init ==
  /\ program \in Programs
  /\ hca = [n \in Node |-> NoHCA]
  /\ sock = [e \in Node \X Node |-> <<>>]
  /\ dropped = 0
  /\ IF program.name = "ibprobe"
     THEN \E n0, n1 \in ibprobe_N :
            /\ proc = [n \in Node |-> [NoProcess EXCEPT !.turn = IF n = 0 THEN n0 ELSE n1]]
            /\ faults = IF n0 = n1 THEN 0 ELSE 1
     ELSE proc = [n \in Node |-> NoProcess] /\ faults = 0

process_step == \E n \in nodes :
  \/ RcNext(n)
  \/ UcNext(n)
  \/ UdNext(n)
  \/ SrqNext(n)
  \/ XsrqNext(n)
  \/ IbProbeNext(n)
  \/ YmpiNext(n)
  \/ IballputallNext(n)
  \/ main_fails(n)

Next == process_step \/ (hca_step /\ UNCHANGED <<program, proc>>)

(* While anything can happen, something does; nothing has to go wrong.          *)
Progress == Next /\ UNCHANGED faults

Spec == Init /\ [][Next]_vars /\ WF_vars(Progress)

(****************************************************************************)
(* Properties.                                                               *)
(****************************************************************************)
TypeOK ==
  /\ hca \in [Node -> HCA]
  /\ DOMAIN sock = Node \X Node
  /\ \A e \in DOMAIN sock : sock[e] \in Seq({"addr", "done", "END"})
  /\ faults \in Nat /\ dropped \in Nat
  /\ proc \in [Node -> Process]

(* Completions of an operation on a QP.                                         *)
count(s, op, q) == Cardinality({i \in DOMAIN s : s[i].op = op /\ s[i].qp = q})

(* Sends of a QP whose completion has not been polled.                          *)
outstanding(n, q) ==
  (IF reliable THEN Len(hca[n].wire[q]) ELSE 0) + hca[n].acks[q]
    + count(hca[n].cq, "send", q) + count(hca[n].tx_cq, "send", q)

(* The queues are as small as they can be: a CQ of one entry per receive plus   *)
(* one per QP, a send queue of one. No completion is ever lost to a full CQ and *)
(* no send refused by a full queue, because a send is posted again only after   *)
(* its completion and a receive only after it was handled (rc_pingpong.c 413,   *)
(* 428; srq 400; xsrq 274, 288; ibprobe 114-116).                             *)
QueuesFit == \A n \in nodes :
  /\ Len(hca[n].cq) <= program.cqe[n]
  /\ Len(hca[n].tx_cq) <= program.tx_cqe[n]
  /\ \A q \in QP : outstanding(n, q) <= program.max_send_wr

(* A process that sleeps in ibv_get_cq_event will be woken for every completion *)
(* in its CQ: an event is there, or nothing is. The notification is armed       *)
(* before the CQ is polled, and a poll takes all that can have come (rc 922-    *)
(* 980; the pings and pongs alternate, so two are enough).                      *)
NoLostWakeup == \A n \in nodes :
  program.event /\ proc[n].pc = "loop" /\ hca[n].cq # <<>> => hca[n].events > 0

(* No message finds its receiver unprepared: over UC and UD it would be lost.   *)
(* The server connects before it answers, the client sends after it knows that, *)
(* and receives are posted again before the peer is answered (uc 271-283, 797). *)
NothingDropped == faults = 0 => dropped = 0

(* A program reports an error only if something went wrong: no order of         *)
(* completions, events and messages makes it give up. iballputall is left out:  *)
(* its pp_close_ctx forgets the SRQ and always fails.                           *)
FailsOnlyOnFault == \A n \in nodes :
  proc[n].pc = "failed" /\ program.name # "iballputall" => faults > 0

(* Messages of a QP pair between one process posting them and the other         *)
(* handling their completion.                                                   *)
inFlight(q) ==
  LET carried(n) == Len(hca[n].wire[q])
      arrived(n) == count(hca[n].cq, "recv", q) + count(proc[n].todo, "recv", q)
  IN carried(0) + carried(1) + arrived(0) + arrived(1)

(* The ball is in one place: of each pair of QPs at most one side has a message *)
(* under way. It is what makes one send, polls of two and events sufficient.    *)
OneInFlight == program.name \in PingPongs =>
  \A q \in QP : inFlight(q) <= 1

(* A process closes its QPs only when no message needs them any more, its own   *)
(* or one for another client (the comment at xsrq_pingpong.c 1004-1009). The    *)
(* counts of srq are over all QPs, so there a QP may be left in mid-exchange.   *)
NoOrphans == program.name # "srq" /\ faults = 0 =>
  \A n \in nodes, q \in QP : \A i \in DOMAIN hca[n].wire[q] :
    ~exited(hca[n].wire[q][i].via)

(* What a process leaves of what its set-up made when that failed, or when it   *)
(* ended well: nothing, but for the memory that YMPI_Finalize never frees       *)
(* (ympi.c 379-424, 751-756). The labels of rc with timestamps, of ibprobe and  *)
(* of ympi leak on some failures, those of iballputall on most, and xsrq has    *)
(* none: for these only the good end is claimed.                                *)
tidy == program.name \in {"uc", "ud", "srq"} \/ (program.name = "rc" /\ ~program.ts)

neverFreed == IF program.name = "ympi" THEN YmpiMemory ELSE {}

LeavesNothingElse == \A n \in nodes :
  proc[n].pc = "done" \/ (proc[n].pc = "no_ctx" /\ tidy) => proc[n].made = neverFreed

(* Every program ends, unless something went wrong: a lost message, a failed    *)
(* call, or counts of rounds that differ because they were never set.           *)
Termination == <>(faults > 0 \/ \A n \in nodes : exited(n))
=============================================================================
