-------------------------------- MODULE YmpiApp --------------------------------
(***************************************************************************)
(* Programs of the repository running on the messaging core: each rank     *)
(* executes a fixed list of library calls and MPI barriers, one after the  *)
(* other, and stops.  The question is whether they all get to the end.     *)
(*                                                                         *)
(* Fairness: while any process or HCA can take a step, one of them does.   *)
(* Nothing is promised to a particular sender that waits for a buffer.     *)
(* This is enough because no step is idle: an empty poll is no step.       *)
(***************************************************************************)
EXTENDS Ympi

CONSTANT Programs     \* the programs that may run

VARIABLES
  program,            \* program[p]: the calls of rank p, in order
  ip                  \* the index of the next call of each rank

appvars == <<vars, program, ip>>

Send(q) == [call |-> "YMPI_Zsend", peer |-> q]
Write(q) == [call |-> "YMPI_Write", peer |-> q]
Receive(q) == [call |-> "YMPI_Zrecv", peer |-> q]
Flush == [call |-> "YMPI_Zflush"]
Return == [call |-> "YMPI_Return"]
Barrier == [call |-> "MPI_Barrier"]

AppInit == Init /\ program \in Programs /\ ip = [p \in Proc |-> 1]

Running(p) == ip[p] <= Len(program[p])

NextCall(p) == program[p][ip[p]].call

AppCall(p) ==
  LET op == program[p][ip[p]] IN
  /\ Running(p)
  /\ \/ NextCall(p) = "YMPI_Zsend" /\ YMPI_Zsend(p, op.peer)
     \/ NextCall(p) = "YMPI_Write" /\ YMPI_Write(p, op.peer)
     \/ NextCall(p) = "YMPI_Zrecv" /\ YMPI_Zrecv(p, op.peer)
     \/ NextCall(p) = "YMPI_Zflush" /\ YMPI_Zflush(p)
     \/ NextCall(p) = "YMPI_Return" /\ YMPI_Return(p)
  /\ ip' = [ip EXCEPT ![p] = @ + 1]
  /\ UNCHANGED program

AppStep(p) == Step(p) /\ UNCHANGED <<program, ip>>

AppHca(p) == Hca(p) /\ UNCHANGED <<program, ip>>

AllAtBarrier == \A p \in Proc : Running(p) /\ NextCall(p) = "MPI_Barrier" /\ At(p, "idle")

\* MPI_Barrier(MPI_COMM_WORLD): all ranks are there.
AppBarrier == /\ AllAtBarrier
              /\ ip' = [p \in Proc |-> ip[p] + 1]
              /\ UNCHANGED <<vars, program>>

\* Every rank is at the end of its program; what is in flight is still delivered.
Finished == \A p \in Proc : ~ Running(p) /\ At(p, "idle")

AppNext == \/ \E p \in Proc : AppCall(p) \/ AppStep(p) \/ AppHca(p)
           \/ AppBarrier

AppSafety == AppInit /\ [][AppNext]_appvars

AppSpec == AppSafety /\ WF_appvars(AppNext)

--------------------------------------------------------------------------------
(* The programs.  Ranks are 0 .. NumProcs - 1. *)

NumProcs == Cardinality(Proc)

\* s, n times over.
Times(n, s) == [i \in 1 .. n * Len(s) |-> s[((i - 1) % Len(s)) + 1]]

\* The other ranks in the order of for(q=(rank+1)%np; q!=rank; q=(q+1)%np).
Others(p) == [i \in 1 .. NumProcs - 1 |-> (p + i) % NumProcs]

Over(s, Op(_)) == [i \in 1 .. Len(s) |-> Op(s[i])]

\* The point-to-point test of test_ympi.c and the calls up to the next test.
TestPointToPoint(iters) ==
  [p \in Proc |->
     (IF p = 0 THEN Times(iters, Times(MaxSendWr, <<Send(1)>>) \o <<Flush>>)
               ELSE Times(iters, Times(MaxSendWr, <<Receive(0)>>) \o <<Return>>))
     \o <<Flush, Barrier>>]

\* The RDMA write test of test_ympi.c: total_io writes, a flush and the write of the
\* signal word.  (What rank 1 does meanwhile makes no library call.)
TestWrite(total_io) ==
  [p \in Proc |-> (IF p = 0 THEN Times(total_io, <<Write(1)>>) \o <<Flush, Write(1)>> ELSE <<>>)
                  \o <<Flush, Barrier>>]

\* do_fanin of ympi_fan.c: rank 0 receives in the order of the ranks, no barrier
\* between rounds.
FanIn(iter) ==
  [p \in Proc |-> Times(iter, IF p = 0 THEN Over(Others(0), Receive) \o <<Return>>
                                       ELSE <<Send(0), Flush>>) \o <<Barrier>>]

\* do_fanout of ympi_fan.c: rank 0 may be rounds ahead of the receivers.
FanOut(iter) ==
  [p \in Proc |-> Times(iter, IF p = 0 THEN Over(Others(0), Send) \o <<Flush>>
                                       ELSE <<Receive(0), Return>>) \o <<Barrier>>]

Ping == <<Send(1), Flush, Receive(1)>>
Pong == <<Receive(0), Send(0), Flush>>

\* do_pingpong of ympi_fan.c, on ranks 0 and 1: no buffer is returned until the first
\* all-put-all round that follows.  (The sizes and iterations make 128 rounds, half of
\* the buffers.)
PingPong(rounds) ==
  [p \in Proc |-> (CASE p = 0 -> Times(rounds, Ping)
                     [] p = 1 -> Times(rounds, Pong)
                     [] OTHER -> <<>>) \o <<Barrier>>]

\* do_pingpong of ympi_latency.c: the buffer is returned in each round, a barrier before.
Latency(iter) ==
  [p \in Proc |-> Times(iter, <<Barrier>> \o (IF p = 0 THEN Ping ELSE Pong) \o <<Return>>)
                  \o <<Barrier>>]

\* One program after another.
Then(a, b) == [p \in Proc |-> a[p] \o b[p]]

\* do_allputall of ympi_fan.c and ympi_allputall.c: no barrier between rounds.
Allputall(iter) ==
  [p \in Proc |-> Times(iter, Over(Others(p), Send) \o <<Flush>>
                              \o Over(Others(p), Receive) \o <<Return>>) \o <<Barrier>>]

\* The rounds of osu_ympi_zalltoall.c: a barrier after each.
ZAlltoall(iterations) ==
  [p \in Proc |-> Times(iterations, Over(Others(p), Send) \o Over(Others(p), Receive)
                                    \o <<Flush, Return, Barrier>>)]

--------------------------------------------------------------------------------
(***************************************************************************)
(* The program comes to its end on every rank: no rank polls for ever in   *)
(* Zsend, Zflush or Zrecv.                                                 *)
(***************************************************************************)
Termination == <>Finished

\* p is waiting for a completion that is not there, for the other ranks, or is done.
Waits(p) == \/ Polling(p) /\ Completions(p) = {}
            \/ At(p, "idle") /\ (Running(p) => NextCall(p) = "MPI_Barrier")

\* No HCA can do anything for QP p -> q: what remains are sends without a vbuf.
Quiet(p, q) == done[p][q] < Len(sq[p][q]) =>
                 sq[p][q][done[p][q] + 1].kind = "send" /\ srq[q] = {}

(***************************************************************************)
(* Never is everyone waiting for everyone: ranks for messages that no vbuf *)
(* is left for, because all of them hold messages nobody asks for yet.     *)
(* (Programs are finite and every step of the model makes progress, so     *)
(* this is Termination without the cost of checking it.)                   *)
(***************************************************************************)
NeverStuck ==
  (\A p, q \in Proc : Waits(p) /\ Quiet(p, q)) => AllAtBarrier \/ Finished

(***************************************************************************)
(* "receive one message from the source" (YMPI_Zrecv in include/ympi.h):   *)
(* a rank that asks for a message its source has sent gets it, whatever    *)
(* the other ranks send.                                                   *)
(***************************************************************************)
ReceiveReturns ==
  \A p, q \in Proc :
    (At(p, "recv") /\ source[p] = q /\ Len(got[p][q]) < sent[q][p]) ~> ~ At(p, "recv")

(***************************************************************************)
(* No posting call of the program returns -1 (test_ympi.c asserts so for   *)
(* YMPI_Zsend, line 43, and ignores the result of YMPI_Write): the throttle*)
(* keeps the send queue from filling up.                                   *)
(***************************************************************************)
PostsSucceed == \A p \in Proc : ret[p] = 0

(***************************************************************************)
(* At the end everything sent has been returned by YMPI_Zrecv, in order    *)
(* and in full (lines 62-63 of test_ympi.c and the counts of               *)
(* test_ympi_coll.c), and every vbuf is back in the SRQ.                   *)
(***************************************************************************)
AllReceived ==
  Finished => \A p, q \in Proc :
                /\ got[q][p] = [i \in 1 .. sent[p][q] |-> Channel!Message(p, i)]
                /\ srq[p] = Vbuf
--------------------------------------------------------------------------------
(* What the programs above have in common, and the properties rest on. *)

Operation == {Send(q) : q \in Proc} \cup {Write(q) : q \in Proc} \cup {Receive(q) : q \in Proc}
               \cup {Flush, Return, Barrier}

Posts(op, q) == op = Send(q) \/ op = Write(q)

\* How often op is called before the i-th call of s.
Made(s, i, op) == Cardinality({j \in 1 .. i - 1 : s[j] = op})

\* The calls before the i-th that post to q and that no flush follows.
Unflushed(s, i, q) ==
  {j \in 1 .. i - 1 : Posts(s[j], q) /\ \A k \in j + 1 .. i - 1 : s[k] # Flush}

\* The calls before the i-th that receive a message, which no YMPI_Return follows.
Unreturned(s, i) ==
  {j \in 1 .. i - 1 : /\ \E q \in Proc : s[j] = Receive(q)
                      /\ \A k \in j + 1 .. i - 1 : s[k] # Return}

\* No more is posted to a rank between two flushes than its send queue holds.
FlushesInTime(s) ==
  \A q \in Proc, i \in 1 .. Len(s) + 1 : Cardinality(Unflushed(s, i, q)) <= SqDepth

Targets(s, q) == \E i \in 1 .. Len(s) : Posts(s[i], q)

\* p posts to one rank only, and no completion of a message from another comes between:
\* the throttle of p finds completions of the QP it waits for.
OneWay(prog, p) ==
  /\ \A q, r \in Proc : Targets(prog[p], q) /\ Targets(prog[p], r) => q = r
  /\ \A r \in Proc : \A i \in 1 .. Len(prog[r]) : prog[r][i] # Send(p)

Throttled(prog) == \A p \in Proc : FlushesInTime(prog[p]) \/ OneWay(prog, p)

\* Whatever is sent is asked for, and given back.
Matched(prog) ==
  /\ \A p, q \in Proc : Made(prog[p], Len(prog[p]) + 1, Send(q))
                           = Made(prog[q], Len(prog[q]) + 1, Receive(p))
  /\ \A p \in Proc : Unreturned(prog[p], Len(prog[p]) + 1) = {}

\* The ranks are before the calls with the indices v; those in busy are still in the
\* call before that.

\* What the ranks S sent to p and p did not ask for.
Backlog(prog, v, p, S) ==
  UNION {{q} \X (Made(prog[p], v[p], Receive(q)) + 1 .. Made(prog[q], v[q], Send(p))) : q \in S}

\* The vbufs of p suffice for what it did not return and for what S may have sent.
Room(prog, v, p, S) ==
  Cardinality(Unreturned(prog[p], v[p])) + Cardinality(Backlog(prog, v, p, S)) <= PrepostDepth

\* The call that p is in need not come to its end: nobody sent what it asks for or other
\* messages take the vbufs, or the vbufs of a rank it sends to are taken.
Stalls(prog, v, p) ==
  LET op == prog[p][v[p] - 1] IN
  \/ \E q \in Proc : /\ op = Receive(q)
                     /\ \/ Made(prog[q], v[q], Send(p)) < Made(prog[p], v[p], Receive(q))
                        \/ ~ Room(prog, v, p, Proc \ {q})
  \/ /\ op = Flush \/ \E q \in Proc : Posts(op, q)
     /\ \E q \in Proc : Made(prog[p], v[p], Send(q)) > 0 /\ ~ Room(prog, v, q, Proc)

AtBarrier(prog, v, p) == v[p] <= Len(prog[p]) /\ prog[p][v[p]] = Barrier
AtEnd(prog, v, p) == v[p] = Len(prog[p]) + 1

\* Every rank passed the same number of barriers, and received only what was sent.
InStep(prog, v, busy) ==
  /\ \A p, q \in Proc : Made(prog[p], v[p], Barrier) = Made(prog[q], v[q], Barrier)
  /\ \A p, q \in Proc : Made(prog[p], IF p \in busy THEN v[p] - 1 ELSE v[p], Receive(q))
                           <= Made(prog[q], v[q], Send(p))

Indices(prog) ==
  {v \in [Proc -> UNION {1 .. Len(prog[p]) + 1 : p \in Proc}] :
     \A p \in Proc : v[p] <= Len(prog[p]) + 1}

\* Unless all ranks are at a barrier or at the end, one of them is in a call that comes
\* to its end, or before one that is no barrier.
KeepsGoing(prog) ==
  \A v \in Indices(prog), busy \in SUBSET Proc :
    (/\ InStep(prog, v, busy)
     /\ \A p \in busy : v[p] > 1 /\ Stalls(prog, v, p)
     /\ \A p \in Proc \ busy : AtBarrier(prog, v, p) \/ AtEnd(prog, v, p))
    => \/ busy = {} /\ \A p \in Proc : AtBarrier(prog, v, p)
       \/ busy = {} /\ \A p \in Proc : AtEnd(prog, v, p)
================================================================================
