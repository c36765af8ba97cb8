------------------------------ MODULE RxWindow ------------------------------
(* The receive window of src/iballputall.c, from which YMPI grew: receive       *)
(* buffers are posted to a shared queue in a circle and are expected back in    *)
(* that order. Two ranks first run the message rate benchmark, in which every   *)
(* message is waited for, then rounds in which a rank waits only for its own    *)
(* sends and a barrier. How the queues are set up is in MpiSetup.               *)
EXTENDS Naturals, Sequences, FiniteSets

CONSTANTS W,        \* MAX_SRQ_WR, and the sends a round goes through (1024)
          Counts,   \* message counts of the benchmark (1, 2, 4, .. 512)
          Iters,    \* rounds of the main loop (iters + skip)
          Batch,    \* completions of one poll (64)
          Room      \* entries that the SRQ has in excess of W

ASSUME WindowAssumption == W \in Nat /\ W >= 2
ASSUME CountsAssumption == Counts \in Seq(1 .. W \div 2)
ASSUME ItersAssumption == Iters \in Nat \ {0}
ASSUME BatchAssumption == Batch \in Nat \ {0}
ASSUME RoomAssumption == Room \in 0 .. W

Rank == {0, 1}
Slot == 0 .. W - 1
other(r) == 1 - r

VARIABLES ctx,     \* each process: its window and its loop
          dev,     \* each HCA
          stale    \* ranks that flushed a full window and have old entries posted

vars == <<ctx, dev, stale>>

Wc == [op : {"send"}] \cup [op : {"recv"}, id : Slot]

Context == [pc : {"post", "loop", "handle", "flush", "barrier", "done", "failed"},
            idx : Slot, len : 0 .. W,  \* ctx->rx_win
            list : Seq(Slot),          \* wr_id of the entries of ctx->recv_wr_list
            todo : Seq(Wc),            \* wc[i] .. wc[ne-1]
            round : Nat,               \* of the benchmark, then of the main loop
            scnt : Nat, rcnt : Nat,
            barriers : Nat]            \* barriers entered

Device == [srq : Seq(Slot),            \* receives posted
           wire : Nat,                 \* sends posted and not delivered
           acks : Nat,                 \* sends delivered and not yet in the CQ
           cq : Seq(Wc)]

Init ==
  /\ ctx = [r \in Rank |-> [pc |-> "post", idx |-> 0, len |-> W, list |-> [i \in 1 .. W |-> i - 1],
                            todo |-> <<>>, round |-> 1, scnt |-> 0, rcnt |-> 0, barriers |-> 0]]
  /\ dev = [r \in Rank |-> [srq |-> [i \in 1 .. W |-> i - 1], wire |-> 0, acks |-> 0,
                            cq |-> <<>>]]
  /\ stale = {}

benchmark(r) == ctx[r].round <= Len(Counts)
rounds == Len(Counts) + Iters

(* The sends of a round. In the main loop every second one of the W would go to *)
(* the rank itself and is left out.                                             *)
num_sent(r) == IF benchmark(r) THEN Counts[ctx[r].round] ELSE W \div 2

(****************************************************************************)
(* The window.                                                               *)
(****************************************************************************)
(* Mutant: from the start of the window.                                        *)
refill_ids_from_start(idx, len) == [i \in 1 .. W - len |-> (idx + i - 1) % W]

(* pp_post_recv_refill: the ids posted, from the end of the window round to its *)
(* start.                                                                       *)
refill_ids(idx, len) == [i \in 1 .. W - len |-> (idx + len + i - 1) % W]

Refilled(c) ==
  LET ids == refill_ids(c.idx, c.len)
  IN [c EXCEPT !.len = W, !.list = ids \o SubSeq(@, Len(ids) + 1, W)]

(* Mutants: the index does not wrap; the message is not counted.                *)
Received_unwrapped(c) == [c EXCEPT !.idx = @ + 1, !.len = @ - 1, !.rcnt = @ + 1]
Received_uncounted(c) == [c EXCEPT !.idx = (@ + 1) % W, !.len = @ - 1]

(* pp_on_recv, when the assertion holds.                                        *)
Received(c) == [c EXCEPT !.idx = (@ + 1) % W, !.len = @ - 1, !.rcnt = @ + 1]

(****************************************************************************)
(* A rank.                                                                   *)
(****************************************************************************)
(* pp_post_send_rank_count, pp_post_send_1024.                                  *)
pp_post_send(r) ==
  /\ ctx[r].pc = "post"
  /\ ctx' = [ctx EXCEPT ![r].pc = "loop", ![r].scnt = 0, ![r].rcnt = 0]
  /\ dev' = [dev EXCEPT ![r].wire = @ + num_sent(r)]
  /\ UNCHANGED stale

all_counted(r) == benchmark(r) /\ ctx[r].scnt = num_sent(r) /\ ctx[r].rcnt = num_sent(r)

poll_cq(r) ==
  /\ ctx[r].pc = "loop" /\ ~all_counted(r) /\ dev[r].cq # <<>>
  /\ LET ne == IF Len(dev[r].cq) < Batch THEN Len(dev[r].cq) ELSE Batch
     IN /\ ctx' = [ctx EXCEPT ![r].pc = "handle", ![r].todo = SubSeq(dev[r].cq, 1, ne)]
        /\ dev' = [dev EXCEPT ![r].cq = SubSeq(@, ne + 1, Len(@))]
  /\ UNCHANGED stale

(* The rest of the batch, or back to the loop.                                  *)
handled(c) ==
  [c EXCEPT !.todo = Tail(@), !.pc = IF Len(c.todo) > 1 THEN "handle" ELSE "loop"]

(* The last of its sends makes a rank enter the barrier of a main round.        *)
on_send(r) ==
  /\ ctx[r].pc = "handle" /\ Head(ctx[r].todo).op = "send"
  /\ LET scnt == ctx[r].scnt + 1
         enters == ~benchmark(r) /\ scnt = num_sent(r)
         barriers == IF enters THEN ctx[r].barriers + 1 ELSE ctx[r].barriers
     IN ctx' = [ctx EXCEPT ![r] = [handled(@) EXCEPT !.scnt = scnt, !.barriers = barriers]]
  /\ UNCHANGED <<dev, stale>>

(* The assertion fails, or the window is one shorter, and when it is empty all  *)
(* buffers are posted again.                                                    *)
pp_on_recv(r) ==
  /\ ctx[r].pc = "handle" /\ Head(ctx[r].todo).op = "recv"
  /\ LET c == Received(ctx[r])
     IN IF Head(ctx[r].todo).id # ctx[r].idx
        THEN ctx' = [ctx EXCEPT ![r].pc = "failed"] /\ UNCHANGED dev
        ELSE IF c.len = 0
        THEN /\ ctx' = [ctx EXCEPT ![r] = handled(Refilled(c))]
             /\ dev' = [dev EXCEPT ![r].srq = @ \o refill_ids(c.idx, 0)]
        ELSE ctx' = [ctx EXCEPT ![r] = handled(c)] /\ UNCHANGED dev
  /\ UNCHANGED stale

(* The benchmark has counted all, or MPI_Test finds that both ranks are in the  *)
(* barrier: the loop is left with whatever is still in the CQ.                  *)
leave_loop(r) ==
  /\ ctx[r].pc = "loop"
  /\ \/ all_counted(r)
     \/ /\ ~benchmark(r) /\ ctx[r].scnt = num_sent(r)
        /\ ctx[other(r)].barriers >= ctx[r].barriers
  /\ ctx' = [ctx EXCEPT ![r].pc = "flush"]
  /\ UNCHANGED <<dev, stale>>

(* Where a flush leads: to the next round, or to the barrier after a count of   *)
(* the benchmark or after the last round.                                       *)
after_flush(r, c) ==
  IF benchmark(r) THEN [c EXCEPT !.pc = "barrier", !.barriers = @ + 1]
  ELSE IF c.round = rounds THEN [c EXCEPT !.pc = "barrier", !.barriers = @ + 1, !.round = @ + 1]
  ELSE [c EXCEPT !.pc = "post", !.round = @ + 1]

(* Mutants: the buffers are posted and rx_win is left as it was; or they are    *)
(* not posted.                                                                  *)
pp_on_flush_unnoted(r) ==
  /\ ctx[r].pc = "flush" /\ ctx[r].len < W
  /\ ctx' = [ctx EXCEPT ![r] = after_flush(r, @)]
  /\ dev' = [dev EXCEPT ![r].srq = @ \o refill_ids(ctx[r].idx, ctx[r].len)]
  /\ UNCHANGED stale

pp_on_flush_lazy(r) ==
  /\ ctx[r].pc = "flush" /\ ctx[r].len < W
  /\ ctx' = [ctx EXCEPT ![r] = after_flush(r, @)]
  /\ UNCHANGED <<dev, stale>>

(* pp_on_flush with part of the window used.                                    *)
pp_on_flush(r) ==
  /\ ctx[r].pc = "flush" /\ ctx[r].len < W
  /\ ctx' = [ctx EXCEPT ![r] = after_flush(r, Refilled(@))]
  /\ dev' = [dev EXCEPT ![r].srq = @ \o refill_ids(ctx[r].idx, ctx[r].len)]
  /\ UNCHANGED stale

(* pp_on_flush with the whole window still posted: nothing is to be posted,     *)
(* recv_wr_list[-1] is written, and the list is posted as it was left, as far   *)
(* as the SRQ, which may be larger than asked for, has room. The write hits     *)
(* what lies before the array: the process goes on, or dies. (Bound: old        *)
(* entries are posted once.)                                                    *)
pp_on_flush_full(r) ==
  /\ ctx[r].pc = "flush" /\ ctx[r].len = W
  /\ \/ \E k \in 0 .. (IF stale = {} THEN Room ELSE 0) :
          /\ ctx' = [ctx EXCEPT ![r] = after_flush(r, @)]
          /\ dev' = [dev EXCEPT ![r].srq = @ \o SubSeq(ctx[r].list, 1, k)]
          /\ stale' = IF k = 0 THEN stale ELSE stale \cup {r}
     \/ /\ ctx' = [ctx EXCEPT ![r].pc = "failed"]
        /\ stale' = stale \cup {r}
        /\ UNCHANGED dev

(* MPI_Barrier after each count of the benchmark and after the last round.      *)
leave_barrier(r) ==
  /\ ctx[r].pc = "barrier" /\ ctx[other(r)].barriers >= ctx[r].barriers
  /\ ctx' = [ctx EXCEPT
       ![r].pc = IF benchmark(r) /\ ctx[r].round < rounds THEN "post" ELSE "done",
       ![r].round = IF benchmark(r) THEN @ + 1 ELSE @]
  /\ UNCHANGED <<dev, stale>>

(****************************************************************************)
(* An HCA. A message takes the oldest receive of the other side, whose         *)
(* completion is there before the sender's. With no receive it waits.         *)
(****************************************************************************)
hca_deliver(r) ==
  /\ dev[r].wire > 0 /\ dev[other(r)].srq # <<>>
  /\ LET wc == [op |-> "recv", id |-> Head(dev[other(r)].srq)]
     IN dev' = [dev EXCEPT ![r].wire = @ - 1, ![r].acks = @ + 1,
                           ![other(r)].srq = Tail(@), ![other(r)].cq = Append(@, wc)]
  /\ UNCHANGED <<ctx, stale>>

hca_complete(r) ==
  /\ dev[r].acks > 0
  /\ dev' = [dev EXCEPT ![r].acks = @ - 1, ![r].cq = Append(@, [op |-> "send"])]
  /\ UNCHANGED <<ctx, stale>>

Next == \E r \in Rank :
  \/ pp_post_send(r) \/ poll_cq(r) \/ on_send(r) \/ pp_on_recv(r) \/ leave_loop(r)
  \/ pp_on_flush(r) \/ pp_on_flush_full(r) \/ leave_barrier(r)
  \/ hca_deliver(r) \/ hca_complete(r)

Spec == Init /\ [][Next]_vars /\ WF_vars(Next)

(****************************************************************************)
(* Properties.                                                               *)
(****************************************************************************)
(* The window and the queues have their types.                                  *)
TypeOK ==
  /\ ctx \in [Rank -> Context]
  /\ dev \in [Rank -> Device]
  /\ stale \subseteq Rank

(* Completions that r has not handled, the oldest first.                        *)
unhandled(r) == IF ctx[r].pc = "handle" THEN ctx[r].todo \o dev[r].cq ELSE dev[r].cq

(* The receives among the first n completions of s.                             *)
recvs(s, n) == {j \in 1 .. n : s[j].op = "recv"}
nrecvs(s, n) == Cardinality(recvs(s, n))

(* rx_win describes what the HCA holds: the window of len buffers from idx, in  *)
(* order, the first of them in completions and the rest still posted. It is what *)
(* the assertion of pp_on_recv (line 324) relies on, across refills, flushes and *)
(* completions that one round leaves to the next.                               *)
slot(r, k) == (ctx[r].idx + k) % W

WindowTracks == \A r \in Rank :
  ctx[r].pc # "failed" /\ r \notin stale =>
    LET back == unhandled(r)
        n == nrecvs(back, Len(back))
    IN /\ \A i \in recvs(back, Len(back)) : back[i].id = slot(r, nrecvs(back, i - 1))
       /\ \A i \in DOMAIN dev[r].srq : dev[r].srq[i] = slot(r, n + i - 1)
       /\ n + Len(dev[r].srq) = ctx[r].len

(* A message waits for a receive only at a rank that is a round behind its      *)
(* sender: that rank needs nothing more to leave its round, and flushes. So two *)
(* ranks never wait for each other, though receives are posted again only at    *)
(* the end of a round (lines 1011-1031) or of the window.                       *)
WaitsOnlyAtLaggard == \A r \in Rank :
  /\ dev[r].wire > 0 /\ dev[other(r)].srq = <<>>
  /\ stale = {}
  => ctx[other(r)].round < ctx[r].round

(* The assertion fails in no rank but one that flushed a full window.           *)
FailsOnlyAfterFullFlush == \A r \in Rank : ctx[r].pc = "failed" => r \in stale

(* The benchmark and the rounds end, unless a rank dies.                        *)
Termination == <>((\A r \in Rank : ctx[r].pc = "done") \/ stale # {})
=============================================================================
