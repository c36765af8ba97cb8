------------------------------ MODULE YmpiThreads ------------------------------
(***************************************************************************)
(* Several threads of one process on one context, as the test1_server      *)
(* threads of benchmark/inbound_outbound_assymetry.c run: each repeats     *)
(* YMPI_Write and YMPI_Zflush.  There are two ranks, so every write goes   *)
(* to rank 1 and there is one QP.                                          *)
(*                                                                         *)
(* ibv_post_send and ibv_poll_cq are atomic (the verbs library locks its   *)
(* queues).  The counters are not: with ATOMIC_PENDING_SEND_WR 0, the      *)
(* value in the source, ATOMIC_INC is ++, a load and a store.  A           *)
(* configuration is a value of the macro and the threads that are started. *)
(***************************************************************************)
EXTENDS Integers, Sequences, FiniteSets

CONSTANTS
  Thread,      \* the threads of pthread_create
  Iters,       \* iterations of each thread
  Configs,     \* configurations, among those below
  MaxSendWr,   \* YMPI_MAX_SEND_WR_PER_QP
  SqDepth,     \* send queue entries of the QP
  PollBatch    \* the array length wc[64]

ASSUME ThreadsAssumption ==
  /\ IsFiniteSet(Thread)
  /\ Iters \in Nat
  /\ Configs \subseteq [atomic : BOOLEAN, started : SUBSET Thread]
  /\ MaxSendWr \in Nat \ {0} /\ SqDepth \in Nat /\ SqDepth >= MaxSendWr
  /\ PollBatch \in Nat \ {0}

VARIABLES
  atomic,    \* ATOMIC_PENDING_SEND_WR
  qp_pending_send_wr, pending_send_wr,  \* the context's counters
  sq,        \* WRs not polled yet, oldest first: the thread that posted each
  done,      \* how many of sq took effect and have a completion in the CQ
  pc,        \* where each thread is
  reg,       \* what it loaded for a ++ or --
  polling,   \* the loop it processes completions for: "throttle" or "flush"
  ne,        \* completions it polled and has not processed
  iter       \* iterations left

vars == <<atomic, qp_pending_send_wr, pending_send_wr, sq, done, pc, reg, polling, ne, iter>>
counters == <<qp_pending_send_wr, pending_send_wr>>

Labels == {"write", "inc_qp", "inc_all", "throttle", "flush", "dec_qp", "dec_all", "joined"}

TypeOK == /\ atomic \in BOOLEAN
          /\ qp_pending_send_wr \in Int /\ pending_send_wr \in Int
          /\ sq \in Seq(Thread)
          /\ done \in 0 .. Len(sq)
          /\ pc \in [Thread -> Labels]
          /\ reg \in [Thread -> [loaded : BOOLEAN, value : Int]]
          /\ polling \in [Thread -> {"throttle", "flush"}]
          /\ ne \in [Thread -> 0 .. PollBatch]
          /\ iter \in [Thread -> 0 .. Iters]

Init == /\ qp_pending_send_wr = 0 /\ pending_send_wr = 0
        /\ sq = <<>> /\ done = 0
        /\ \E c \in Configs :
             /\ atomic = c.atomic
             /\ pc = [t \in Thread |-> IF t \in c.started /\ Iters > 0 THEN "write" ELSE "joined"]
        /\ reg = [t \in Thread |-> [loaded |-> FALSE, value |-> 0]]
        /\ polling = [t \in Thread |-> "flush"]
        /\ ne = [t \in Thread |-> 0]
        /\ iter = [t \in Thread |-> Iters]

Goto(t, label) == pc' = [pc EXCEPT ![t] = label]

\* The load of a ++ or --, when it is one.
load(t, counter) ==
  /\ ~ atomic /\ ~ reg[t].loaded
  /\ reg' = [reg EXCEPT ![t] = [loaded |-> TRUE, value |-> counter]]
  /\ UNCHANGED <<counters, sq, done, pc, polling, ne, iter>>

\* The counter's new value: the store of a ++ or --, or the atomic operation.
Stored(t, counter, change) == IF atomic THEN counter + change ELSE reg[t].value + change

store(t) == /\ atomic \/ reg[t].loaded
            /\ reg' = [reg EXCEPT ![t] = [loaded |-> FALSE, value |-> 0]]

--------------------------------------------------------------------------------
(* YMPI_Write *)

\* ibv_post_send; if it fails the call returns and test1_server goes on to flush.
post(t) ==
  /\ pc[t] = "write"
  /\ IF Len(sq) < SqDepth THEN sq' = Append(sq, t) /\ Goto(t, "inc_qp")
                          ELSE sq' = sq /\ Goto(t, "flush")
  /\ polling' = [polling EXCEPT ![t] = "flush"]
  /\ UNCHANGED <<counters, done, reg, ne, iter>>

\* qp_send_wr = ATOMIC_INC(ctx->qp_pending_send_wr[dest])
inc_qp(t) ==
  LET value == Stored(t, qp_pending_send_wr, 1) IN
  /\ pc[t] = "inc_qp"
  /\ store(t)
  /\ qp_pending_send_wr' = value
  /\ polling' = [polling EXCEPT ![t] = IF value = MaxSendWr THEN "throttle" ELSE "flush"]
  /\ Goto(t, "inc_all")
  /\ UNCHANGED <<pending_send_wr, sq, done, ne, iter>>

\* Mutant: only the counter of the QP is incremented.
inc_all_forgotten(t) ==
  /\ pc[t] = "inc_all"
  /\ store(t)
  /\ Goto(t, polling[t])
  /\ UNCHANGED <<counters, sq, done, polling, ne, iter>>

\* ATOMIC_INC(ctx->pending_send_wr), and whether to throttle.
inc_all(t) ==
  /\ pc[t] = "inc_all"
  /\ store(t)
  /\ pending_send_wr' = Stored(t, pending_send_wr, 1)
  /\ Goto(t, polling[t])
  /\ UNCHANGED <<qp_pending_send_wr, sq, done, polling, ne, iter>>

--------------------------------------------------------------------------------
(* The polling loops of YMPI_Write and YMPI_Zflush *)

\* ibv_poll_cq hands n completions to this thread, whoever posted their WRs.
poll(t) ==
  /\ \/ pc[t] = "throttle"
     \/ pc[t] = "flush" /\ pending_send_wr > 0
  /\ \E n \in 1 .. PollBatch :
       /\ n <= done
       /\ ne' = [ne EXCEPT ![t] = n]
       /\ sq' = SubSeq(sq, n + 1, Len(sq))
       /\ done' = done - n
  /\ Goto(t, "dec_qp")
  /\ UNCHANGED <<counters, reg, polling, iter>>

\* process_wc: ATOMIC_DEC(ctx->qp_pending_send_wr[qp_id])
dec_qp(t) ==
  /\ pc[t] = "dec_qp"
  /\ store(t)
  /\ qp_pending_send_wr' = Stored(t, qp_pending_send_wr, -1)
  /\ Goto(t, "dec_all")
  /\ UNCHANGED <<pending_send_wr, sq, done, polling, ne, iter>>

\* process_wc: ATOMIC_DEC(ctx->pending_send_wr).  After the last completion of the
\* batch the throttle loop is over, and YMPI_Zflush evaluates its condition.
dec_all(t) ==
  /\ pc[t] = "dec_all"
  /\ store(t)
  /\ pending_send_wr' = Stored(t, pending_send_wr, -1)
  /\ ne' = [ne EXCEPT ![t] = @ - 1]
  /\ Goto(t, IF ne[t] > 1 THEN "dec_qp" ELSE "flush")
  /\ polling' = [polling EXCEPT ![t] = IF ne[t] > 1 THEN @ ELSE "flush"]
  /\ UNCHANGED <<qp_pending_send_wr, sq, done, iter>>

\* Mutant: YMPI_Zflush does not wait.
flush_return_early(t) ==
  /\ pc[t] = "flush"
  /\ iter' = [iter EXCEPT ![t] = @ - 1]
  /\ Goto(t, IF iter[t] = 1 THEN "joined" ELSE "write")
  /\ UNCHANGED <<counters, sq, done, reg, polling, ne>>

\* Mutant: the loop's condition is pending_send_wr >= 0.
flush_return_never(t) ==
  /\ pc[t] = "flush"
  /\ ~ (pending_send_wr >= 0)
  /\ iter' = [iter EXCEPT ![t] = @ - 1]
  /\ Goto(t, IF iter[t] = 1 THEN "joined" ELSE "write")
  /\ UNCHANGED <<counters, sq, done, reg, polling, ne>>

\* Mutant: one iteration too many.
flush_return_again(t) ==
  /\ pc[t] = "flush"
  /\ ~ (pending_send_wr > 0)
  /\ iter' = [iter EXCEPT ![t] = @ - 1]
  /\ Goto(t, IF iter[t] = 0 THEN "joined" ELSE "write")
  /\ UNCHANGED <<counters, sq, done, reg, polling, ne>>

\* YMPI_Zflush returns, and the loop of test1_server goes on or ends.
flush_return(t) ==
  /\ pc[t] = "flush"
  /\ ~ (pending_send_wr > 0)
  /\ iter' = [iter EXCEPT ![t] = @ - 1]
  /\ Goto(t, IF iter[t] = 1 THEN "joined" ELSE "write")
  /\ UNCHANGED <<counters, sq, done, reg, polling, ne>>

\* The HCA executes the next WR.
hca_complete == /\ done < Len(sq)
                /\ done' = done + 1
                /\ UNCHANGED <<atomic, counters, sq, pc, reg, polling, ne, iter>>

Step(t) == /\ \/ post(t)
              \/ pc[t] \in {"inc_qp", "dec_qp"} /\ load(t, qp_pending_send_wr)
              \/ pc[t] \in {"inc_all", "dec_all"} /\ load(t, pending_send_wr)
              \/ inc_qp(t)
              \/ inc_all(t)
              \/ poll(t)
              \/ dec_qp(t)
              \/ dec_all(t)
              \/ flush_return(t)
           /\ UNCHANGED atomic

Next == (\E t \in Thread : Step(t)) \/ hca_complete

Spec == /\ Init /\ [][Next]_vars
        /\ \A t \in Thread : WF_vars(Step(t))
        /\ WF_vars(hca_complete)

--------------------------------------------------------------------------------
\* Thread t is at a boundary between calls, or waits in one for a completion.
Settled(t) == pc[t] \in {"write", "throttle", "flush", "joined"}

(***************************************************************************)
(* "pending_send_wr ... keep[s] track on the number of unsettled sending   *)
(* operations" (lines 17-19): whenever no thread is halfway through        *)
(* counting, the counters are the number of WRs not polled.                *)
(***************************************************************************)
CountersTrack ==
  (\A t \in Thread : Settled(t)) =>
    pending_send_wr = Len(sq) /\ qp_pending_send_wr = Len(sq)

(***************************************************************************)
(* "this call assures that send has completed" (line 883): when a thread's *)
(* YMPI_Zflush returns, the write it issued before has taken effect.       *)
(***************************************************************************)
FlushCompletes ==
  [][\A t \in Thread :
       pc[t] = "flush" /\ pc'[t] \in {"write", "joined"} =>
         \A i \in done + 1 .. Len(sq) : sq[i] # t]_vars

(***************************************************************************)
(* When all threads are joined no write is outstanding, so the YMPI_Dealloc*)
(* that follows does not free memory the HCA still reads.                  *)
(***************************************************************************)
DeallocSafe == (\A t \in Thread : pc[t] = "joined") => sq = <<>>

(***************************************************************************)
(* Every thread gets through its iterations: none polls for a completion   *)
(* that another thread has taken.                                          *)
(***************************************************************************)
AllJoin == <>(\A t \in Thread : pc[t] = "joined")
================================================================================
