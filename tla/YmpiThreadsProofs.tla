--------------------------- MODULE YmpiThreadsProofs ---------------------------
(***************************************************************************)
(* Proofs about several threads on one context, for any number of threads, *)
(* iterations, queue sizes and batches.  Where the counters are right,     *)
(* that is when ATOMIC_INC is atomic or only one thread was started, they  *)
(* are never off by more than the steps that threads have under way, and   *)
(* no thread is the last to return with a write outstanding.               *)
(***************************************************************************)
EXTENDS YmpiThreads, FiniteSetTheorems, SequenceTheorems, TLAPS

(* Configurations in which the counters are right.  That of the source, ++ *)
(* with several threads, is not one of them: the run of FlushCompletes     *)
(* shows what it does.                                                     *)
SafeConfigs == \A c \in Configs : c.atomic \/ \A s, t \in c.started : s = t

Inc == {"inc_qp", "inc_all"}
Dec == {"dec_qp", "dec_all"}

(* A thread has completions to process exactly in the body of a loop, and  *)
(* iterations to go until it is joined.                                    *)
WorkInv == \A t \in Thread : /\ ne[t] > 0 <=> pc[t] \in Dec
                             /\ iter[t] > 0 \/ pc[t] = "joined"

(* Threads that posted a WR and have not counted it in a counter yet.      *)
Uncounted(f, labels) == {t \in Thread : f[t] \in labels}

(* One unit for each completion a thread has polled and not taken off.     *)
Units(n) == {u \in Thread \X (1 .. PollBatch) : u[2] <= n[u[1]]}

(* In dec_all the first completion is off the counter of the QP already.   *)
Due(f, n) == [t \in Thread |-> IF f[t] = "dec_all" THEN n[t] - 1 ELSE n[t]]

(* What will still be taken off each counter, and added to it.             *)
DueQp == Cardinality(Units(Due(pc, ne)))
DueAll == Cardinality(Units(ne))
NewQp == Cardinality(Uncounted(pc, {"inc_qp"}))
NewAll == Cardinality(Uncounted(pc, Inc))

(* The counters, up to the steps under way.                                *)
ExactInv == /\ qp_pending_send_wr = Len(sq) + DueQp - NewQp
            /\ pending_send_wr = Len(sq) + DueAll - NewAll

(* Without atomic operations one thread runs.                              *)
AloneInv == atomic \/ \A s, t \in Thread : pc[s] # "joined" /\ pc[t] # "joined" => s = t

(* What a thread has loaded is still in memory when it stores.             *)
LoadedInv ==
  \A t \in Thread : reg[t].loaded =>
     /\ ~ atomic
     /\ \/ pc[t] \in {"inc_qp", "dec_qp"} /\ reg[t].value = qp_pending_send_wr
        \/ pc[t] \in {"inc_all", "dec_all"} /\ reg[t].value = pending_send_wr

(* A write is outstanding only while a thread is in a call.                *)
FlushedInv == (\A t \in Thread : pc[t] \in {"write", "joined"}) => sq = <<>>

SafeInv == ExactInv /\ AloneInv /\ LoadedInv /\ FlushedInv
--------------------------------------------------------------------------------
(* Counting threads and completions. *)

LEMMA UncountedFinite ==
  ASSUME NEW f, NEW labels
  PROVE  IsFiniteSet(Uncounted(f, labels)) /\ Cardinality(Uncounted(f, labels)) \in Nat
<1>1. IsFiniteSet(Thread) /\ Uncounted(f, labels) \in SUBSET Thread
  BY ThreadsAssumption DEF Uncounted
<1>2. IsFiniteSet(Uncounted(f, labels))
  BY <1>1, FS_Subset
<1>3. QED  BY <1>2, FS_CardinalityType

LEMMA UnitsFinite ==
  ASSUME NEW n
  PROVE  IsFiniteSet(Units(n)) /\ Cardinality(Units(n)) \in Nat
<1>1. IsFiniteSet(Thread) /\ IsFiniteSet(1 .. PollBatch)
  BY ThreadsAssumption, FS_Interval
<1>2. IsFiniteSet(Thread \X (1 .. PollBatch))
  BY <1>1, FS_Product
<1>3. Units(n) \in SUBSET (Thread \X (1 .. PollBatch))
  BY DEF Units
<1>4. IsFiniteSet(Units(n))
  BY <1>2, <1>3, FS_Subset
<1>5. QED  BY <1>4, FS_CardinalityType

(* A completion taken off. *)
LEMMA UnitsLess ==
  ASSUME NEW n \in [Thread -> 0 .. PollBatch], NEW t \in Thread, n[t] > 0
  PROVE  Cardinality(Units([n EXCEPT ![t] = n[t] - 1])) = Cardinality(Units(n)) - 1
<1> DEFINE m == [n EXCEPT ![t] = n[t] - 1]
           u == <<t, n[t]>>
<1>1. \A s \in Thread : m[s] = (IF s = t THEN n[t] - 1 ELSE n[s]) /\ n[s] \in 0 .. PollBatch
  OBVIOUS
<1>2. PollBatch \in Nat
  BY ThreadsAssumption
<1>3. n[t] \in 1 .. PollBatch
  BY <1>1, <1>2
<1> HIDE DEF m
<1>4. u \in Units(n)
  BY <1>3 DEF Units
<1>5. ASSUME NEW s \in Thread, NEW i \in 1 .. PollBatch
      PROVE  <<s, i>> \in Units(m) <=> <<s, i>> \in Units(n) /\ <<s, i>> # u
  <2>1. <<s, i>> \in Units(m) <=> i <= m[s]
    BY DEF Units
  <2>2. <<s, i>> \in Units(n) <=> i <= n[s]
    BY DEF Units
  <2>3. <<s, i>> # u <=> s # t \/ i # n[t]
    OBVIOUS
  <2>4. i \in Int /\ n[s] \in Int /\ m[s] = IF s = t THEN n[t] - 1 ELSE n[s]
    BY <1>1, <1>2
  <2>5. CASE s = t
    BY <2>1, <2>2, <2>3, <2>4, <2>5
  <2>6. CASE s # t
    BY <2>1, <2>2, <2>3, <2>4, <2>6
  <2>7. QED  BY <2>5, <2>6
<1>6. Units(m) = Units(n) \ {u}
  <2>1. /\ \A x \in Units(m) : \E s \in Thread : \E i \in 1 .. PollBatch : x = <<s, i>>
        /\ \A x \in Units(n) : \E s \in Thread : \E i \in 1 .. PollBatch : x = <<s, i>>
    BY DEF Units
  <2> HIDE DEF u
  <2>2. QED  BY <1>5, <2>1
<1>7. Cardinality(Units(m)) = Cardinality(Units(n)) - 1
  <2>1. IsFiniteSet(Units(n))
    BY UnitsFinite
  <2> HIDE DEF u
  <2>2. Cardinality(Units(n) \ {u}) = Cardinality(Units(n)) - 1
    BY <1>4, <2>1, FS_RemoveElement
  <2>3. QED  BY <1>6, <2>2
<1>8. QED  BY <1>7 DEF m

(* A batch of k completions handed to a thread that had none. *)
LEMMA UnitsMore ==
  ASSUME NEW n \in [Thread -> 0 .. PollBatch], NEW t \in Thread, n[t] = 0, NEW k \in 1 .. PollBatch
  PROVE  Cardinality(Units([n EXCEPT ![t] = k])) = Cardinality(Units(n)) + k
<1> DEFINE m == [n EXCEPT ![t] = k]
           new == {t} \X (1 .. k)
<1>1. \A s \in Thread : m[s] = (IF s = t THEN k ELSE n[s]) /\ n[s] \in 0 .. PollBatch
  OBVIOUS
<1>2. PollBatch \in Nat /\ k \in Nat /\ k >= 1 /\ 1 .. k \subseteq 1 .. PollBatch
  BY ThreadsAssumption
<1> HIDE DEF m
<1>3. ASSUME NEW s \in Thread, NEW i \in 1 .. PollBatch
      PROVE  /\ <<s, i>> \in Units(m) <=> <<s, i>> \in Units(n) \/ <<s, i>> \in new
             /\ ~ (<<s, i>> \in Units(n) /\ <<s, i>> \in new)
  <2>1. <<s, i>> \in Units(m) <=> i <= m[s]
    BY DEF Units
  <2>2. <<s, i>> \in Units(n) <=> i <= n[s]
    BY DEF Units
  <2>3. <<s, i>> \in new <=> s = t /\ i \in 1 .. k
    OBVIOUS
  <2>4. i \in Int /\ i >= 1 /\ n[s] \in Int /\ m[s] = IF s = t THEN k ELSE n[s]
    BY <1>1, <1>2
  <2> HIDE DEF new
  <2>5. CASE s = t
    BY <1>2, <2>1, <2>2, <2>3, <2>4, <2>5
  <2>6. CASE s # t
    BY <2>1, <2>2, <2>3, <2>4, <2>6
  <2>7. QED  BY <2>5, <2>6
<1>4. Units(m) = Units(n) \cup new /\ Units(n) \cap new = {}
  <2>1. /\ \A x \in Units(m) : \E s \in Thread : \E i \in 1 .. PollBatch : x = <<s, i>>
        /\ \A x \in Units(n) : \E s \in Thread : \E i \in 1 .. PollBatch : x = <<s, i>>
    BY DEF Units
  <2>2. \A x \in new : \E s \in Thread : \E i \in 1 .. PollBatch : x = <<s, i>>
    BY <1>2
  <2> HIDE DEF new
  <2>3. QED  BY <1>3, <2>1, <2>2
<1>5. IsFiniteSet(new) /\ Cardinality(new) = k
  <2>1. IsFiniteSet({t}) /\ Cardinality({t}) = 1
    BY FS_Singleton
  <2>2. IsFiniteSet(1 .. k) /\ Cardinality(1 .. k) = k
    <3>1. k \in Int /\ k >= 1
      BY <1>2
    <3>2. QED  BY <3>1, FS_Interval
  <2>3. IsFiniteSet(new) /\ Cardinality(new) = Cardinality({t}) * Cardinality(1 .. k)
    BY <2>1, <2>2, FS_Product
  <2>4. QED  BY <1>2, <2>1, <2>2, <2>3
<1> HIDE DEF new
<1>6. Cardinality(Units(m)) = Cardinality(Units(n)) + Cardinality(new) - Cardinality(Units(n) \cap new)
  BY <1>4, <1>5, UnitsFinite, FS_Union
<1>7. Cardinality(Units(n) \cap new) = 0
  BY <1>4, FS_EmptySet
<1>8. Cardinality(Units(m)) = Cardinality(Units(n)) + k
  <2>1. Cardinality(Units(n)) \in Nat
    BY UnitsFinite
  <2>2. QED  BY <1>2, <1>5, <1>6, <1>7, <2>1
<1>9. QED  BY <1>8 DEF m

--------------------------------------------------------------------------------
(* Types, in every configuration. *)

(* What a poll of n leaves. *)
LEMMA PolledRest ==
  ASSUME NEW s \in Seq(Thread), NEW n \in Nat, n <= Len(s)
  PROVE  SubSeq(s, n + 1, Len(s)) \in Seq(Thread) /\ Len(SubSeq(s, n + 1, Len(s))) = Len(s) - n
<1>1. Len(s) \in Nat
  OBVIOUS
<1>2. ASSUME NEW i \in n + 1 .. Len(s) PROVE s[i] \in Thread
  BY <1>1
<1>3. n + 1 > Len(s) + 1 \/ n + 1 \in 1 .. Len(s) + 1
  BY <1>1
<1>4. QED  BY <1>1, <1>2, SubSeqProperties

(* The label a thread moves to, and what that leaves of its bookkeeping. *)
LEMMA WorkMove ==
  ASSUME TypeOK, WorkInv, NEW t \in Thread, NEW label \in Labels, Goto(t, label),
         UNCHANGED <<ne, iter>>, pc[t] \in Dec <=> label \in Dec, pc[t] # "joined"
  PROVE  pc' \in [Thread -> Labels] /\ WorkInv'
<1>1. pc' \in [Thread -> Labels] /\ \A s \in Thread : pc'[s] = IF s = t THEN label ELSE pc[s]
  BY DEF TypeOK, Goto
<1>2. QED  BY <1>1 DEF WorkInv

LEMMA TypeStep ==
  ASSUME TypeOK, WorkInv, [Next]_vars
  PROVE  TypeOK' /\ WorkInv'
<1>1. ASSUME NEW t \in Thread, post(t), UNCHANGED atomic
      PROVE  TypeOK' /\ WorkInv'
  <2>1. UNCHANGED <<qp_pending_send_wr, pending_send_wr, done, reg, ne, iter>>
    BY <1>1 DEF post, counters
  <2>2. sq' \in Seq(Thread) /\ done' \in 0 .. Len(sq')
    <3>1. sq \in Seq(Thread) /\ done \in 0 .. Len(sq) /\ done' = done
      BY <2>1 DEF TypeOK
    <3>2. sq' = Append(sq, t) \/ sq' = sq
      BY <1>1 DEF post
    <3>3. Append(sq, t) \in Seq(Thread) /\ Len(Append(sq, t)) = Len(sq) + 1 /\ Len(sq) \in Nat
      BY <3>1
    <3>4. QED  BY <3>1, <3>2, <3>3
  <2>3. pc' \in [Thread -> Labels] /\ WorkInv'
    <3>1. PICK label \in {"inc_qp", "flush"} : Goto(t, label)
      BY <1>1 DEF post
    <3>2. pc[t] = "write"
      BY <1>1 DEF post
    <3>3. QED  BY <2>1, <3>1, <3>2, WorkMove DEF Labels, Dec
  <2>4. polling' \in [Thread -> {"throttle", "flush"}]
    BY <1>1 DEF post, TypeOK
  <2>5. QED  BY <1>1, <2>1, <2>2, <2>3, <2>4 DEF TypeOK
<1>2. ASSUME NEW t \in Thread, NEW counter \in Int, load(t, counter), UNCHANGED atomic
      PROVE  TypeOK' /\ WorkInv'
  <2>1. UNCHANGED <<qp_pending_send_wr, pending_send_wr, sq, done, pc, polling, ne, iter>>
    BY <1>2 DEF load, counters
  <2>2. reg' \in [Thread -> [loaded : BOOLEAN, value : Int]]
    BY <1>2 DEF load, TypeOK
  <2>3. WorkInv'
    BY <2>1 DEF WorkInv
  <2>4. QED  BY <1>2, <2>1, <2>2, <2>3 DEF TypeOK
<1>3. ASSUME NEW t \in Thread, store(t)
      PROVE  /\ reg' \in [Thread -> [loaded : BOOLEAN, value : Int]]
             /\ \A counter \in Int : \A change \in {1, -1} : Stored(t, counter, change) \in Int
  <2>1. reg \in [Thread -> [loaded : BOOLEAN, value : Int]] /\ reg[t].value \in Int
    BY DEF TypeOK
  <2>2. reg' = [reg EXCEPT ![t] = [loaded |-> FALSE, value |-> 0]]
    BY <1>3 DEF store
  <2>3. reg' \in [Thread -> [loaded : BOOLEAN, value : Int]]
    BY <2>1, <2>2
  <2>4. \A counter \in Int : \A change \in {1, -1} : Stored(t, counter, change) \in Int
    BY <2>1 DEF Stored
  <2>5. QED  BY <2>3, <2>4
<1>4. ASSUME NEW t \in Thread, inc_qp(t), UNCHANGED atomic
      PROVE  TypeOK' /\ WorkInv'
  <2>1. UNCHANGED <<pending_send_wr, sq, done, ne, iter>> /\ Goto(t, "inc_all") /\ pc[t] = "inc_qp"
    BY <1>4 DEF inc_qp
  <2>2. pc' \in [Thread -> Labels] /\ WorkInv'
    BY <2>1, WorkMove DEF Labels, Dec
  <2>3. reg' \in [Thread -> [loaded : BOOLEAN, value : Int]] /\ qp_pending_send_wr' \in Int
    BY <1>3, <1>4 DEF inc_qp, TypeOK
  <2>4. polling' \in [Thread -> {"throttle", "flush"}]
    BY <1>4 DEF inc_qp, TypeOK
  <2>5. QED  BY <1>4, <2>1, <2>2, <2>3, <2>4 DEF TypeOK
<1>5. ASSUME NEW t \in Thread, inc_all(t), UNCHANGED atomic
      PROVE  TypeOK' /\ WorkInv'
  <2>1. UNCHANGED <<qp_pending_send_wr, sq, done, polling, ne, iter>> /\ Goto(t, polling[t])
        /\ pc[t] = "inc_all"
    BY <1>5 DEF inc_all
  <2>2. polling[t] \in {"throttle", "flush"}
    BY DEF TypeOK
  <2>3. pc' \in [Thread -> Labels] /\ WorkInv'
    BY <2>1, <2>2, WorkMove DEF Labels, Dec
  <2>4. reg' \in [Thread -> [loaded : BOOLEAN, value : Int]] /\ pending_send_wr' \in Int
    BY <1>3, <1>5 DEF inc_all, TypeOK
  <2>5. QED  BY <1>5, <2>1, <2>3, <2>4 DEF TypeOK
<1>6. ASSUME NEW t \in Thread, poll(t), UNCHANGED atomic
      PROVE  TypeOK' /\ WorkInv'
  <2>1. PICK n \in 1 .. PollBatch : /\ n <= done
                                    /\ ne' = [ne EXCEPT ![t] = n]
                                    /\ sq' = SubSeq(sq, n + 1, Len(sq))
                                    /\ done' = done - n
    BY <1>6 DEF poll
  <2>2. sq \in Seq(Thread) /\ done \in 0 .. Len(sq) /\ Len(sq) \in Nat /\ n \in Nat /\ n > 0
    BY ThreadsAssumption DEF TypeOK
  <2>3. sq' \in Seq(Thread) /\ Len(sq') = Len(sq) - n
    BY <2>1, <2>2, PolledRest
  <2>4. done' \in 0 .. Len(sq')
    BY <2>1, <2>2, <2>3
  <2>5. ne' \in [Thread -> 0 .. PollBatch]
    BY <2>1, ThreadsAssumption DEF TypeOK
  <2>6. UNCHANGED <<qp_pending_send_wr, pending_send_wr, reg, polling, iter>> /\ Goto(t, "dec_qp")
        /\ pc[t] # "joined"
    BY <1>6 DEF poll, counters
  <2>7. pc' \in [Thread -> Labels] /\ WorkInv'
    <3>1. pc' \in [Thread -> Labels] /\ \A s \in Thread : pc'[s] = IF s = t THEN "dec_qp" ELSE pc[s]
      BY <2>6 DEF TypeOK, Goto, Labels
    <3>2. \A s \in Thread : ne'[s] = IF s = t THEN n ELSE ne[s]
      BY <2>1 DEF TypeOK
    <3>3. QED  BY <2>2, <2>6, <3>1, <3>2 DEF WorkInv, Dec
  <2>8. QED  BY <1>6, <2>3, <2>4, <2>5, <2>6, <2>7 DEF TypeOK
<1>7. ASSUME NEW t \in Thread, dec_qp(t), UNCHANGED atomic
      PROVE  TypeOK' /\ WorkInv'
  <2>1. UNCHANGED <<pending_send_wr, sq, done, polling, ne, iter>> /\ Goto(t, "dec_all") /\ pc[t] = "dec_qp"
    BY <1>7 DEF dec_qp
  <2>2. pc' \in [Thread -> Labels] /\ WorkInv'
    BY <2>1, WorkMove DEF Labels, Dec
  <2>3. reg' \in [Thread -> [loaded : BOOLEAN, value : Int]] /\ qp_pending_send_wr' \in Int
    BY <1>3, <1>7 DEF dec_qp, TypeOK
  <2>4. QED  BY <1>7, <2>1, <2>2, <2>3 DEF TypeOK
<1>8. ASSUME NEW t \in Thread, dec_all(t), UNCHANGED atomic
      PROVE  TypeOK' /\ WorkInv'
  <2>1. UNCHANGED <<qp_pending_send_wr, sq, done, iter>> /\ pc[t] = "dec_all"
    BY <1>8 DEF dec_all
  <2>2. ne[t] \in 0 .. PollBatch /\ ne[t] > 0 /\ iter[t] > 0 /\ PollBatch \in Nat
    BY <2>1, ThreadsAssumption DEF TypeOK, WorkInv, Dec
  <2>3. /\ ne' = [ne EXCEPT ![t] = ne[t] - 1]
        /\ pc' = [pc EXCEPT ![t] = IF ne[t] > 1 THEN "dec_qp" ELSE "flush"]
    BY <1>8 DEF dec_all, Goto
  <2>4. ne' \in [Thread -> 0 .. PollBatch] /\ \A s \in Thread : ne'[s] = IF s = t THEN ne[t] - 1 ELSE ne[s]
    BY <2>2, <2>3 DEF TypeOK
  <2>5. pc' \in [Thread -> Labels]
        /\ \A s \in Thread : pc'[s] = IF s = t THEN IF ne[t] > 1 THEN "dec_qp" ELSE "flush" ELSE pc[s]
    BY <2>3 DEF TypeOK, Labels
  <2>6. WorkInv'
    <3>1. ASSUME NEW s \in Thread
          PROVE  (ne'[s] > 0 <=> pc'[s] \in Dec) /\ (iter'[s] > 0 \/ pc'[s] = "joined")
      <4>1. CASE s = t
        BY <2>1, <2>2, <2>4, <2>5, <4>1 DEF Dec
      <4>2. CASE s # t
        BY <2>1, <2>4, <2>5, <4>2 DEF WorkInv
      <4>3. QED  BY <4>1, <4>2
    <3>2. QED  BY <3>1 DEF WorkInv
  <2>7. reg' \in [Thread -> [loaded : BOOLEAN, value : Int]] /\ pending_send_wr' \in Int
    BY <1>3, <1>8 DEF dec_all, TypeOK
  <2>8. polling' \in [Thread -> {"throttle", "flush"}]
    BY <1>8 DEF dec_all, TypeOK
  <2>9. QED  BY <1>8, <2>1, <2>4, <2>5, <2>6, <2>7, <2>8 DEF TypeOK
<1>9. ASSUME NEW t \in Thread, flush_return(t), UNCHANGED atomic
      PROVE  TypeOK' /\ WorkInv'
  <2>1. /\ UNCHANGED <<qp_pending_send_wr, pending_send_wr, sq, done, reg, polling, ne>>
        /\ pc[t] = "flush" /\ iter' = [iter EXCEPT ![t] = iter[t] - 1]
        /\ pc' = [pc EXCEPT ![t] = IF iter[t] = 1 THEN "joined" ELSE "write"]
    BY <1>9 DEF flush_return, counters, Goto
  <2>2. iter[t] \in 0 .. Iters /\ iter[t] > 0 /\ Iters \in Nat /\ ~ (ne[t] > 0)
    BY <2>1, ThreadsAssumption DEF TypeOK, WorkInv, Dec
  <2>3. iter' \in [Thread -> 0 .. Iters] /\ \A s \in Thread : iter'[s] = IF s = t THEN iter[t] - 1 ELSE iter[s]
    BY <2>1, <2>2 DEF TypeOK
  <2>4. pc' \in [Thread -> Labels]
        /\ \A s \in Thread : pc'[s] = IF s = t THEN IF iter[t] = 1 THEN "joined" ELSE "write" ELSE pc[s]
    BY <2>1 DEF TypeOK, Labels
  <2>5. WorkInv'
    <3>1. ASSUME NEW s \in Thread
          PROVE  (ne'[s] > 0 <=> pc'[s] \in Dec) /\ (iter'[s] > 0 \/ pc'[s] = "joined")
      <4>1. CASE s = t
        BY <2>1, <2>2, <2>3, <2>4, <4>1 DEF Dec
      <4>2. CASE s # t
        BY <2>1, <2>3, <2>4, <4>2 DEF WorkInv
      <4>3. QED  BY <4>1, <4>2
    <3>2. QED  BY <3>1 DEF WorkInv
  <2>6. QED  BY <1>9, <2>1, <2>3, <2>4, <2>5 DEF TypeOK
<1>10. ASSUME hca_complete
       PROVE  TypeOK' /\ WorkInv'
  BY <1>10 DEF hca_complete, counters, TypeOK, WorkInv
<1>11. CASE UNCHANGED vars
  BY <1>11 DEF vars, TypeOK, WorkInv
<1>12. QED
  BY <1>1, <1>2, <1>4, <1>5, <1>6, <1>7, <1>8, <1>9, <1>10, <1>11 DEF Next, Step, TypeOK

--------------------------------------------------------------------------------
(* Where the counters are right. *)

(* A step moves one thread that is not joined, or none. *)
LEMMA Moves ==
  ASSUME TypeOK, [Next]_vars
  PROVE  /\ atomic' = atomic
         /\ pc' = pc \/ \E t \in Thread : pc[t] # "joined" /\ \A s \in Thread \ {t} : pc'[s] = pc[s]
<1>1. ASSUME NEW t \in Thread, Step(t)
      PROVE  pc' = pc \/ (pc[t] # "joined" /\ \A s \in Thread \ {t} : pc'[s] = pc[s])
  <2>1. CASE load(t, qp_pending_send_wr) \/ load(t, pending_send_wr)
    BY <2>1 DEF load
  <2>2. CASE post(t) \/ inc_qp(t) \/ inc_all(t) \/ poll(t) \/ dec_qp(t) \/ dec_all(t) \/ flush_return(t)
    <3>1. pc[t] # "joined" /\ \E label \in {pc'[t], "inc_qp", "flush", "inc_all", "dec_qp", "dec_all",
                                           "throttle", "write", "joined"} : Goto(t, label)
      BY <2>2 DEF post, inc_qp, inc_all, poll, dec_qp, dec_all, flush_return, TypeOK
    <3>2. QED  BY <3>1 DEF Goto, TypeOK
  <2>3. QED  BY <1>1, <2>1, <2>2 DEF Step
<1>2. atomic' = atomic
  BY DEF Next, Step, hca_complete, vars
<1>3. QED  BY <1>1, <1>2 DEF Next, hca_complete, vars

LEMMA AloneStep ==
  ASSUME TypeOK, AloneInv, [Next]_vars
  PROVE  AloneInv'
<1>1. atomic' = atomic /\ \A s \in Thread : pc'[s] # "joined" => pc[s] # "joined"
  BY Moves
<1>2. QED  BY <1>1 DEF AloneInv

(* Either way ++ and -- change the counter by one from what it is. *)
LEMMA StoreExact ==
  ASSUME LoadedInv, NEW t \in Thread, store(t), NEW change \in Int
  PROVE  /\ pc[t] \in {"inc_qp", "dec_qp"} =>
              Stored(t, qp_pending_send_wr, change) = qp_pending_send_wr + change
         /\ pc[t] \in {"inc_all", "dec_all"} =>
              Stored(t, pending_send_wr, change) = pending_send_wr + change
<1>1. atomic \/ reg[t].loaded
  BY DEF store
<1>2. CASE atomic
  BY <1>2 DEF Stored
<1>3. CASE ~ atomic
  BY <1>1, <1>3 DEF LoadedInv, Stored
<1>4. QED  BY <1>2, <1>3

(* While one thread loads or stores, no other holds a value it has loaded. *)
LEMMA NoOtherLoaded ==
  ASSUME AloneInv, LoadedInv, NEW t \in Thread, pc[t] # "joined"
  PROVE  \A s \in Thread \ {t} : ~ reg[s].loaded
<1>1. ASSUME NEW s \in Thread, reg[s].loaded PROVE s = t
  <2>1. ~ atomic /\ pc[s] # "joined"
    BY <1>1 DEF LoadedInv
  <2>2. QED  BY <2>1 DEF AloneInv
<1>2. QED  BY <1>1

LEMMA LoadedStep ==
  ASSUME TypeOK, AloneInv, LoadedInv, [Next]_vars
  PROVE  LoadedInv'
<1>1. atomic' = atomic
  BY Moves
<1>2. ASSUME NEW t \in Thread, store(t), pc[t] # "joined"
      PROVE  LoadedInv'
  <2>1. reg' = [reg EXCEPT ![t] = [loaded |-> FALSE, value |-> 0]] /\ reg \in [Thread -> [loaded : BOOLEAN, value : Int]]
    BY <1>2 DEF store, TypeOK
  <2>2. \A s \in Thread : ~ reg'[s].loaded
    BY <1>2, <2>1, NoOtherLoaded
  <2>3. QED  BY <2>2 DEF LoadedInv
<1>3. ASSUME NEW t \in Thread, inc_qp(t) \/ inc_all(t) \/ dec_qp(t) \/ dec_all(t)
      PROVE  LoadedInv'
  <2>1. store(t) /\ pc[t] # "joined"
    BY <1>3 DEF inc_qp, inc_all, dec_qp, dec_all
  <2>2. QED  BY <1>2, <2>1
<1>4. ASSUME NEW t \in Thread, post(t) \/ poll(t) \/ flush_return(t)
      PROVE  LoadedInv'
  <2>1. pc[t] \notin Inc \cup Dec /\ UNCHANGED <<qp_pending_send_wr, pending_send_wr, reg>>
    BY <1>4 DEF post, poll, flush_return, counters, Inc, Dec
  <2>2. \A s \in Thread \ {t} : pc'[s] = pc[s]
    BY <1>4 DEF post, poll, flush_return, Goto, TypeOK
  <2>3. ~ reg[t].loaded
    BY <2>1 DEF LoadedInv, Inc, Dec
  <2>4. QED  BY <1>1, <2>1, <2>2, <2>3 DEF LoadedInv
<1>5. ASSUME NEW t \in Thread, NEW counter,
             \/ pc[t] \in {"inc_qp", "dec_qp"} /\ counter = qp_pending_send_wr
             \/ pc[t] \in {"inc_all", "dec_all"} /\ counter = pending_send_wr,
             load(t, counter)
      PROVE  LoadedInv'
  <2>1. ~ atomic /\ UNCHANGED <<qp_pending_send_wr, pending_send_wr, pc>>
        /\ reg' = [reg EXCEPT ![t] = [loaded |-> TRUE, value |-> counter]]
    BY <1>5 DEF load, counters
  <2>2. \A s \in Thread : reg'[s] = IF s = t THEN [loaded |-> TRUE, value |-> counter] ELSE reg[s]
    BY <2>1 DEF TypeOK
  <2>3. QED  BY <1>1, <1>5, <2>1, <2>2 DEF LoadedInv
<1>6. CASE hca_complete \/ UNCHANGED vars
  BY <1>6 DEF hca_complete, vars, counters, LoadedInv
<1>7. QED
  BY <1>3, <1>4, <1>5, <1>6 DEF Next, Step

(* What is due to the counter of the QP, whichever steps are under way. *)
LEMMA DueType ==
  ASSUME TypeOK, WorkInv
  PROVE  /\ ne \in [Thread -> 0 .. PollBatch] /\ PollBatch \in Nat
         /\ Due(pc, ne) \in [Thread -> 0 .. PollBatch]
         /\ \A t \in Thread : Due(pc, ne)[t] = IF pc[t] = "dec_all" THEN ne[t] - 1 ELSE ne[t]
<1>1. ne \in [Thread -> 0 .. PollBatch] /\ PollBatch \in Nat
  BY ThreadsAssumption DEF TypeOK
<1>2. ASSUME NEW t \in Thread
      PROVE  /\ Due(pc, ne)[t] = IF pc[t] = "dec_all" THEN ne[t] - 1 ELSE ne[t]
             /\ Due(pc, ne)[t] \in 0 .. PollBatch
  <2>1. Due(pc, ne)[t] = IF pc[t] = "dec_all" THEN ne[t] - 1 ELSE ne[t]
    BY DEF Due
  <2>2. pc[t] = "dec_all" => ne[t] > 0
    BY DEF WorkInv, Dec
  <2>3. QED  BY <1>1, <2>1, <2>2
<1>3. Due(pc, ne) \in [Thread -> 0 .. PollBatch]
  BY <1>2 DEF Due
<1>4. QED  BY <1>1, <1>2, <1>3

LEMMA Moved ==
  ASSUME TypeOK, NEW t \in Thread, NEW label, pc' = [pc EXCEPT ![t] = label]
  PROVE  pc'[t] = label /\ \A s \in Thread \ {t} : pc'[s] = pc[s]
  BY DEF TypeOK

(* The counts of threads that have not counted yet. *)
LEMMA PcMove ==
  ASSUME NEW t \in Thread, NEW label \in Labels,
         pc'[t] = label, \A s \in Thread \ {t} : pc'[s] = pc[s]
  PROVE  /\ label = "inc_qp" /\ pc[t] # "inc_qp" => NewQp' = NewQp + 1
         /\ label # "inc_qp" /\ pc[t] = "inc_qp" => NewQp' = NewQp - 1
         /\ label # "inc_qp" /\ pc[t] # "inc_qp" => NewQp' = NewQp
         /\ label \in Inc /\ pc[t] \notin Inc => NewAll' = NewAll + 1
         /\ label \notin Inc /\ pc[t] \in Inc => NewAll' = NewAll - 1
         /\ (label \in Inc <=> pc[t] \in Inc) => NewAll' = NewAll
<1>1. pc'[t] = label /\ \A s \in Thread \ {t} : pc'[s] = pc[s]
  OBVIOUS
<1>2. /\ NewAll = Cardinality(Uncounted(pc, Inc)) /\ NewAll' = Cardinality(Uncounted(pc', Inc))
      /\ NewQp = Cardinality(Uncounted(pc, {"inc_qp"})) /\ NewQp' = Cardinality(Uncounted(pc', {"inc_qp"}))
  BY DEF NewAll, NewQp, Inc
<1>3. /\ label \in Inc /\ pc[t] \notin Inc => NewAll' = NewAll + 1
      /\ label \notin Inc /\ pc[t] \in Inc => NewAll' = NewAll - 1
      /\ (label \in Inc <=> pc[t] \in Inc) => NewAll' = NewAll
  <2>1. ASSUME pc'[t] \in Inc, pc[t] \notin Inc PROVE NewAll' = NewAll + 1
    <3>1. Uncounted(pc', Inc) = Uncounted(pc, Inc) \cup {t} /\ t \notin Uncounted(pc, Inc)
      BY <1>1, <2>1 DEF Uncounted
    <3>2. Cardinality(Uncounted(pc', Inc)) = Cardinality(Uncounted(pc, Inc)) + 1
      BY <3>1, UncountedFinite, FS_AddElement
    <3>3. QED  BY <1>2, <3>2
  <2>2. ASSUME pc'[t] \notin Inc, pc[t] \in Inc PROVE NewAll' = NewAll - 1
    <3>1. Uncounted(pc', Inc) = Uncounted(pc, Inc) \ {t} /\ t \in Uncounted(pc, Inc)
      BY <1>1, <2>2 DEF Uncounted
    <3>2. Cardinality(Uncounted(pc', Inc)) = Cardinality(Uncounted(pc, Inc)) - 1
      BY <3>1, UncountedFinite, FS_RemoveElement
    <3>3. QED  BY <1>2, <3>2
  <2>3. ASSUME (pc[t] \in Inc /\ pc'[t] \in Inc) \/ (pc[t] \notin Inc /\ pc'[t] \notin Inc) PROVE NewAll' = NewAll
    <3>1. Uncounted(pc', Inc) = Uncounted(pc, Inc)
      BY <1>1, <2>3 DEF Uncounted
    <3>2. QED  BY <1>2, <3>1
  <2>4. QED  BY <1>1, <2>1, <2>2, <2>3
<1>4. /\ label = "inc_qp" /\ pc[t] # "inc_qp" => NewQp' = NewQp + 1
      /\ label # "inc_qp" /\ pc[t] = "inc_qp" => NewQp' = NewQp - 1
      /\ label # "inc_qp" /\ pc[t] # "inc_qp" => NewQp' = NewQp
  <2>1. ASSUME pc'[t] \in {"inc_qp"}, pc[t] \notin {"inc_qp"} PROVE NewQp' = NewQp + 1
    <3>1. Uncounted(pc', {"inc_qp"}) = Uncounted(pc, {"inc_qp"}) \cup {t} /\ t \notin Uncounted(pc, {"inc_qp"})
      BY <1>1, <2>1 DEF Uncounted
    <3>2. Cardinality(Uncounted(pc', {"inc_qp"})) = Cardinality(Uncounted(pc, {"inc_qp"})) + 1
      BY <3>1, UncountedFinite, FS_AddElement
    <3>3. QED  BY <1>2, <3>2
  <2>2. ASSUME pc'[t] \notin {"inc_qp"}, pc[t] \in {"inc_qp"} PROVE NewQp' = NewQp - 1
    <3>1. Uncounted(pc', {"inc_qp"}) = Uncounted(pc, {"inc_qp"}) \ {t} /\ t \in Uncounted(pc, {"inc_qp"})
      BY <1>1, <2>2 DEF Uncounted
    <3>2. Cardinality(Uncounted(pc', {"inc_qp"})) = Cardinality(Uncounted(pc, {"inc_qp"})) - 1
      BY <3>1, UncountedFinite, FS_RemoveElement
    <3>3. QED  BY <1>2, <3>2
  <2>3. ASSUME (pc[t] \in {"inc_qp"} /\ pc'[t] \in {"inc_qp"}) \/ (pc[t] \notin {"inc_qp"} /\ pc'[t] \notin {"inc_qp"}) PROVE NewQp' = NewQp
    <3>1. Uncounted(pc', {"inc_qp"}) = Uncounted(pc, {"inc_qp"})
      BY <1>1, <2>3 DEF Uncounted
    <3>2. QED  BY <1>2, <3>1
  <2>4. QED  BY <1>1, <2>1, <2>2, <2>3
<1>5. QED  BY <1>3, <1>4

LEMMA CountsType == DueQp \in Nat /\ DueAll \in Nat /\ NewQp \in Nat /\ NewAll \in Nat
  BY UncountedFinite, UnitsFinite DEF DueQp, DueAll, NewQp, NewAll

(* A thread that neither reaches nor leaves dec_all. *)
LEMMA DueSame ==
  ASSUME TypeOK, NEW t \in Thread, NEW label \in Labels \ {"dec_all"}, pc[t] # "dec_all",
         pc' = [pc EXCEPT ![t] = label], ne' = ne
  PROVE  DueQp' = DueQp /\ DueAll' = DueAll
<1>1. \A s \in Thread : pc'[s] = "dec_all" <=> pc[s] = "dec_all"
  BY DEF TypeOK
<1>2. Due(pc', ne') = Due(pc, ne)
  BY <1>1 DEF Due
<1>3. QED  BY <1>2 DEF DueQp, DueAll

LEMMA ExactStep ==
  ASSUME TypeOK, WorkInv, ExactInv, LoadedInv, [Next]_vars
  PROVE  ExactInv'
<1>1. /\ qp_pending_send_wr = Len(sq) + DueQp - NewQp /\ pending_send_wr = Len(sq) + DueAll - NewAll
      /\ Len(sq) \in Nat /\ DueQp \in Nat /\ DueAll \in Nat /\ NewQp \in Nat /\ NewAll \in Nat
  BY CountsType DEF ExactInv, TypeOK
<1>2. pc \in [Thread -> Labels] /\ ne \in [Thread -> 0 .. PollBatch]
  BY DEF TypeOK
<1>3. ASSUME qp_pending_send_wr' = Len(sq') + DueQp' - NewQp',
             pending_send_wr' = Len(sq') + DueAll' - NewAll'
      PROVE  ExactInv'
  BY <1>3 DEF ExactInv
<1>4. ASSUME NEW t \in Thread, post(t)
      PROVE  ExactInv'
  <2>1. pc[t] = "write" /\ UNCHANGED <<qp_pending_send_wr, pending_send_wr, ne>> /\ sq \in Seq(Thread)
    BY <1>4 DEF post, counters, TypeOK
  <2>2. CASE sq' = Append(sq, t) /\ Goto(t, "inc_qp")
    <3>1. pc' = [pc EXCEPT ![t] = "inc_qp"]
      BY <2>2 DEF Goto
    <3>2. NewQp' = NewQp + 1 /\ NewAll' = NewAll + 1
      BY <1>1, <2>1, <3>1, Moved, PcMove DEF Inc, Labels
    <3>3. DueQp' = DueQp /\ DueAll' = DueAll
      BY <2>1, <3>1, DueSame DEF Labels
    <3>4. Len(sq') = Len(sq) + 1
      BY <2>1, <2>2
    <3>5. QED  BY <1>1, <1>3, <2>1, <3>2, <3>3, <3>4
  <2>3. CASE sq' = sq /\ Goto(t, "flush")
    <3>1. pc' = [pc EXCEPT ![t] = "flush"]
      BY <2>3 DEF Goto
    <3>2. NewQp' = NewQp /\ NewAll' = NewAll
      BY <1>1, <2>1, <3>1, Moved, PcMove DEF Inc, Labels
    <3>3. DueQp' = DueQp /\ DueAll' = DueAll
      BY <2>1, <3>1, DueSame DEF Labels
    <3>4. QED  BY <1>1, <1>3, <2>1, <2>3, <3>2, <3>3
  <2>4. QED  BY <1>4, <2>2, <2>3 DEF post
<1>5. ASSUME NEW t \in Thread, inc_qp(t)
      PROVE  ExactInv'
  <2>1. /\ pc[t] = "inc_qp" /\ UNCHANGED <<pending_send_wr, sq, ne>>
        /\ pc' = [pc EXCEPT ![t] = "inc_all"]
        /\ qp_pending_send_wr' = Stored(t, qp_pending_send_wr, 1) /\ store(t)
    BY <1>5 DEF inc_qp, Goto
  <2>2. qp_pending_send_wr' = qp_pending_send_wr + 1
    BY <2>1, StoreExact
  <2>3. NewQp' = NewQp - 1 /\ NewAll' = NewAll
    BY <1>1, <2>1, Moved, PcMove DEF Inc, Labels
  <2>4. DueQp' = DueQp /\ DueAll' = DueAll
    BY <2>1, DueSame DEF Labels
  <2>5. QED  BY <1>1, <1>3, <2>1, <2>2, <2>3, <2>4
<1>6. ASSUME NEW t \in Thread, inc_all(t)
      PROVE  ExactInv'
  <2>1. /\ pc[t] = "inc_all" /\ UNCHANGED <<qp_pending_send_wr, sq, ne>>
        /\ pc' = [pc EXCEPT ![t] = polling[t]] /\ polling[t] \in {"throttle", "flush"}
        /\ pending_send_wr' = Stored(t, pending_send_wr, 1) /\ store(t)
    BY <1>6 DEF inc_all, Goto, TypeOK
  <2>2. pending_send_wr' = pending_send_wr + 1
    BY <2>1, StoreExact
  <2>3. NewQp' = NewQp /\ NewAll' = NewAll - 1
    BY <1>1, <2>1, Moved, PcMove DEF Inc, Labels
  <2>4. DueQp' = DueQp /\ DueAll' = DueAll
    BY <2>1, DueSame DEF Labels
  <2>5. QED  BY <1>1, <1>3, <2>1, <2>2, <2>3, <2>4
<1>7. ASSUME NEW t \in Thread, poll(t)
      PROVE  ExactInv'
  <2>1. PICK n \in 1 .. PollBatch : /\ n <= done
                                    /\ ne' = [ne EXCEPT ![t] = n]
                                    /\ sq' = SubSeq(sq, n + 1, Len(sq))
    BY <1>7 DEF poll
  <2>2. /\ pc[t] \in {"throttle", "flush"} /\ pc' = [pc EXCEPT ![t] = "dec_qp"]
        /\ UNCHANGED <<qp_pending_send_wr, pending_send_wr>>
    BY <1>7 DEF poll, Goto, counters
  <2>3. Len(sq') = Len(sq) - n /\ n \in Nat
    <3>1. sq \in Seq(Thread) /\ n \in Nat /\ n <= Len(sq)
      BY <2>1, ThreadsAssumption DEF TypeOK
    <3>2. QED  BY <2>1, <3>1, PolledRest
  <2>4. ne[t] = 0 /\ Due(pc, ne)[t] = 0
    BY <1>2, <2>2, DueType DEF WorkInv, Dec
  <2>5. NewQp' = NewQp /\ NewAll' = NewAll
    BY <1>1, <2>2, Moved, PcMove DEF Inc, Labels
  <2>6. DueAll' = DueAll + n
    BY <1>2, <2>1, <2>4, UnitsMore DEF DueAll
  <2>7. Due(pc', ne') = [Due(pc, ne) EXCEPT ![t] = n]
    BY <1>2, <2>1, <2>2 DEF Due
  <2>8. DueQp' = DueQp + n
    <3>1. Due(pc, ne) \in [Thread -> 0 .. PollBatch]
      BY <1>2, DueType
    <3>2. Cardinality(Units([Due(pc, ne) EXCEPT ![t] = n])) = Cardinality(Units(Due(pc, ne))) + n
      BY <2>4, <3>1, UnitsMore
    <3>3. QED  BY <2>7, <3>2 DEF DueQp
  <2>9. QED  BY <1>1, <1>3, <2>2, <2>3, <2>5, <2>6, <2>8
<1>8. ASSUME NEW t \in Thread, dec_qp(t)
      PROVE  ExactInv'
  <2>1. /\ pc[t] = "dec_qp" /\ UNCHANGED <<pending_send_wr, sq, ne>>
        /\ pc' = [pc EXCEPT ![t] = "dec_all"]
        /\ qp_pending_send_wr' = Stored(t, qp_pending_send_wr, -1) /\ store(t)
    BY <1>8 DEF dec_qp, Goto
  <2>2. qp_pending_send_wr' = qp_pending_send_wr + (-1)
    BY <2>1, StoreExact
  <2>3. NewQp' = NewQp /\ NewAll' = NewAll
    BY <1>1, <2>1, Moved, PcMove DEF Inc, Labels
  <2>4. Due(pc, ne)[t] = ne[t] /\ ne[t] > 0
    BY <2>1, DueType DEF WorkInv, Dec
  <2>5. Due(pc', ne') = [Due(pc, ne) EXCEPT ![t] = Due(pc, ne)[t] - 1]
    BY <1>2, <2>1, <2>4 DEF Due
  <2>6. DueQp' = DueQp - 1 /\ DueAll' = DueAll
    <3>1. Cardinality(Units([Due(pc, ne) EXCEPT ![t] = Due(pc, ne)[t] - 1])) = DueQp - 1
      BY <2>4, DueType, UnitsLess DEF DueQp
    <3>2. QED  BY <2>1, <2>5, <3>1 DEF DueQp, DueAll
  <2>7. QED  BY <1>1, <1>3, <2>1, <2>2, <2>3, <2>6
<1>9. ASSUME NEW t \in Thread, dec_all(t)
      PROVE  ExactInv'
  <2>1. PICK label \in {"dec_qp", "flush"} : pc' = [pc EXCEPT ![t] = label]
    BY <1>9 DEF dec_all, Goto
  <2>2. /\ pc[t] = "dec_all" /\ UNCHANGED <<qp_pending_send_wr, sq>>
        /\ ne' = [ne EXCEPT ![t] = ne[t] - 1]
        /\ pending_send_wr' = Stored(t, pending_send_wr, -1) /\ store(t)
    BY <1>9 DEF dec_all
  <2>3. pending_send_wr' = pending_send_wr + (-1)
    BY <2>2, StoreExact
  <2>4. NewQp' = NewQp /\ NewAll' = NewAll
    BY <1>1, <2>1, <2>2, Moved, PcMove DEF Inc, Labels
  <2>5. ne[t] > 0
    BY <2>2 DEF WorkInv, Dec
  <2>6. DueAll' = DueAll - 1
    BY <1>2, <2>2, <2>5, UnitsLess DEF DueAll
  <2>7. DueQp' = DueQp
    <3>1. Due(pc', ne') = Due(pc, ne)
      BY <1>2, <2>1, <2>2 DEF Due
    <3>2. QED  BY <3>1 DEF DueQp
  <2>8. QED  BY <1>1, <1>3, <2>2, <2>3, <2>4, <2>6, <2>7
<1>10. ASSUME NEW t \in Thread, flush_return(t)
       PROVE  ExactInv'
  <2>1. PICK label \in {"joined", "write"} : Goto(t, label)
    BY <1>10 DEF flush_return
  <2>2. pc[t] = "flush" /\ UNCHANGED <<qp_pending_send_wr, pending_send_wr, sq, ne>>
    BY <1>10 DEF flush_return, counters
  <2>3. pc' = [pc EXCEPT ![t] = label] /\ label \in Labels
    BY <2>1 DEF Goto, Labels
  <2>4. NewQp' = NewQp /\ NewAll' = NewAll
    BY <1>1, <2>1, <2>2, <2>3, Moved, PcMove DEF Inc
  <2>5. DueQp' = DueQp /\ DueAll' = DueAll
    BY <2>1, <2>2, <2>3, DueSame
  <2>6. QED  BY <1>1, <1>3, <2>2, <2>4, <2>5
<1>11. ASSUME UNCHANGED <<qp_pending_send_wr, pending_send_wr, sq, pc, ne>>
       PROVE  ExactInv'
  BY <1>11 DEF ExactInv, DueQp, DueAll, NewQp, NewAll
<1>12. ASSUME NEW t \in Thread, NEW counter, load(t, counter)
       PROVE  ExactInv'
  BY <1>11, <1>12 DEF load, counters
<1>13. CASE hca_complete \/ UNCHANGED vars
  BY <1>11, <1>13 DEF hca_complete, vars, counters
<1>14. QED
  BY <1>4, <1>5, <1>6, <1>7, <1>8, <1>9, <1>10, <1>12, <1>13 DEF Next, Step

(* Between calls nothing is due to the counters. *)
LEMMA Quiet ==
  ASSUME TypeOK, WorkInv, \A t \in Thread : pc[t] \notin Inc \cup Dec
  PROVE  DueQp = 0 /\ DueAll = 0 /\ NewQp = 0 /\ NewAll = 0
<1>1. ASSUME NEW t \in Thread PROVE ne[t] = 0 /\ pc[t] # "dec_all"
  BY DueType DEF WorkInv, Dec
<1>2. Units(ne) = {} /\ Units(Due(pc, ne)) = {}
  <2>1. \A u \in Thread \X (1 .. PollBatch) : u[1] \in Thread /\ u[2] \in Int /\ u[2] >= 1
    OBVIOUS
  <2>2. \A t \in Thread : Due(pc, ne)[t] = 0
    BY <1>1, DueType
  <2>3. QED  BY <1>1, <2>1, <2>2 DEF Units
<1>3. Uncounted(pc, Inc) = {} /\ Uncounted(pc, {"inc_qp"}) = {}
  BY DEF Uncounted, Inc
<1>4. QED  BY <1>2, <1>3, FS_EmptySet DEF DueQp, DueAll, NewQp, NewAll

(* The last thread to return finds no WR outstanding. *)
LEMMA FlushedStep ==
  ASSUME TypeOK, WorkInv, ExactInv, FlushedInv, [Next]_vars
  PROVE  FlushedInv'
<1> SUFFICES ASSUME \A t \in Thread : pc'[t] \in {"write", "joined"}
             PROVE  sq' = <<>>
  BY DEF FlushedInv
<1>1. ASSUME NEW t \in Thread, NEW label \in Labels \ {"write", "joined"}, Goto(t, label)
      PROVE  FALSE
  BY <1>1 DEF Goto, TypeOK
<1>2. ASSUME NEW t \in Thread, post(t) PROVE FALSE
  <2>1. Goto(t, "inc_qp") \/ Goto(t, "flush")
    BY <1>2 DEF post
  <2>2. QED  BY <1>1, <2>1 DEF Labels
<1>3. ASSUME NEW t \in Thread, inc_qp(t) \/ poll(t) \/ dec_qp(t) PROVE FALSE
  <2>1. Goto(t, "inc_all") \/ Goto(t, "dec_qp") \/ Goto(t, "dec_all")
    BY <1>3 DEF inc_qp, poll, dec_qp
  <2>2. QED  BY <1>1, <2>1 DEF Labels
<1>4. ASSUME NEW t \in Thread, inc_all(t) PROVE FALSE
  <2>1. Goto(t, polling[t]) /\ polling[t] \in {"throttle", "flush"}
    BY <1>4 DEF inc_all, TypeOK
  <2>2. QED  BY <1>1, <2>1 DEF Labels
<1>5. ASSUME NEW t \in Thread, dec_all(t) PROVE FALSE
  <2>1. Goto(t, "dec_qp") \/ Goto(t, "flush")
    BY <1>5 DEF dec_all
  <2>2. QED  BY <1>1, <2>1 DEF Labels
<1>6. ASSUME NEW t \in Thread, flush_return(t) PROVE sq' = <<>>
  <2>1. pc[t] = "flush" /\ ~ (pending_send_wr > 0) /\ sq' = sq
        /\ \A s \in Thread \ {t} : pc'[s] = pc[s]
    BY <1>6 DEF flush_return, Goto, TypeOK
  <2>2. \A s \in Thread : pc[s] \notin Inc \cup Dec
    BY <2>1 DEF Inc, Dec
  <2>3. pending_send_wr = Len(sq) + 0 - 0 /\ sq \in Seq(Thread)
    BY <2>2, Quiet DEF ExactInv, TypeOK
  <2>4. Len(sq) = 0
    BY <2>1, <2>3
  <2>5. QED  BY <2>1, <2>3, <2>4
<1>7. ASSUME UNCHANGED <<pc, sq>> PROVE sq' = <<>>
  BY <1>7 DEF FlushedInv
<1>8. ASSUME NEW t \in Thread, NEW counter, load(t, counter) PROVE sq' = <<>>
  BY <1>7, <1>8 DEF load
<1>9. CASE hca_complete \/ UNCHANGED vars
  BY <1>7, <1>9 DEF hca_complete, vars
<1>10. QED
  BY <1>2, <1>3, <1>4, <1>5, <1>6, <1>8, <1>9 DEF Next, Step

--------------------------------------------------------------------------------
(* The theorems. *)

LEMMA InitTypes == Init => TypeOK /\ WorkInv
<1> SUFFICES ASSUME Init PROVE TypeOK /\ WorkInv
  OBVIOUS
<1>1. PICK c \in Configs : /\ atomic = c.atomic
                           /\ pc = [t \in Thread |-> IF t \in c.started /\ Iters > 0 THEN "write" ELSE "joined"]
  BY DEF Init
<1>2. Iters \in Nat /\ PollBatch \in Nat /\ c.atomic \in BOOLEAN
  BY ThreadsAssumption
<1>3. pc \in [Thread -> Labels]
  BY <1>1 DEF Labels
<1>4. sq \in Seq(Thread) /\ done \in 0 .. Len(sq)
  BY DEF Init
<1>5. reg \in [Thread -> [loaded : BOOLEAN, value : Int]]
  BY DEF Init
<1>6. TypeOK
  BY <1>1, <1>2, <1>3, <1>4, <1>5 DEF Init, TypeOK
<1>7. WorkInv
  BY <1>1, <1>2 DEF Init, WorkInv, Dec
<1>8. QED  BY <1>6, <1>7

LEMMA InitSafe ==
  ASSUME SafeConfigs, Init
  PROVE  SafeInv
<1>1. TypeOK /\ WorkInv
  BY InitTypes
<1>2. PICK c \in Configs : /\ atomic = c.atomic
                           /\ pc = [t \in Thread |-> IF t \in c.started /\ Iters > 0 THEN "write" ELSE "joined"]
  BY DEF Init
<1>3. AloneInv
  BY <1>2 DEF AloneInv, SafeConfigs
<1>4. LoadedInv
  BY DEF Init, LoadedInv
<1>5. \A t \in Thread : pc[t] \notin Inc \cup Dec
  BY <1>2 DEF Inc, Dec
<1>6. ExactInv
  <2>1. qp_pending_send_wr = 0 /\ pending_send_wr = 0 /\ Len(sq) = 0
    BY DEF Init
  <2>2. QED  BY <1>1, <1>5, <2>1, Quiet DEF ExactInv
<1>7. FlushedInv
  BY DEF Init, FlushedInv
<1>8. QED  BY <1>3, <1>4, <1>6, <1>7 DEF SafeInv

LEMMA SafeStep ==
  ASSUME TypeOK, WorkInv, SafeInv, [Next]_vars
  PROVE  SafeInv'
  BY AloneStep, LoadedStep, ExactStep, FlushedStep DEF SafeInv

(***************************************************************************)
(* Type correctness in every configuration, also where increments are      *)
(* lost: the counters may be wrong, never the program's place.             *)
(***************************************************************************)
THEOREM TypeCorrect == Spec => []TypeOK
<1>1. TypeOK /\ WorkInv /\ [Next]_vars => TypeOK' /\ WorkInv'
  BY TypeStep
<1>2. QED  BY InitTypes, <1>1, PTL DEF Spec

LEMMA Invariants ==
  ASSUME SafeConfigs
  PROVE  Spec => [](TypeOK /\ WorkInv /\ SafeInv)
<1>1. Init => TypeOK /\ WorkInv /\ SafeInv
  BY InitTypes, InitSafe
<1>2. TypeOK /\ WorkInv /\ SafeInv /\ [Next]_vars => (TypeOK /\ WorkInv /\ SafeInv)'
  BY TypeStep, SafeStep
<1>3. QED  BY <1>1, <1>2, PTL DEF Spec

(***************************************************************************)
(* When ATOMIC_INC is atomic, or one thread runs, the counters are the     *)
(* number of unsettled operations whenever no thread is halfway through    *)
(* counting.                                                               *)
(***************************************************************************)
THEOREM CountersCorrect ==
  ASSUME SafeConfigs
  PROVE  Spec => []CountersTrack
<1>1. TypeOK /\ WorkInv /\ SafeInv => CountersTrack
  <2> SUFFICES ASSUME TypeOK, WorkInv, SafeInv, \A t \in Thread : Settled(t)
               PROVE  pending_send_wr = Len(sq) /\ qp_pending_send_wr = Len(sq)
    BY DEF CountersTrack
  <2>1. \A t \in Thread : pc[t] \notin Inc \cup Dec
    BY DEF Settled, Inc, Dec
  <2>2. /\ pending_send_wr = Len(sq) + 0 - 0 /\ qp_pending_send_wr = Len(sq) + 0 - 0
        /\ Len(sq) \in Nat
    BY <2>1, Quiet DEF SafeInv, ExactInv, TypeOK
  <2>3. QED  BY <2>2
<1>2. QED  BY <1>1, Invariants, PTL

(***************************************************************************)
(* When ATOMIC_INC is atomic, or one thread runs, no write is outstanding  *)
(* once all threads are joined.                                            *)
(***************************************************************************)
THEOREM DeallocCorrect ==
  ASSUME SafeConfigs
  PROVE  Spec => []DeallocSafe
<1>1. SafeInv => DeallocSafe
  BY DEF SafeInv, FlushedInv, DeallocSafe
<1>2. QED  BY <1>1, Invariants, PTL

================================================================================
