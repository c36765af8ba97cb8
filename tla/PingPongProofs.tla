--------------------------- MODULE PingPongProofs ---------------------------
(* Theorems about the programs that exchange messages in pairs (rc_pingpong,    *)
(* uc_pingpong, ud_pingpong and srq_pingpong), for any number of iterations,    *)
(* receives, queue pairs and failures. The two processes of a pair pass a ball  *)
(* on each QP: a message on the wire, a completion not handled yet, or a send   *)
(* that is owed (PairInv). That the ball is one bounds the queues and makes two *)
(* completions per wake-up enough.                                              *)
EXTENDS VerbsPrograms, FiniteSetTheorems, SequenceTheorems, TLAPS

(****************************************************************************)
(* What holds of one process of a pair: of node n, with local state p and    *)
(* HCA h, running program P.                                                 *)
(****************************************************************************)
LoopPc == {"loop", "poll", "parse", "next_poll"}
Before == {"create", "exchange", "read_addr", "connect", "read_done"}
Gone == {"done", "failed", "no_ctx"}

Typed(p, h) ==
  /\ p \in [pc : {p.pc}, made : {p.made}, todo : Seq(Completion),
            pending : [QP -> SUBSET Op], routs : Nat, scnt : Nat, rcnt : Nat,
            pp_cnt : {p.pp_cnt}, turn : Nat]
  /\ h \in HCA /\ h.tx_cq = <<>>

(* Where the process can be, and what it has not done yet there.                *)
PlaceInv(P, n, p) ==
  /\ p.pc \in Before \cup {"first"} \cup LoopPc \cup Gone
  /\ n = 0 => p.pc \notin {"read_addr", "connect", "first"}
  /\ n = 1 => p.pc # "read_done"
  /\ p.pc = "parse" <=> p.todo # <<>>
  /\ p.pc = "poll" => P.event
  /\ p.pc = "next_poll" => P.ts
  /\ p.pc \in Before => \A q \in QP : p.pending[q] = {}
  /\ p.pc \in Before \cup {"first"} => p.scnt = 0 /\ p.rcnt = 0

Reliable(P) == P.transport \in {"RC", "XRC"}

(* Its QPs, and that its messages and completions belong to them.               *)
QueueInv(P, n, p, h) ==
  /\ p.pc \in {"create"} \cup Gone =>
       h = [NoHCA EXCEPT !.wire = h.wire] /\ (Reliable(P) => h.wire = NoHCA.wire)
  /\ p.pc \in {"read_done", "first"} \cup LoopPc => \A q \in P.qps[n] : h.qp[q] = "rts"
  /\ \A q \in QP : \A i \in DOMAIN h.wire[q] :
       q \in P.qps[n] /\ h.wire[q][i] = [to |-> 1 - n, qp |-> q, via |-> 1 - n, viaQp |-> q,
                                         signaled |-> TRUE]
  /\ \A q \in QP : h.acks[q] > 0 => q \in P.qps[n]
  /\ \A i \in DOMAIN h.cq : h.cq[i].qp \in P.qps[n]
  /\ \A i \in DOMAIN p.todo : p.todo[i].qp \in P.qps[n]

(* Completions in a sequence, of an operation on a QP or of any receive.        *)
Tally(s, M) == Cardinality({i \in DOMAIN s : s[i] \in M})
Of(op, q) == {w \in Completion : w.op = op /\ w.qp = q}
OfRecv == {w \in Completion : w.op = "recv"}

(* Messages of q that this side sent and the other has not received, that it    *)
(* received and has not handled, or that it owes the other.                     *)
Arrived(p, h, q) == Tally(h.cq, Of("recv", q)) + Tally(p.todo, Of("recv", q))
Owes(P, n, p, q) ==
  IF /\ q \in P.qps[n] /\ "recv" \notin p.pending[q]
     /\ p.pc \notin Gone /\ (n = 0 => p.pc \in LoopPc)
  THEN 1 ELSE 0
Balls(P, n, p, h, q) == Len(h.wire[q]) + Arrived(p, h, q) + Owes(P, n, p, q)

(* Sends of q that are not handled, and how many may be.                        *)
Sends(P, p, h, q) == (IF Reliable(P) THEN Len(h.wire[q]) ELSE 0) + h.acks[q]
                       + Tally(h.cq, Of("send", q)) + Tally(p.todo, Of("send", q))
Sending(p, q) == IF "send" \in p.pending[q] THEN 1 ELSE 0
SendInv(P, p, h) == \A q \in QP : Sends(P, p, h, q) <= Sending(p, q)

(* Between the two polls of a process that polls with timestamps.               *)
Between(P, p) == P.ts /\ (p.pc = "next_poll" \/ (p.pc = "parse" /\ p.turn = 0))

(* What is in the CQ has left an event, but for what the polls under way take.  *)
WakeInv(P, p, h) == P.event /\ p.pc \notin {"create"} \cup Gone =>
  /\ h.armed \/ h.events > 0
  /\ Between(P, p) /\ Len(h.cq) >= 2 => h.events > 0
  /\ p.pc # "poll" /\ ~Between(P, p) /\ h.cq # <<>> => h.events > 0

(* routs is the number of receives posted and not handled.                      *)
RecvInv(P, p, h) == p.pc \notin {"create"} \cup Gone =>
  p.routs >= 1 /\ p.routs = h.rq + Tally(h.cq, OfRecv) + Tally(p.todo, OfRecv)

LocalInv(P, n, p, h) ==
  /\ Typed(p, h)
  /\ PlaceInv(P, n, p)
  /\ QueueInv(P, n, p, h)
  /\ SendInv(P, p, h)
  /\ WakeInv(P, p, h)
  /\ RecvInv(P, p, h)

(****************************************************************************)
(* What holds of the pair.                                                   *)
(****************************************************************************)
Pair == {0, 1}

PairInv ==
  /\ program \in Programs
  /\ DOMAIN proc = Node /\ DOMAIN hca = Node
  /\ \A n \in Pair : LocalInv(program, n, proc[n], hca[n])
  /\ \A n \in Node \ Pair : hca[n] = NoHCA
  /\ \A q \in QP : Balls(program, 0, proc[0], hca[0], q)
                     + Balls(program, 1, proc[1], hca[1], q) <= 1

(****************************************************************************)
(* Completions in a sequence.                                                *)
(****************************************************************************)
LEMMA TallyType ==
  ASSUME NEW S, NEW s \in Seq(S), NEW M
  PROVE  /\ Tally(s, M) \in Nat
         /\ \A i \in DOMAIN s : s[i] \in M => Tally(s, M) >= 1
         /\ \A i, j \in DOMAIN s : s[i] \in M /\ s[j] \in M
              => Tally(s, M) >= 2 \/ i = j
<1> DEFINE T == {i \in DOMAIN s : s[i] \in M}
<1>1. Len(s) \in Nat /\ DOMAIN s = 1 .. Len(s)
  OBVIOUS
<1>2. IsFiniteSet(DOMAIN s) /\ T \in SUBSET DOMAIN s
  BY <1>1, FS_Interval
<1>3. IsFiniteSet(T)
  BY <1>2, FS_Subset
<1>4. Tally(s, M) = Cardinality(T) /\ Cardinality(T) \in Nat
  BY <1>3, FS_CardinalityType DEF Tally
<1>5. \A i \in DOMAIN s : s[i] \in M => i \in T
  OBVIOUS
<1> HIDE DEF T
<1>6. ASSUME NEW i \in T PROVE Cardinality(T) >= 1
  <2>1. T # {}
    BY <1>6
  <2>2. QED  BY <2>1, <1>3, <1>4, FS_EmptySet
<1>7. ASSUME NEW i \in T, NEW j \in T, i # j PROVE Cardinality(T) >= 2
  <2> DEFINE D == {i}
  <2>0. IsFiniteSet(D) /\ Cardinality(D) = 1 /\ j \notin D
    BY <1>7, FS_Singleton
  <2>2. D \cup {j} \in SUBSET T
    OBVIOUS
  <2> HIDE DEF D
  <2>1. Cardinality(D \cup {j}) = 2
    <3>1. Cardinality(D \cup {j}) = IF j \in D THEN Cardinality(D) ELSE Cardinality(D) + 1
      BY <2>0, FS_AddElement
    <3>2. QED  BY <3>1, <2>0
  <2>3. Cardinality(D \cup {j}) <= Cardinality(T)
    BY <2>2, <1>3, FS_Subset
  <2>4. QED  BY <2>1, <2>3, <1>4
<1>8. QED  BY <1>4, <1>5, <1>6, <1>7

LEMMA TallyConcat ==
  ASSUME NEW S, NEW s \in Seq(S), NEW t \in Seq(S), NEW M
  PROVE  Tally(s \o t, M) = Tally(s, M) + Tally(t, M)
<1> DEFINE A == {i \in DOMAIN s : s[i] \in M}
           B == {i \in DOMAIN t : t[i] \in M}
           n == Len(s)
           B2 == {i \in n + 1 .. n + Len(t) : t[i - n] \in M}
           u == s \o t
<1>1. /\ n \in Nat /\ Len(t) \in Nat /\ DOMAIN s = 1 .. n /\ DOMAIN t = 1 .. Len(t)
      /\ DOMAIN u = 1 .. n + Len(t)
      /\ \A i \in 1 .. n : u[i] = s[i]
      /\ \A i \in n + 1 .. n + Len(t) : u[i] = t[i - n]
  BY ConcatProperties, LenProperties
<1>2. {i \in DOMAIN u : u[i] \in M} = A \cup B2
  BY <1>1
<1>3. IsFiniteSet(A) /\ IsFiniteSet(B) /\ A \cap B2 = {}
  <2>1. IsFiniteSet(1 .. n) /\ IsFiniteSet(1 .. Len(t))
    BY <1>1, FS_Interval
  <2>2. A \in SUBSET (1 .. n) /\ B \in SUBSET (1 .. Len(t)) /\ A \cap B2 = {}
    BY <1>1
  <2>3. QED  BY <2>1, <2>2, FS_Subset
<1>4. ExistsBijection(B, B2)
  <2> DEFINE f == [i \in B |-> i + n]
  <2>1. f \in [B -> B2]
    BY <1>1
  <2>2. \A i, j \in B : f[i] = f[j] => i = j
    BY <1>1
  <2>3. \A k \in B2 : \E i \in B : f[i] = k
    <3> SUFFICES ASSUME NEW k \in B2 PROVE \E i \in B : f[i] = k
      OBVIOUS
    <3>1. k - n \in B /\ (k - n) + n = k
      BY <1>1
    <3>2. QED  BY <3>1
  <2>4. f \in Bijection(B, B2)
    BY <2>1, <2>2, <2>3 DEF Bijection, Injection, Surjection, IsInjective
  <2>5. QED  BY <2>4 DEF ExistsBijection
<1>5. IsFiniteSet(B2) /\ Cardinality(B2) = Cardinality(B)
  BY <1>3, <1>4, FS_Bijection
<1>6. Cardinality(A \cup B2) = Cardinality(A) + Cardinality(B2) - Cardinality(A \cap B2)
  BY <1>3, <1>5, FS_Union
<1>7. Cardinality(A) \in Nat /\ Cardinality(B) \in Nat /\ Cardinality(A \cap B2) = 0
  BY <1>3, FS_CardinalityType, FS_EmptySet
<1>8. Tally(u, M) = Cardinality(A \cup B2) /\ Tally(s, M) = Cardinality(A)
      /\ Tally(t, M) = Cardinality(B)
  BY <1>2 DEF Tally
<1> HIDE DEF A, B, B2, u
<1>9. Tally(u, M) = Tally(s, M) + Tally(t, M)
  BY <1>5, <1>6, <1>7, <1>8
<1>10. QED  BY <1>9 DEF u

LEMMA TallyOne ==
  ASSUME NEW w, NEW M
  PROVE  Tally(<<w>>, M) = (IF w \in M THEN 1 ELSE 0)
<1> DEFINE T == {i \in DOMAIN <<w>> : <<w>>[i] \in M}
<1>1. T = (IF w \in M THEN {1} ELSE {})
  OBVIOUS
<1>2. Cardinality({1}) = 1 /\ Cardinality({}) = 0
  BY FS_Singleton, FS_EmptySet
<1>3. Tally(<<w>>, M) = Cardinality(T)
  BY DEF Tally
<1> HIDE DEF T
<1>4. QED  BY <1>1, <1>2, <1>3

LEMMA TallyEmpty == \A M : Tally(<<>>, M) = 0
<1> SUFFICES ASSUME NEW M PROVE Tally(<<>>, M) = 0
  OBVIOUS
<1>1. {i \in DOMAIN <<>> : <<>>[i] \in M} = {}
  OBVIOUS
<1>2. QED  BY <1>1, FS_EmptySet DEF Tally

LEMMA TallyAppend ==
  ASSUME NEW S, NEW s \in Seq(S), NEW w \in S, NEW M
  PROVE  Tally(Append(s, w), M) = Tally(s, M) + (IF w \in M THEN 1 ELSE 0)
<1> DEFINE l == <<w>>
<1>1. l \in Seq(S) /\ Append(s, w) = s \o l
  BY AppendIsConcat
<1>2. Tally(l, M) = (IF w \in M THEN 1 ELSE 0)
  BY TallyOne
<1> HIDE DEF l
<1>3. Tally(s \o l, M) = Tally(s, M) + Tally(l, M)
  BY <1>1, TallyConcat
<1>4. QED  BY <1>1, <1>2, <1>3

(* A sequence cut in two: what a poll takes and what it leaves.                 *)
LEMMA TallySplit ==
  ASSUME NEW S, NEW s \in Seq(S), NEW k \in 0 .. Len(s), NEW M
  PROVE  Tally(s, M) = Tally(SubSeq(s, 1, k), M) + Tally(SubSeq(s, k + 1, Len(s)), M)
<1> DEFINE a == SubSeq(s, 1, k)
           b == SubSeq(s, k + 1, Len(s))
<1>1. Len(s) \in Nat /\ k \in Int /\ 1 \in 1 .. Len(s) + 1 /\ k \in 1 - 1 .. Len(s)
      /\ Len(s) \in k .. Len(s) /\ k + 1 \in Int
  BY LenProperties
<1>2. \A i \in 1 .. Len(s) : s[i] \in S
  BY ElementOfSeq
<1>3. a \in Seq(S) /\ b \in Seq(S)
  <2>1. (\A i \in 1 .. k : s[i] \in S) /\ (\A i \in k + 1 .. Len(s) : s[i] \in S)
    BY <1>1, <1>2
  <2>2. QED  BY <2>1, <1>1, SubSeqProperties
<1>4. a \o b = s
  BY <1>1, ConcatAdjacentSubSeq, SubSeqFull
<1> HIDE DEF a, b
<1>5. Tally(a \o b, M) = Tally(a, M) + Tally(b, M)
  BY <1>3, TallyConcat
<1>6. QED  BY <1>4, <1>5 DEF a, b

LEMMA TallyTail ==
  ASSUME NEW S, NEW s \in Seq(S), s # <<>>, NEW M
  PROVE  Tally(s, M) = Tally(Tail(s), M) + (IF Head(s) \in M THEN 1 ELSE 0)
<1> DEFINE l == <<Head(s)>>
           r == Tail(s)
           m == IF Head(s) \in M THEN 1 ELSE 0
<1>1. l \in Seq(S) /\ r \in Seq(S)
  BY HeadTailProperties
<1>2. s = l \o r
  OBVIOUS
<1>3. Tally(l, M) = m /\ m \in Nat
  BY TallyOne
<1>4. Tally(r, M) \in Nat
  BY <1>1, TallyType
<1> HIDE DEF l, r, m
<1>5. Tally(l \o r, M) = Tally(l, M) + Tally(r, M)
  BY <1>1, TallyConcat
<1>6. Tally(s, M) = Tally(r, M) + m
  BY <1>2, <1>3, <1>4, <1>5
<1>7. QED  BY <1>6 DEF r, m

(* A CQ with at most one completion of each operation on each QP.               *)
LEMMA CqLength ==
  ASSUME NEW Q, Q \subseteq QP, NEW s \in Seq(Completion),
         \A i \in DOMAIN s : s[i].qp \in Q,
         \A op \in Op, q \in QP : Tally(s, Of(op, q)) <= 1
  PROVE  Len(s) \in Nat /\ Cardinality(Q) \in Nat /\ Len(s) <= 2 * Cardinality(Q)
<1>1. IsFiniteSet(Q) /\ Cardinality(Q) \in Nat
  BY QPAssumption, FS_Subset, FS_CardinalityType
<1>2. IsFiniteSet(Op) /\ Cardinality(Op) = 2
  <2>1. IsFiniteSet({"send"}) /\ Cardinality({"send"}) = 1
    BY FS_Singleton
  <2> DEFINE D == {"send"}
  <2>2. "recv" \notin D /\ D \cup {"recv"} = Op
    BY DEF Op
  <2> HIDE DEF D
  <2>3. IsFiniteSet(D) /\ Cardinality(D) = 1
    BY <2>1 DEF D
  <2>4. IsFiniteSet(D \cup {"recv"})
        /\ Cardinality(D \cup {"recv"}) = IF "recv" \in D THEN Cardinality(D) ELSE Cardinality(D) + 1
    BY <2>3, FS_AddElement
  <2>5. Cardinality(D \cup {"recv"}) = 2
    BY <2>2, <2>3, <2>4
  <2>6. QED  BY <2>2, <2>4, <2>5, Zenon
<1>3. IsFiniteSet(Op \X Q) /\ Cardinality(Op \X Q) = Cardinality(Op) * Cardinality(Q)
  BY <1>1, <1>2, FS_Product
<1> DEFINE f == [i \in DOMAIN s |-> <<s[i].op, s[i].qp>>]
<1>4. \A i \in DOMAIN s : s[i] \in Completion /\ s[i].op \in Op
  <2>1. \A i \in 1 .. Len(s) : s[i] \in Completion
    BY ElementOfSeq
  <2>2. QED  BY <2>1 DEF Completion, Op
<1>5. f \in [DOMAIN s -> Op \X Q]
  BY <1>4
<1>6. \A i, j \in DOMAIN s : i # j => f[i] # f[j]
  <2> SUFFICES ASSUME NEW i \in DOMAIN s, NEW j \in DOMAIN s, f[i] = f[j] PROVE i = j
    BY Zenon
  <2>1. s[i].op = s[j].op /\ s[i].qp = s[j].qp
    OBVIOUS
  <2>2. s[i] \in Of(s[i].op, s[i].qp) /\ s[j] \in Of(s[i].op, s[i].qp)
    BY <1>4, <2>1 DEF Of
  <2>3. Tally(s, Of(s[i].op, s[i].qp)) \in Nat /\ (Tally(s, Of(s[i].op, s[i].qp)) >= 2 \/ i = j)
    BY <2>2, TallyType
  <2>4. Tally(s, Of(s[i].op, s[i].qp)) <= 1
    BY <1>4
  <2>5. QED  BY <2>3, <2>4
<1>7. f \in Injection(DOMAIN s, Op \X Q)
  BY <1>5, <1>6 DEF Injection, IsInjective
<1>8. Cardinality(DOMAIN s) <= Cardinality(Op \X Q)
  BY <1>7, <1>3, FS_Injection
<1>9. Len(s) \in Nat /\ DOMAIN s = 1 .. Len(s)
  OBVIOUS
<1>10. Cardinality(1 .. Len(s)) = Len(s)
  <2>1. 1 \in Int /\ Len(s) \in Int
    BY <1>9
  <2>2. Cardinality(1 .. Len(s)) = IF 1 > Len(s) THEN 0 ELSE Len(s) - 1 + 1
    BY <2>1, FS_Interval
  <2>3. QED  BY <1>9, <2>2
<1>11. QED  BY <1>1, <1>2, <1>3, <1>8, <1>9, <1>10

(****************************************************************************)
(* The programs.                                                             *)
(****************************************************************************)
LEMMA PairProgram ==
  ASSUME NEW P \in Programs, P.name \in PingPongs
  PROVE  /\ \A n \in Pair : /\ P.qps[n] = P.qps[0] /\ P.qps[n] \subseteq QP /\ 0 \in P.qps[n]
                            /\ P.cqe[n] = RxDepth + Cardinality(P.qps[n]) /\ P.tx_cqe[n] = 0
         /\ \A n \in Node \ Pair : P.qps[n] = {}
         /\ P.rx_depth = RxDepth /\ P.split = FALSE /\ P.max_send_wr = 1
         /\ P.iters \in Nat \ {0} /\ P.event \in BOOLEAN /\ P.ts \in BOOLEAN
         /\ P.ts => P.name = "rc"
         /\ P.name # "srq" => \A n \in Pair : P.qps[n] = {0}
         /\ P.name \in {"rc", "srq"} => Reliable(P)
         /\ P.name \in {"uc", "ud"} => ~Reliable(P)
<1>1. PICK event \in BOOLEAN, ts \in BOOLEAN :
        \E o \in {Rc(event, ts), Uc(event), Ud(event), Srq(event)} : P = [o EXCEPT !.iters = P.iters]
  BY ProgramsAssumption
<1>2. P.iters \in Nat \ {0}
  BY ProgramsAssumption
<1>3. 0 \in Node /\ 1 \in Node /\ Node \subseteq Nat /\ \A n \in Node : n < 2 <=> n \in Pair
  BY NodeAssumption DEF Pair
<1>4. Cardinality({0}) = 1 /\ 0 \in QP
  BY FS_Singleton, QPAssumption
<1>5. CASE P = [Rc(event, ts) EXCEPT !.iters = P.iters]
  <2>1. /\ P.name = "rc" /\ P.transport = Rc(event, ts).transport /\ P.split = FALSE
        /\ P.event = event /\ P.ts = ts /\ P.max_send_wr = 1 /\ P.rx_depth = RxDepth
        /\ P.qps = Rc(event, ts).qps /\ P.cqe = Rc(event, ts).cqe /\ P.tx_cqe = Rc(event, ts).tx_cqe
    BY <1>5 DEF Rc
  <2>2. \A n \in Node : /\ P.qps[n] = IF n \in Pair THEN {0} ELSE {}
                      /\ P.cqe[n] = RxDepth + 1 /\ P.tx_cqe[n] = 0
    BY <2>1, <1>3 DEF Rc
  <2>3. Reliable(P)
    BY <2>1 DEF Rc, Reliable
  <2>4. QED  BY <1>2, <1>3, <1>4, <2>1, <2>2, <2>3 DEF Pair
<1>6. CASE P = [Uc(event) EXCEPT !.iters = P.iters]
  <2>1. /\ P.name = "uc" /\ P.transport = Uc(event).transport /\ P.split = FALSE
        /\ P.event = event /\ P.ts = FALSE /\ P.max_send_wr = 1 /\ P.rx_depth = RxDepth
        /\ P.qps = Uc(event).qps /\ P.cqe = Uc(event).cqe /\ P.tx_cqe = Uc(event).tx_cqe
    BY <1>6 DEF Uc
  <2>2. \A n \in Node : /\ P.qps[n] = IF n \in Pair THEN {0} ELSE {}
                      /\ P.cqe[n] = RxDepth + 1 /\ P.tx_cqe[n] = 0
    BY <2>1, <1>3 DEF Uc
  <2>3. ~Reliable(P)
    BY <2>1 DEF Uc, Reliable
  <2>4. P.name # "srq" /\ P.name \notin {"rc", "srq"} /\ P.ts \in BOOLEAN /\ ~P.ts
    BY <2>1
  <2>5. /\ \A n \in Pair : /\ P.qps[n] = P.qps[0] /\ P.qps[n] \subseteq QP /\ 0 \in P.qps[n]
                          /\ P.cqe[n] = RxDepth + Cardinality(P.qps[n]) /\ P.tx_cqe[n] = 0
                          /\ P.qps[n] = {0}
        /\ \A n \in Node \ Pair : P.qps[n] = {}
    BY <1>3, <1>4, <2>2 DEF Pair
  <2>6. QED  BY <1>2, <2>1, <2>3, <2>4, <2>5
<1>7. CASE P = [Ud(event) EXCEPT !.iters = P.iters]
  <2>1. /\ P.name = "ud" /\ P.transport = Ud(event).transport /\ P.split = FALSE
        /\ P.event = event /\ P.ts = FALSE /\ P.max_send_wr = 1 /\ P.rx_depth = RxDepth
        /\ P.qps = Ud(event).qps /\ P.cqe = Ud(event).cqe /\ P.tx_cqe = Ud(event).tx_cqe
    BY <1>7 DEF Ud
  <2>2. \A n \in Node : /\ P.qps[n] = IF n \in Pair THEN {0} ELSE {}
                      /\ P.cqe[n] = RxDepth + 1 /\ P.tx_cqe[n] = 0
    BY <2>1, <1>3 DEF Ud
  <2>3. ~Reliable(P)
    BY <2>1 DEF Ud, Reliable
  <2>4. P.name # "srq" /\ P.name \notin {"rc", "srq"} /\ P.ts \in BOOLEAN /\ ~P.ts
    BY <2>1
  <2>5. /\ \A n \in Pair : /\ P.qps[n] = P.qps[0] /\ P.qps[n] \subseteq QP /\ 0 \in P.qps[n]
                          /\ P.cqe[n] = RxDepth + Cardinality(P.qps[n]) /\ P.tx_cqe[n] = 0
                          /\ P.qps[n] = {0}
        /\ \A n \in Node \ Pair : P.qps[n] = {}
    BY <1>3, <1>4, <2>2 DEF Pair
  <2>6. QED  BY <1>2, <2>1, <2>3, <2>4, <2>5
<1>8. CASE P = [Srq(event) EXCEPT !.iters = P.iters]
  <2>1. /\ P.name = "srq" /\ P.transport = Srq(event).transport /\ P.split = FALSE
        /\ P.event = event /\ P.ts = FALSE /\ P.max_send_wr = 1 /\ P.rx_depth = RxDepth
        /\ P.qps = Srq(event).qps /\ P.cqe = Srq(event).cqe /\ P.tx_cqe = Srq(event).tx_cqe
    BY <1>8 DEF Srq
  <2>2. \A n \in Node : /\ P.qps[n] = IF n \in Pair THEN QP ELSE {}
                      /\ P.cqe[n] = RxDepth + Cardinality(QP) /\ P.tx_cqe[n] = 0
    BY <2>1, <1>3 DEF Srq
  <2>3. Reliable(P)
    BY <2>1 DEF Srq, Reliable
  <2>4. QED  BY <1>2, <1>3, <1>4, <2>1, <2>2, <2>3 DEF Pair
<1>9. QED  BY <1>1, <1>5, <1>6, <1>7, <1>8

(****************************************************************************)
(* One process at a time: its steps keep LocalInv, and no step makes a ball. *)
(****************************************************************************)
LEMMA Fields ==
  ASSUME NEW p, NEW h, Typed(p, h)
  PROVE  /\ p.todo \in Seq(Completion) /\ p.pending \in [QP -> SUBSET Op]
         /\ p.routs \in Nat /\ p.scnt \in Nat /\ p.rcnt \in Nat /\ p.turn \in Nat
         /\ h.qp \in [QP -> {"none", "init", "rts"}] /\ h.rq \in Nat
         /\ h.wire \in [QP -> Seq(Message)] /\ h.acks \in [QP -> Nat]
         /\ h.cq \in Seq(Completion) /\ h.tx_cq = <<>> /\ h.armed \in BOOLEAN /\ h.events \in Nat
BY DEF Typed, HCA

LEMMA Numbers ==
  ASSUME NEW P, NEW n, NEW p, NEW h, Typed(p, h), NEW q \in QP
  PROVE  /\ Len(h.wire[q]) \in Nat /\ h.acks[q] \in Nat
         /\ \A M : Tally(h.cq, M) \in Nat /\ Tally(p.todo, M) \in Nat
         /\ Arrived(p, h, q) \in Nat /\ Owes(P, n, p, q) \in {0, 1}
         /\ Balls(P, n, p, h, q) \in Nat /\ Sends(P, p, h, q) \in Nat /\ Sending(p, q) \in {0, 1}
         /\ Balls(P, n, p, h, q) >= Len(h.wire[q])
         /\ Reliable(P) => Sends(P, p, h, q) >= Len(h.wire[q])
<1>1. Len(h.wire[q]) \in Nat /\ h.acks[q] \in Nat
  BY Fields
<1>2. \A M : Tally(h.cq, M) \in Nat /\ Tally(p.todo, M) \in Nat
  BY Fields, TallyType
<1>3. Arrived(p, h, q) \in Nat
  BY <1>2 DEF Arrived
<1>4. Owes(P, n, p, q) \in {0, 1} /\ Sending(p, q) \in {0, 1}
  BY DEF Owes, Sending
<1>5. Balls(P, n, p, h, q) \in Nat /\ Balls(P, n, p, h, q) >= Len(h.wire[q])
  <2> DEFINE k == Len(h.wire[q])
             a == Arrived(p, h, q)
             o == Owes(P, n, p, q)
             b == Balls(P, n, p, h, q)
  <2>1. b = k + a + o /\ k \in Nat /\ a \in Nat /\ o \in {0, 1}
    BY <1>1, <1>3, <1>4 DEF Balls
  <2> HIDE DEF k, a, o, b
  <2>2. b \in Nat /\ b >= k
    BY <2>1
  <2>3. QED  BY <2>2 DEF b, k
<1>6. Sends(P, p, h, q) \in Nat /\ (Reliable(P) => Sends(P, p, h, q) >= Len(h.wire[q]))
  <2> DEFINE k == IF Reliable(P) THEN Len(h.wire[q]) ELSE 0
             c == h.acks[q]
             x == Tally(h.cq, Of("send", q))
             y == Tally(p.todo, Of("send", q))
             b == Sends(P, p, h, q)
  <2>1. /\ b = k + c + x + y /\ k \in Nat /\ c \in Nat /\ x \in Nat /\ y \in Nat
        /\ Reliable(P) => k = Len(h.wire[q])
    BY <1>1, <1>2 DEF Sends
  <2> HIDE DEF k, c, x, y, b
  <2>2. b \in Nat /\ b >= k
    BY <2>1
  <2>3. QED  BY <2>1, <2>2 DEF b
<1>7. QED  BY <1>1, <1>2, <1>3, <1>4, <1>5, <1>6

(* A process that keeps its queues and completions.                             *)
LEMMA SameQueues ==
  ASSUME NEW P, NEW n, NEW p, NEW h, NEW p2, NEW h2, NEW q \in QP, Typed(p, h), Typed(p2, h2),
         h2.wire = h.wire, h2.acks = h.acks, h2.cq = h.cq, p2.todo = p.todo,
         Owes(P, n, p2, q) <= Owes(P, n, p, q), p2.pending[q] = p.pending[q]
  PROVE  /\ Arrived(p2, h2, q) = Arrived(p, h, q)
         /\ Sends(P, p2, h2, q) = Sends(P, p, h, q) /\ Sending(p2, q) = Sending(p, q)
         /\ Balls(P, n, p2, h2, q) <= Balls(P, n, p, h, q)
<1>1. /\ Arrived(p2, h2, q) = Arrived(p, h, q)
      /\ Sends(P, p2, h2, q) = Sends(P, p, h, q) /\ Sending(p2, q) = Sending(p, q)
  BY DEF Arrived, Sends, Sending
<1>2. /\ Len(h.wire[q]) \in Nat /\ Arrived(p, h, q) \in Nat
      /\ Owes(P, n, p, q) \in {0, 1} /\ Owes(P, n, p2, q) \in {0, 1}
  BY Numbers
<1>3. /\ Balls(P, n, p2, h2, q) = Len(h.wire[q]) + Arrived(p, h, q) + Owes(P, n, p2, q)
      /\ Balls(P, n, p, h, q) = Len(h.wire[q]) + Arrived(p, h, q) + Owes(P, n, p, q)
  BY <1>1 DEF Balls
<1>4. QED  BY <1>1, <1>2, <1>3

(* pp_init_ctx: the receives are posted and the CQ is armed.                    *)
LEMMA PreparedLocal ==
  ASSUME NEW P \in Programs, P.name \in PingPongs, NEW n \in Pair, NEW p, NEW h, NEW m,
         LocalInv(P, n, p, h), p.pc = "create"
  PROVE  LET p2 == [p EXCEPT !.pc = "exchange", !.routs = RxDepth, !.made = m]
             h2 == Created(h, P.qps[n], RxDepth, P.event)
         IN LocalInv(P, n, p2, h2) /\ \A q \in QP : Balls(P, n, p2, h2, q) <= Balls(P, n, p, h, q)
<1> DEFINE p2 == [p EXCEPT !.pc = "exchange", !.routs = RxDepth, !.made = m]
           h2 == Created(h, P.qps[n], RxDepth, P.event)
<1>1. RxDepth \in Nat /\ RxDepth >= 1 /\ P.event \in BOOLEAN /\ P.qps[n] \subseteq QP
  <2>1. Cardinality(QP) \in Nat /\ Cardinality(QP) # 0
    BY QPAssumption, FS_CardinalityType, FS_EmptySet
  <2>2. RxDepth \in Nat /\ RxDepth >= 1
    BY <2>1, DepthAssumption
  <2>3. P.event \in BOOLEAN /\ P.qps[n] \subseteq QP
    BY PairProgram
  <2>4. QED  BY <2>2, <2>3
<1>2. Typed(p, h) /\ PlaceInv(P, n, p) /\ QueueInv(P, n, p, h) /\ SendInv(P, p, h)
  BY DEF LocalInv
<1>3. /\ p2.pc = "exchange" /\ p2.routs = RxDepth /\ p2.todo = p.todo /\ p2.pending = p.pending
      /\ p2.scnt = p.scnt /\ p2.rcnt = p.rcnt /\ p2.turn = p.turn
      /\ p2 \in [pc : {p2.pc}, made : {p2.made}, todo : Seq(Completion),
            pending : [QP -> SUBSET Op], routs : Nat, scnt : Nat, rcnt : Nat,
            pp_cnt : {p2.pp_cnt}, turn : Nat]
  BY <1>1, <1>2 DEF Typed
<1>4. /\ h2.wire = h.wire /\ h2.acks = h.acks /\ h2.cq = h.cq /\ h2.rq = RxDepth
      /\ h2.armed = P.event /\ h2 \in HCA /\ h2.tx_cq = <<>>
  BY <1>1, <1>2 DEF Typed, HCA, Created
<1>5. /\ p.todo = <<>> /\ h.cq = <<>> /\ \A q \in QP : p.pending[q] = {} /\ h.acks[q] = 0
  BY <1>2, <1>3 DEF PlaceInv, QueueInv, Before, NoHCA
<1> HIDE DEF p2, h2
<1>6. Typed(p2, h2)
  BY <1>3, <1>4 DEF Typed
<1>7. PlaceInv(P, n, p2)
  BY <1>2, <1>3 DEF PlaceInv, Before, LoopPc, Gone
<1>8. QueueInv(P, n, p2, h2)
  BY <1>2, <1>3, <1>4, <1>5 DEF QueueInv, LoopPc, Gone
<1>9. \A q \in QP : Owes(P, n, p2, q) <= Owes(P, n, p, q)
  BY <1>2, <1>3, <1>5 DEF Owes, LoopPc, Gone
<1>10. \A q \in QP : /\ Arrived(p2, h2, q) = Arrived(p, h, q)
                     /\ Sends(P, p2, h2, q) = Sends(P, p, h, q) /\ Sending(p2, q) = Sending(p, q)
                     /\ Balls(P, n, p2, h2, q) <= Balls(P, n, p, h, q)
  BY <1>2, <1>3, <1>4, <1>6, <1>9, SameQueues
<1>11. SendInv(P, p2, h2)
  BY <1>2, <1>10 DEF SendInv
<1>12. WakeInv(P, p2, h2)
  BY <1>3, <1>4, <1>5 DEF WakeInv, Between
<1>13. RecvInv(P, p2, h2)
  <2>1. Tally(h2.cq, OfRecv) = 0 /\ Tally(p2.todo, OfRecv) = 0
    BY <1>3, <1>4, <1>5, TallyEmpty
  <2>2. p2.routs = RxDepth /\ h2.rq = RxDepth
    BY <1>3, <1>4
  <2>3. QED  BY <1>1, <2>1, <2>2 DEF RecvInv
<1>14. QED  BY <1>6, <1>7, <1>8, <1>10, <1>11, <1>12, <1>13 DEF LocalInv, p2, h2

(* The process goes on in its program; its queues and completions stay.         *)
LEMMA MovedLocal ==
  ASSUME NEW P, NEW n \in Pair, NEW p, NEW h, LocalInv(P, n, p, h),
         NEW pc2, NEW m, NEW h2 \in HCA, pc2 \notin Gone, p.pc \notin {"create"} \cup Gone,
         h2.wire = h.wire, h2.acks = h.acks, h2.cq = h.cq, h2.rq = h.rq, h2.tx_cq = h.tx_cq,
         n = 0 /\ pc2 \in LoopPc => p.pc \in LoopPc,
         PlaceInv(P, n, [p EXCEPT !.pc = pc2, !.made = m]),
         pc2 # "create",
         pc2 \in {"read_done", "first"} \cup LoopPc => \A q \in P.qps[n] : h2.qp[q] = "rts",
         WakeInv(P, [p EXCEPT !.pc = pc2, !.made = m], h2)
  PROVE  LET p2 == [p EXCEPT !.pc = pc2, !.made = m]
         IN LocalInv(P, n, p2, h2) /\ \A q \in QP : Balls(P, n, p2, h2, q) <= Balls(P, n, p, h, q)
<1> DEFINE p2 == [p EXCEPT !.pc = pc2, !.made = m]
<1>1. Typed(p, h) /\ QueueInv(P, n, p, h) /\ SendInv(P, p, h) /\ RecvInv(P, p, h)
  BY DEF LocalInv
<1>2. /\ p2.pc = pc2 /\ p2.routs = p.routs /\ p2.todo = p.todo /\ p2.pending = p.pending
      /\ p2 \in [pc : {p2.pc}, made : {p2.made}, todo : Seq(Completion),
            pending : [QP -> SUBSET Op], routs : Nat, scnt : Nat, rcnt : Nat,
            pp_cnt : {p2.pp_cnt}, turn : Nat]
  BY <1>1 DEF Typed
<1>3. PlaceInv(P, n, p2) /\ WakeInv(P, p2, h2)
  OBVIOUS
<1> HIDE DEF p2
<1>4. Typed(p2, h2)
  BY <1>1, <1>2 DEF Typed
<1>5. QueueInv(P, n, p2, h2)
  BY <1>1, <1>2 DEF QueueInv
<1>6. \A q \in QP : Owes(P, n, p2, q) <= Owes(P, n, p, q)
  BY <1>1, <1>2 DEF Owes
<1>7. \A q \in QP : /\ Arrived(p2, h2, q) = Arrived(p, h, q)
                    /\ Sends(P, p2, h2, q) = Sends(P, p, h, q) /\ Sending(p2, q) = Sending(p, q)
                    /\ Balls(P, n, p2, h2, q) <= Balls(P, n, p, h, q)
  BY <1>1, <1>2, <1>4, <1>6, SameQueues
<1>8. SendInv(P, p2, h2)
  BY <1>1, <1>7 DEF SendInv
<1>9. RecvInv(P, p2, h2)
  BY <1>1, <1>2, <1>7, QPAssumption DEF RecvInv
<1>10. QED  BY <1>3, <1>4, <1>5, <1>7, <1>8, <1>9 DEF LocalInv, p2

(* server_ready: the server enters the loop and waits for a message.            *)
LEMMA ReadyLocal ==
  ASSUME NEW P \in Programs, P.name \in PingPongs, NEW n \in Pair, NEW p, NEW h,
         LocalInv(P, n, p, h), n = 0, p.pc = "read_done"
  PROVE  LET p2 == [p EXCEPT !.pc = "loop",
                             !.pending = [q \in QP |-> IF q \in P.qps[n] THEN {"recv"} ELSE {}]]
         IN LocalInv(P, n, p2, h) /\ \A q \in QP : Balls(P, n, p2, h, q) <= Balls(P, n, p, h, q)
<1> DEFINE p2 == [p EXCEPT !.pc = "loop",
                           !.pending = [q \in QP |-> IF q \in P.qps[n] THEN {"recv"} ELSE {}]]
<1>1. Typed(p, h) /\ PlaceInv(P, n, p) /\ QueueInv(P, n, p, h) /\ SendInv(P, p, h)
      /\ RecvInv(P, p, h) /\ WakeInv(P, p, h)
  BY DEF LocalInv
<1>2. /\ p2.pc = "loop" /\ p2.routs = p.routs /\ p2.todo = p.todo
      /\ \A q \in QP : p2.pending[q] = IF q \in P.qps[n] THEN {"recv"} ELSE {}
      /\ p2 \in [pc : {p2.pc}, made : {p2.made}, todo : Seq(Completion),
            pending : [QP -> SUBSET Op], routs : Nat, scnt : Nat, rcnt : Nat,
            pp_cnt : {p2.pp_cnt}, turn : Nat]
  BY <1>1 DEF Typed, Op
<1>3. \A q \in QP : p.pending[q] = {}
  BY <1>1 DEF PlaceInv, Before
<1> HIDE DEF p2
<1>4. Typed(p2, h)
  BY <1>1, <1>2 DEF Typed
<1>5. PlaceInv(P, n, p2)
  BY <1>1, <1>2 DEF PlaceInv, Before, LoopPc, Gone
<1>6. QueueInv(P, n, p2, h)
  BY <1>1, <1>2 DEF QueueInv, Gone, LoopPc
<1>7. \A q \in QP : Owes(P, n, p2, q) = 0 /\ Owes(P, n, p, q) = 0
  BY <1>2 DEF Owes, LoopPc
<1>8. \A q \in QP : /\ Arrived(p2, h, q) = Arrived(p, h, q)
                    /\ Sends(P, p2, h, q) = Sends(P, p, h, q)
                    /\ Sending(p2, q) = 0 /\ Sending(p, q) = 0
  BY <1>2, <1>3 DEF Arrived, Sends, Sending
<1>9. \A q \in QP : Balls(P, n, p2, h, q) = Balls(P, n, p, h, q) /\ Balls(P, n, p, h, q) \in Nat
  BY <1>1, <1>7, <1>8, Numbers DEF Balls
<1>10. SendInv(P, p2, h)
  BY <1>1, <1>8 DEF SendInv
<1>11. WakeInv(P, p2, h)
  BY <1>1, <1>2 DEF WakeInv, Between, Gone
<1>12. RecvInv(P, p2, h)
  BY <1>1, <1>2, <1>8, QPAssumption DEF RecvInv, Gone
<1>13. LocalInv(P, n, p2, h)
  BY <1>4, <1>5, <1>6, <1>10, <1>11, <1>12 DEF LocalInv
<1>14. \A q \in QP : Balls(P, n, p2, h, q) <= Balls(P, n, p, h, q)
  BY <1>9
<1>15. QED  BY <1>13, <1>14 DEF p2

(* The process ends: what it had in its queues is gone.                         *)
LEMMA ExitedLocal ==
  ASSUME NEW P, NEW n \in Pair, NEW p, NEW h, LocalInv(P, n, p, h),
         NEW pc2 \in Gone, NEW m, NEW h2,
         h2 = [NoHCA EXCEPT !.wire = h2.wire],
         h2.wire = IF Reliable(P) THEN NoHCA.wire ELSE h.wire
  PROVE  LET p2 == [p EXCEPT !.pc = pc2, !.todo = <<>>, !.made = m]
         IN LocalInv(P, n, p2, h2) /\ \A q \in QP : Balls(P, n, p2, h2, q) <= Balls(P, n, p, h, q)
<1> DEFINE p2 == [p EXCEPT !.pc = pc2, !.todo = <<>>, !.made = m]
<1>1. Typed(p, h) /\ PlaceInv(P, n, p) /\ QueueInv(P, n, p, h) /\ SendInv(P, p, h)
  BY DEF LocalInv
<1>2. /\ p2.pc \in Gone /\ p2.todo = <<>> /\ p2.pending = p.pending
      /\ p2 \in [pc : {p2.pc}, made : {p2.made}, todo : Seq(Completion),
            pending : [QP -> SUBSET Op], routs : Nat, scnt : Nat, rcnt : Nat,
            pp_cnt : {p2.pp_cnt}, turn : Nat]
  <2>1. <<>> \in Seq(Completion)
    OBVIOUS
  <2>2. QED  BY <1>1, <2>1 DEF Typed
<1>3. /\ h2 \in HCA /\ h2.tx_cq = <<>> /\ h2.cq = <<>> /\ \A q \in QP : h2.acks[q] = 0
  <2>1. h.wire \in [QP -> Seq(Message)] /\ NoHCA.wire \in [QP -> Seq(Message)]
    BY <1>1, Fields DEF NoHCA
  <2>2. h2.wire \in [QP -> Seq(Message)]
    BY <2>1
  <2>3. /\ NoHCA.qp \in [QP -> {"none", "init", "rts"}] /\ NoHCA.acks \in [QP -> Nat]
        /\ <<>> \in Seq(Completion) /\ \A q \in QP : NoHCA.acks[q] = 0
    BY DEF NoHCA
  <2>4. h2 = [qp |-> NoHCA.qp, rq |-> 0, wire |-> h2.wire, acks |-> NoHCA.acks, cq |-> <<>>,
              tx_cq |-> <<>>, armed |-> FALSE, events |-> 0]
    BY DEF NoHCA
  <2>5. h2 \in HCA
    <3>1. \A w \in [QP -> Seq(Message)] :
            [qp |-> NoHCA.qp, rq |-> 0, wire |-> w, acks |-> NoHCA.acks, cq |-> <<>>,
             tx_cq |-> <<>>, armed |-> FALSE, events |-> 0] \in HCA
      BY <2>3 DEF HCA
    <3>2. QED  BY <2>2, <2>4, <3>1, Zenon
  <2>6. h2.tx_cq = <<>> /\ h2.cq = <<>> /\ h2.acks = NoHCA.acks
    BY <2>4
  <2>7. QED  BY <2>3, <2>5, <2>6
<1> HIDE DEF p2
<1>4. Typed(p2, h2)
  BY <1>2, <1>3 DEF Typed
<1>5. PlaceInv(P, n, p2)
  BY <1>2 DEF PlaceInv, Before, LoopPc, Gone
<1>6. \A q \in QP : /\ Len(h2.wire[q]) <= Len(h.wire[q]) /\ Len(h2.wire[q]) \in Nat
                    /\ Len(h.wire[q]) \in Nat
                    /\ h2.wire[q] = h.wire[q] \/ h2.wire[q] = <<>>
  <2>1. h.wire \in [QP -> Seq(Message)]
    BY <1>1, Fields
  <2>2. CASE h2.wire = h.wire
    BY <2>1, <2>2
  <2>3. CASE h2.wire = NoHCA.wire
    BY <2>1, <2>3 DEF NoHCA
  <2>4. QED  BY <2>2, <2>3
<1>7. QueueInv(P, n, p2, h2)
  <2>1. h2 = [NoHCA EXCEPT !.wire = h2.wire] /\ (Reliable(P) => h2.wire = NoHCA.wire)
    OBVIOUS
  <2>2. QED  BY <2>1, <1>1, <1>2, <1>3, <1>6 DEF QueueInv, LoopPc, Gone
<1>8. \A q \in QP : /\ Owes(P, n, p2, q) = 0 /\ Arrived(p2, h2, q) = 0
                    /\ Sending(p2, q) = Sending(p, q)
                    /\ Sends(P, p2, h2, q) = IF Reliable(P) THEN Len(h2.wire[q]) ELSE 0
  BY <1>2, <1>3, <1>6, TallyEmpty DEF Owes, Arrived, Sends, Sending
<1>9. ASSUME NEW q \in QP
      PROVE  Balls(P, n, p2, h2, q) <= Balls(P, n, p, h, q) /\ Sends(P, p2, h2, q) <= Sending(p2, q)
  <2>1. /\ Len(h2.wire[q]) <= Len(h.wire[q]) /\ Len(h2.wire[q]) \in Nat
        /\ Balls(P, n, p2, h2, q) = Len(h2.wire[q])
    BY <1>6, <1>8 DEF Balls
  <2>2. Balls(P, n, p, h, q) >= Len(h.wire[q]) /\ Balls(P, n, p, h, q) \in Nat
        /\ Len(h.wire[q]) \in Nat
    BY <1>1, Numbers
  <2>3. /\ Reliable(P) => Sends(P, p, h, q) >= Len(h.wire[q])
        /\ Sends(P, p, h, q) \in Nat
        /\ Sends(P, p, h, q) <= Sending(p, q) /\ Sending(p, q) \in {0, 1}
    BY <1>1, Numbers DEF SendInv
  <2>4. Sends(P, p2, h2, q) = (IF Reliable(P) THEN Len(h2.wire[q]) ELSE 0)
        /\ Sending(p2, q) = Sending(p, q)
    BY <1>8
  <2>5. Sends(P, p2, h2, q) <= Sending(p2, q)
    <3>1. CASE Reliable(P)
      <4>1. /\ Sends(P, p2, h2, q) = Len(h2.wire[q]) /\ Sends(P, p, h, q) >= Len(h.wire[q])
            /\ Sends(P, p, h, q) <= Sending(p, q) /\ Sending(p2, q) = Sending(p, q)
        BY <2>3, <2>4, <3>1, Zenon
      <4>2. Sends(P, p, h, q) \in Nat /\ Sending(p, q) \in {0, 1}
        BY <1>1, Numbers
      <4>3. QED  BY <2>1, <2>2, <4>1, <4>2
    <3>2. CASE ~Reliable(P)
      BY <2>3, <2>4, <3>2
    <3>3. QED  BY <3>1, <3>2
  <2>6. QED  BY <2>1, <2>2, <2>5
<1>10. WakeInv(P, p2, h2) /\ RecvInv(P, p2, h2)
  BY <1>2 DEF WakeInv, RecvInv
<1>11. QED  BY <1>4, <1>5, <1>7, <1>9, <1>10 DEF LocalInv, SendInv, p2

(* What ibv_post_send does to the record of an HCA.                             *)
LEMMA PostedFields ==
  ASSUME NEW h \in HCA, NEW q \in QP, NEW m \in Message
  PROVE  LET g == SendPosted(h, q, m)
         IN /\ g \in HCA
            /\ g.qp = h.qp /\ g.rq = h.rq /\ g.cq = h.cq /\ g.tx_cq = h.tx_cq
            /\ g.armed = h.armed /\ g.events = h.events
            /\ g.wire = [h.wire EXCEPT ![q] = Append(@, m)]
            /\ g.acks = [h.acks EXCEPT ![q] = IF reliable THEN @ ELSE @ + 1]
<1> DEFINE g == SendPosted(h, q, m)
<1>1. /\ h.wire \in [QP -> Seq(Message)] /\ h.acks \in [QP -> Nat]
      /\ h.wire[q] \in Seq(Message) /\ Append(h.wire[q], m) \in Seq(Message)
      /\ h.acks[q] \in Nat /\ (IF reliable THEN h.acks[q] ELSE h.acks[q] + 1) \in Nat
  BY DEF HCA
<1>2. g.wire = [h.wire EXCEPT ![q] = Append(h.wire[q], m)]
  BY DEF HCA, SendPosted
<1>3. g.acks = [h.acks EXCEPT ![q] = IF reliable THEN h.acks[q] ELSE h.acks[q] + 1]
  BY DEF HCA, SendPosted
<1>4. g.wire \in [QP -> Seq(Message)] /\ g.acks \in [QP -> Nat]
  BY <1>1, <1>2, <1>3
<1>5. /\ g.qp = h.qp /\ g.rq = h.rq /\ g.cq = h.cq /\ g.tx_cq = h.tx_cq
      /\ g.armed = h.armed /\ g.events = h.events
  BY DEF HCA, SendPosted
<1>6. g = [h EXCEPT !.wire = g.wire, !.acks = g.acks]
  BY DEF HCA, SendPosted
<1>7. g \in HCA
  BY <1>4, <1>6 DEF HCA
<1>8. QED  BY <1>2, <1>3, <1>5, <1>7

(* The process posts a send on a QP where nothing is pending: the ball it owed  *)
(* is on the wire.                                                              *)
LEMMA PostLocal ==
  ASSUME NEW n \in Pair, NEW p, NEW h, program \in Programs, program.name \in PingPongs,
         LocalInv(program, n, p, h), NEW q \in program.qps[n], p.pending[q] = {},
         p.pc \in {"first"} \cup LoopPc
  PROVE  LET p2 == [p EXCEPT !.pending = [p.pending EXCEPT ![q] = Op]]
             h2 == SendPosted(h, q, toPeer(n, q))
         IN /\ LocalInv(program, n, p2, h2)
            /\ \A r \in QP : Balls(program, n, p2, h2, r) <= Balls(program, n, p, h, r)
<1> DEFINE P == program
           p2 == [p EXCEPT !.pending = [p.pending EXCEPT ![q] = Op]]
           h2 == SendPosted(h, q, toPeer(n, q))
           m == toPeer(n, q)
<1>1. Typed(p, h) /\ PlaceInv(P, n, p) /\ QueueInv(P, n, p, h) /\ SendInv(P, p, h)
      /\ RecvInv(P, p, h) /\ WakeInv(P, p, h)
  BY DEF LocalInv
<1>2. q \in QP
  BY PairProgram
<1>3. /\ m = [to |-> 1 - n, qp |-> q, via |-> 1 - n, viaQp |-> q, signaled |-> TRUE]
      /\ m \in Message
  BY <1>2, NodeAssumption DEF Pair, Message, toPeer, peer
<1>4. /\ h2 \in HCA
      /\ h2.qp = h.qp /\ h2.rq = h.rq /\ h2.cq = h.cq /\ h2.tx_cq = h.tx_cq
      /\ h2.armed = h.armed /\ h2.events = h.events
      /\ h2.wire = [h.wire EXCEPT ![q] = Append(@, m)]
      /\ h2.acks = [h.acks EXCEPT ![q] = IF reliable THEN @ ELSE @ + 1]
  <2>1. h \in HCA
    BY <1>1 DEF Typed
  <2> HIDE DEF m
  <2>2. QED  BY <2>1, <1>2, <1>3, PostedFields DEF m
<1>5. /\ p2.pc = p.pc /\ p2.routs = p.routs /\ p2.todo = p.todo /\ p2.turn = p.turn
      /\ p2.scnt = p.scnt /\ p2.rcnt = p.rcnt
      /\ p2.pending = [p.pending EXCEPT ![q] = Op]
      /\ p2 \in [pc : {p2.pc}, made : {p2.made}, todo : Seq(Completion),
            pending : [QP -> SUBSET Op], routs : Nat, scnt : Nat, rcnt : Nat,
            pp_cnt : {p2.pp_cnt}, turn : Nat]
  BY <1>1, <1>2 DEF Typed
<1>6. /\ h.wire \in [QP -> Seq(Message)] /\ h.acks \in [QP -> Nat]
      /\ p.pending \in [QP -> SUBSET Op]
  BY <1>1, Fields
<1> HIDE DEF p2, h2, P, m
<1>7. /\ h2.wire[q] = Append(h.wire[q], m) /\ Len(h2.wire[q]) = Len(h.wire[q]) + 1
      /\ \A i \in DOMAIN h2.wire[q] : h2.wire[q][i] = m \/ (i \in DOMAIN h.wire[q] /\ h2.wire[q][i] = h.wire[q][i])
      /\ p2.pending[q] = {"send", "recv"} /\ h.wire[q] \in Seq(Message)
      /\ Len(h.wire[q]) \in Nat /\ h.acks[q] \in Nat
      /\ h2.acks[q] = IF reliable THEN h.acks[q] ELSE h.acks[q] + 1
  <2>1. h2.wire[q] = Append(h.wire[q], m) /\ h.wire[q] \in Seq(Message) /\ p2.pending[q] = Op
        /\ h2.acks[q] = (IF reliable THEN h.acks[q] ELSE h.acks[q] + 1) /\ h.acks[q] \in Nat
    BY <1>2, <1>4, <1>5, <1>6
  <2>2. QED  BY <2>1, <1>3, AppendProperties, LenProperties DEF Op
<1>8. \A r \in QP : r # q =>
        h2.wire[r] = h.wire[r] /\ h2.acks[r] = h.acks[r] /\ p2.pending[r] = p.pending[r]
  BY <1>4, <1>5, <1>6
<1>9. Typed(p2, h2)
  BY <1>1, <1>4, <1>5 DEF Typed
<1>10. PlaceInv(P, n, p2)
  BY <1>1, <1>5 DEF PlaceInv, Before, LoopPc, Gone
<1>11. QueueInv(P, n, p2, h2)
  <2>1. \A r \in QP : \A i \in DOMAIN h2.wire[r] :
          r \in P.qps[n] /\ h2.wire[r][i] = [to |-> 1 - n, qp |-> r, via |-> 1 - n, viaQp |-> r,
                                         signaled |-> TRUE]
    <3>1. \A i \in DOMAIN h2.wire[q] : q \in P.qps[n] /\ h2.wire[q][i] = m
      BY <1>1, <1>2, <1>3, <1>7 DEF QueueInv, P
    <3>2. \A r \in QP : r # q => \A i \in DOMAIN h2.wire[r] :
            r \in P.qps[n] /\ h2.wire[r][i] = [to |-> 1 - n, qp |-> r, via |-> 1 - n,
                                             viaQp |-> r, signaled |-> TRUE]
      BY <1>1, <1>8 DEF QueueInv
    <3>3. QED  BY <3>1, <3>2, <1>3
  <2>2. \A r \in QP : h2.acks[r] > 0 => r \in P.qps[n]
    BY <1>1, <1>8 DEF QueueInv, P
  <2>3. QED  BY <2>1, <2>2, <1>1, <1>4, <1>5 DEF QueueInv, LoopPc, Gone
<1>12. \A r \in QP : /\ Arrived(p2, h2, r) = Arrived(p, h, r)
                     /\ r # q => /\ Owes(P, n, p2, r) = Owes(P, n, p, r)
                                 /\ Sends(P, p2, h2, r) = Sends(P, p, h, r)
                                 /\ Sending(p2, r) = Sending(p, r)
  BY <1>4, <1>5, <1>8 DEF Arrived, Owes, Sends, Sending
<1>13. /\ Owes(P, n, p2, q) = 0 /\ Owes(P, n, p, q) = 1
       /\ Sending(p2, q) = 1 /\ Sending(p, q) = 0
  BY <1>1, <1>5, <1>7 DEF Owes, Sending, PlaceInv, Gone, LoopPc, P
<1>14. Sends(P, p2, h2, q) <= Sending(p2, q)
  <2>1. Reliable(P) <=> reliable
    BY DEF P, Reliable, reliable
  <2>2. /\ Tally(h.cq, Of("send", q)) \in Nat /\ Tally(p.todo, Of("send", q)) \in Nat
        /\ Sends(P, p, h, q) \in Nat
    BY <1>1, <1>2, Numbers
  <2>3. Sends(P, p, h, q) = 0
    BY <1>1, <1>2, <1>13, <2>2 DEF SendInv
  <2>7. /\ Tally(h2.cq, Of("send", q)) = Tally(h.cq, Of("send", q))
        /\ Tally(p2.todo, Of("send", q)) = Tally(p.todo, Of("send", q))
    BY <1>4, <1>5, Zenon
  <2>4. CASE reliable
    <3>1. /\ Sends(P, p2, h2, q) = Len(h2.wire[q]) + h2.acks[q] + Tally(h2.cq, Of("send", q))
                                     + Tally(p2.todo, Of("send", q))
          /\ Sends(P, p, h, q) = Len(h.wire[q]) + h.acks[q] + Tally(h.cq, Of("send", q))
                                   + Tally(p.todo, Of("send", q))
          /\ h2.acks[q] = h.acks[q]
      BY <1>7, <2>1, <2>4, Zenon DEF Sends
    <3>3. Sends(P, p2, h2, q) = Sends(P, p, h, q) + 1
      <4>1. Len(h2.wire[q]) = Len(h.wire[q]) + 1 /\ Len(h.wire[q]) \in Nat /\ h.acks[q] \in Nat
        BY <1>7
      <4> DEFINE a == Tally(h.cq, Of("send", q))
                 b == Tally(p.todo, Of("send", q))
                 k == Len(h.wire[q])
                 k2 == Len(h2.wire[q])
                 c == h.acks[q]
                 x == Sends(P, p, h, q)
                 x2 == Sends(P, p2, h2, q)
      <4>2. x2 = k2 + c + a + b /\ x = k + c + a + b
        BY <2>7, <3>1, Zenon
      <4>3. a \in Nat /\ b \in Nat /\ k2 = k + 1 /\ k \in Nat /\ c \in Nat
        BY <2>2, <4>1
      <4> HIDE DEF a, b, k, k2, c, x, x2
      <4>4. x2 = x + 1
        BY <4>2, <4>3
      <4>5. QED  BY <4>4 DEF x, x2
    <3>4. QED  BY <3>3, <2>3, <1>13
  <2>5. CASE ~reliable
    <3>1. Sends(P, p2, h2, q) = Sends(P, p, h, q) + 1
      BY <1>7, <2>1, <2>2, <2>5, <2>7 DEF Sends
    <3>2. QED  BY <3>1, <2>3, <1>13
  <2>6. QED  BY <2>4, <2>5
<1>15. SendInv(P, p2, h2)
  BY <1>1, <1>12, <1>14 DEF SendInv
<1>16. WakeInv(P, p2, h2)
  BY <1>1, <1>4, <1>5 DEF WakeInv, Between
<1>17. RecvInv(P, p2, h2)
  BY <1>1, <1>4, <1>5 DEF RecvInv
<1>18. ASSUME NEW r \in QP PROVE Balls(P, n, p2, h2, r) <= Balls(P, n, p, h, r)
  <2>1. Balls(P, n, p, h, r) \in Nat /\ Arrived(p, h, r) \in Nat /\ Len(h.wire[r]) \in Nat
    BY <1>1, Numbers
  <2>2. CASE r = q
    BY <2>1, <2>2, <1>7, <1>12, <1>13 DEF Balls
  <2>3. CASE r # q
    <3>1. Balls(P, n, p2, h2, r) = Balls(P, n, p, h, r)
      BY <2>3, <1>8, <1>12 DEF Balls
    <3>2. QED  BY <3>1, <2>1
  <2>4. QED  BY <2>2, <2>3
<1>19. LocalInv(P, n, p2, h2)
  BY <1>9, <1>10, <1>11, <1>15, <1>16, <1>17 DEF LocalInv
<1>0. QED  BY <1>18, <1>19 DEF p2, h2, P

(* A completion is handled: a receive may be posted, and the QP's pending       *)
(* operation is through.                                                        *)
Counts(p, low, wc, left, more, scnt, rcnt) ==
  /\ wc = Head(p.todo)
  /\ left = (IF wc.op = "recv" THEN p.routs - 1 ELSE p.routs)
  /\ more = (IF wc.op = "recv" THEN IF left <= low THEN RxDepth - left ELSE 0 ELSE 0)
  /\ scnt = (IF wc.op = "send" THEN p.scnt + 1 ELSE p.scnt)
  /\ rcnt = (IF wc.op = "recv" THEN p.rcnt + 1 ELSE p.rcnt)
Handled(p, wc, next, posted, scnt, rcnt) ==
  [p EXCEPT !.todo = Tail(p.todo), !.pc = IF Len(p.todo) > 1 THEN "parse" ELSE next,
            !.routs = posted, !.scnt = scnt, !.rcnt = rcnt,
            !.pending = [p.pending EXCEPT ![wc.qp] = @ \ {wc.op}]]

LEMMA HandledLocal ==
  ASSUME NEW P \in Programs, P.name \in PingPongs, NEW n \in Pair, NEW p, NEW h,
         LocalInv(P, n, p, h), p.pc = "parse", NEW low \in 1 .. RxDepth, NEW next,
         next = (IF P.ts /\ p.turn = 0 THEN "next_poll" ELSE "loop"),
         NEW wc, NEW left, NEW more, NEW scnt, NEW rcnt, Counts(p, low, wc, left, more, scnt, rcnt)
  PROVE  /\ wc \in Completion /\ wc.qp \in P.qps[n]
         /\ LocalInv(P, n, Handled(p, wc, next, left + more, scnt, rcnt), RecvPosted(h, more))
         /\ \A q \in QP : Balls(P, n, Handled(p, wc, next, left + more, scnt, rcnt),
                               RecvPosted(h, more), q) <= Balls(P, n, p, h, q)
<1> DEFINE p1 == [p EXCEPT !.todo = Tail(p.todo),
                           !.pc = IF Len(p.todo) > 1 THEN "parse" ELSE next,
                           !.routs = left + more, !.scnt = scnt, !.rcnt = rcnt,
                           !.pending = [p.pending EXCEPT ![wc.qp] = @ \ {wc.op}]]
           h1 == RecvPosted(h, more)
           pc1 == IF Len(p.todo) > 1 THEN "parse" ELSE next
           pending1 == [p.pending EXCEPT ![wc.qp] = @ \ {wc.op}]
           rest == Tail(p.todo)
           got == IF wc.op = "recv" THEN 1 ELSE 0
<1> USE DEF Counts
<1>1. Typed(p, h) /\ PlaceInv(P, n, p) /\ QueueInv(P, n, p, h) /\ SendInv(P, p, h)
      /\ RecvInv(P, p, h) /\ WakeInv(P, p, h)
  BY DEF LocalInv
<1>2. /\ p.todo \in Seq(Completion) /\ p.todo # <<>> /\ rest \in Seq(Completion)
      /\ wc \in Completion /\ wc = p.todo[1] /\ 1 \in DOMAIN p.todo
      /\ Len(p.todo) > 1 <=> rest # <<>>
      /\ \A i \in DOMAIN rest : i + 1 \in DOMAIN p.todo /\ rest[i] = p.todo[i + 1]
  <2>1. p.todo \in Seq(Completion) /\ p.todo # <<>>
    BY <1>1, Fields DEF PlaceInv
  <2>2. rest \in Seq(Completion) /\ Head(p.todo) \in Completion /\ Len(rest) = Len(p.todo) - 1
    BY <2>1, HeadTailProperties
  <2>3. Len(p.todo) \in Nat /\ Len(p.todo) >= 1 /\ DOMAIN p.todo = 1 .. Len(p.todo)
        /\ DOMAIN rest = 1 .. Len(rest) /\ Head(p.todo) = p.todo[1]
    BY <2>1, <2>2, EmptySeq, LenProperties
  <2>4. Len(p.todo) > 1 <=> rest # <<>>
    <3> HIDE DEF rest
    <3>1. rest # <<>> => Len(rest) \in Nat \ {0}
      BY <2>2, EmptySeq, Zenon
    <3>2. rest = <<>> => Len(rest) = 0
      BY EmptySeq
    <3>3. QED  BY <3>1, <3>2, <2>2, <2>3
  <2>5. \A i \in DOMAIN rest : i + 1 \in DOMAIN p.todo /\ rest[i] = p.todo[i + 1]
    BY <2>1, <2>2, <2>3
  <2>6. QED  BY <2>1, <2>2, <2>3, <2>4, <2>5
<1>3. wc.op \in Op /\ wc.qp \in QP /\ wc.qp \in P.qps[n]
  BY <1>1, <1>2 DEF Completion, Op, QueueInv
<1>4. /\ p.pending \in [QP -> SUBSET Op] /\ pending1 \in [QP -> SUBSET Op]
      /\ pending1[wc.qp] = p.pending[wc.qp] \ {wc.op}
      /\ \A q \in QP : q # wc.qp => pending1[q] = p.pending[q]
  <2>1. p.pending \in [QP -> SUBSET Op]
    BY <1>1, Fields
  <2>2. QED  BY <2>1, <1>3
<1>5. /\ got \in {0, 1} /\ Tally(p.todo, OfRecv) = Tally(rest, OfRecv) + got
      /\ Tally(rest, OfRecv) \in Nat /\ Tally(h.cq, OfRecv) \in Nat
      /\ wc.op = "recv" <=> got = 1
  <2>1. Tally(p.todo, OfRecv) = Tally(rest, OfRecv) + (IF wc \in OfRecv THEN 1 ELSE 0)
    BY <1>2, TallyTail
  <2>2. (IF wc \in OfRecv THEN 1 ELSE 0) = got
    BY <1>2 DEF OfRecv
  <2>3. Tally(rest, OfRecv) \in Nat /\ Tally(h.cq, OfRecv) \in Nat
    BY <1>1, <1>2, Fields, TallyType
  <2>4. QED  BY <2>1, <2>2, <2>3
<1>6. /\ RxDepth \in Nat /\ p.routs \in Nat /\ p.scnt \in Nat /\ p.rcnt \in Nat /\ h.rq \in Nat
      /\ p.routs >= 1 /\ p.routs = h.rq + Tally(h.cq, OfRecv) + Tally(p.todo, OfRecv)
  <2>1. RxDepth \in Nat
    BY DepthAssumption
  <2>2. /\ p.routs \in Nat /\ p.scnt \in Nat /\ p.rcnt \in Nat /\ h.rq \in Nat
    BY <1>1, Fields
  <2>3. p.pc \notin {"create"} \cup Gone
    BY DEF Gone
  <2>4. QED  BY <1>1, <2>1, <2>2, <2>3 DEF RecvInv
<1>7. /\ left \in Nat /\ more \in Nat /\ left = p.routs - got /\ left + more \in Nat
      /\ left + more >= 1 /\ scnt \in Nat /\ rcnt \in Nat
  BY <1>5, <1>6
<1>8. /\ p1.pc = pc1 /\ p1.routs = left + more /\ p1.todo = rest /\ p1.turn = p.turn
      /\ p1.pending = pending1
      /\ p1 \in [pc : {p1.pc}, made : {p1.made}, todo : Seq(Completion),
            pending : [QP -> SUBSET Op], routs : Nat, scnt : Nat, rcnt : Nat,
            pp_cnt : {p1.pp_cnt}, turn : Nat]
  <2> HIDE DEF pc1, pending1, rest
  <2>1. p1 = [p EXCEPT !.todo = rest, !.pc = pc1, !.routs = left + more, !.scnt = scnt,
                       !.rcnt = rcnt, !.pending = pending1]
    BY DEF pc1, pending1, rest
  <2> HIDE DEF p1
  <2>2. QED  BY <2>1, <1>1, <1>2, <1>4, <1>7, ZenonT(40) DEF Typed
<1>9. /\ h1.wire = h.wire /\ h1.acks = h.acks /\ h1.cq = h.cq /\ h1.rq = h.rq + more
      /\ h1.armed = h.armed /\ h1.events = h.events /\ h1.qp = h.qp /\ h1 \in HCA
      /\ h1.tx_cq = <<>>
  <2>1. h \in HCA /\ h.tx_cq = <<>>
    BY <1>1 DEF Typed
  <2>2. h.rq + more \in Nat
    BY <1>6, <1>7
  <2>3. h1 = [h EXCEPT !.rq = h.rq + more]
    BY <2>1 DEF RecvPosted, HCA
  <2> HIDE DEF h1
  <2>4. h1 \in HCA
    BY <2>1, <2>2, <2>3 DEF HCA
  <2>5. QED  BY <2>1, <2>3, <2>4 DEF HCA
<1>10. /\ pc1 \in {"parse", next} /\ next \in {"next_poll", "loop"}
       /\ pc1 = "parse" <=> rest # <<>>
       /\ pc1 \in LoopPc /\ p.pc \in LoopPc /\ pc1 \notin Gone /\ p.pc \notin Gone
       /\ pc1 = "next_poll" => P.ts
       /\ Between(P, p1) <=> Between(P, p)
       /\ pc1 # "poll" /\ p.pc # "poll"
  <2>1. next \in {"next_poll", "loop"} /\ (next = "next_poll" => P.ts /\ p.turn = 0)
        /\ (next = "loop" => ~(P.ts /\ p.turn = 0))
    OBVIOUS
  <2>2. pc1 \in {"parse", next} /\ (pc1 = "parse" <=> rest # <<>>)
    BY <1>2, <2>1
  <2> HIDE DEF pc1, rest, p1
  <2>3. pc1 = "next_poll" => P.ts
    BY <2>1, <2>2
  <2>4. Between(P, p1) <=> Between(P, p)
    BY <1>8, <2>1, <2>2 DEF Between
  <2>5. QED  BY <2>1, <2>2, <2>3, <2>4 DEF LoopPc, Gone
<1> HIDE DEF p1, h1, pc1, pending1, rest, got
<1>11. Typed(p1, h1)
  BY <1>8, <1>9 DEF Typed
<1>12. PlaceInv(P, n, p1)
  BY <1>1, <1>8, <1>10 DEF PlaceInv, Before, LoopPc, Gone
<1>13. QueueInv(P, n, p1, h1)
  <2>1. \A i \in DOMAIN rest : rest[i].qp \in P.qps[n]
    BY <1>1, <1>2 DEF QueueInv
  <2>2. \A q \in P.qps[n] : h1.qp[q] = "rts"
    BY <1>1, <1>9, <1>10 DEF QueueInv
  <2>3. p1.pc \notin {"create"} \cup Gone
    BY <1>8, <1>10 DEF LoopPc
  <2>4. QED  BY <2>1, <2>2, <2>3, <1>1, <1>8, <1>9 DEF QueueInv
<1>14. ASSUME NEW q \in QP
       PROVE  /\ Balls(P, n, p1, h1, q) <= Balls(P, n, p, h, q)
              /\ Sends(P, p1, h1, q) <= Sending(p1, q)
  <2> DEFINE R == Of("recv", q)
             S == Of("send", q)
             r == IF wc \in R THEN 1 ELSE 0
             s == IF wc \in S THEN 1 ELSE 0
  <2>1. /\ Tally(p.todo, R) = Tally(rest, R) + r /\ Tally(p.todo, S) = Tally(rest, S) + s
        /\ Tally(rest, R) \in Nat /\ Tally(rest, S) \in Nat
        /\ Tally(h.cq, R) \in Nat /\ Tally(h.cq, S) \in Nat
        /\ r \in {0, 1} /\ s \in {0, 1}
    <3>1. Tally(p.todo, R) = Tally(rest, R) + r /\ Tally(p.todo, S) = Tally(rest, S) + s
      BY <1>2, TallyTail DEF rest
    <3>2. /\ Tally(rest, R) \in Nat /\ Tally(rest, S) \in Nat
          /\ Tally(h.cq, R) \in Nat /\ Tally(h.cq, S) \in Nat
      <4>1. h.cq \in Seq(Completion)
        BY <1>1, Fields
      <4>2. QED  BY <4>1, <1>2, TallyType
    <3>3. QED  BY <3>1, <3>2
  <2>2. /\ r = 1 <=> wc.op = "recv" /\ wc.qp = q
        /\ s = 1 <=> wc.op = "send" /\ wc.qp = q
    BY <1>2 DEF Of
  <2>3. Arrived(p, h, q) = Tally(h.cq, R) + Tally(rest, R) + r
        /\ Arrived(p1, h1, q) = Tally(h.cq, R) + Tally(rest, R)
    BY <1>8, <1>9, <2>1 DEF Arrived
  <2>4. Owes(P, n, p1, q) <= Owes(P, n, p, q) + r
    <3>1. Owes(P, n, p1, q) \in {0, 1} /\ Owes(P, n, p, q) \in {0, 1}
      BY DEF Owes
    <3>2. CASE r = 1
      BY <3>1, <3>2
    <3>3. CASE r = 0
      <4>1. "recv" \in pending1[q] <=> "recv" \in p.pending[q]
        BY <1>3, <1>4, <2>2, <3>3 DEF Op
      <4>2. Owes(P, n, p1, q) = Owes(P, n, p, q)
        BY <4>1, <1>8, <1>10 DEF Owes
      <4>3. QED  BY <4>2, <3>1, <3>3
    <3>4. QED  BY <3>2, <3>3, <2>1
  <2>5. Len(h.wire[q]) \in Nat /\ h.acks[q] \in Nat /\ Owes(P, n, p1, q) \in {0, 1}
        /\ Owes(P, n, p, q) \in {0, 1} /\ Sends(P, p, h, q) \in Nat /\ Sending(p, q) \in {0, 1}
        /\ Sending(p1, q) \in {0, 1}
    BY <1>1, <1>11, Numbers
  <2>6. Sending(p1, q) >= Sending(p, q) - s
    <3>1. CASE s = 1
      BY <3>1, <2>5
    <3>2. CASE s = 0
      <4>1. "send" \in pending1[q] <=> "send" \in p.pending[q]
        BY <1>3, <1>4, <2>2, <3>2 DEF Op
      <4>2. Sending(p1, q) = Sending(p, q)
        BY <4>1, <1>8 DEF Sending
      <4>3. QED  BY <4>2, <3>2, <2>5
    <3>3. QED  BY <3>1, <3>2, <2>1
  <2>7. Sends(P, p, h, q) = Sends(P, p1, h1, q) + s
    <3> DEFINE w == IF Reliable(P) THEN Len(h.wire[q]) ELSE 0
    <3>1. w \in Nat
      BY <2>5
    <3>2. Sends(P, p, h, q) = w + h.acks[q] + Tally(h.cq, S) + Tally(p.todo, S)
          /\ Sends(P, p1, h1, q) = w + h.acks[q] + Tally(h.cq, S) + Tally(rest, S)
      BY <1>8, <1>9, Zenon DEF Sends
    <3> DEFINE a == h.acks[q]
               b == Tally(h.cq, S)
               c == Tally(p.todo, S)
               d == Tally(rest, S)
               x == Sends(P, p, h, q)
               x1 == Sends(P, p1, h1, q)
    <3>3. /\ x = w + a + b + c /\ x1 = w + a + b + d /\ c = d + s
          /\ w \in Nat /\ a \in Nat /\ b \in Nat /\ d \in Nat /\ s \in {0, 1}
      BY <3>1, <3>2, <2>1, <2>5, Zenon
    <3> HIDE DEF w, a, b, c, d, x, x1, s
    <3>4. x = x1 + s
      BY <3>3
    <3>5. QED  BY <3>4 DEF x, x1
  <2>8. Sends(P, p, h, q) <= Sending(p, q)
    BY <1>1 DEF SendInv
  <2>9. Balls(P, n, p1, h1, q) = Len(h.wire[q]) + Arrived(p1, h1, q) + Owes(P, n, p1, q)
        /\ Balls(P, n, p, h, q) = Len(h.wire[q]) + Arrived(p, h, q) + Owes(P, n, p, q)
    BY <1>9 DEF Balls
  <2>10. Sends(P, p1, h1, q) \in Nat
    BY <1>11, Numbers
  <2> HIDE DEF R, S, r, s
  <2>11. Balls(P, n, p1, h1, q) <= Balls(P, n, p, h, q)
    <3> DEFINE a == Len(h.wire[q])
               b == Arrived(p, h, q)
               b1 == Arrived(p1, h1, q)
               c == Owes(P, n, p, q)
               c1 == Owes(P, n, p1, q)
    <3>1. b1 \in Nat /\ b = b1 + r
      BY <2>1, <2>3
    <3>2. a \in Nat /\ c1 \in {0, 1} /\ c \in {0, 1} /\ r \in {0, 1} /\ c1 <= c + r
      BY <2>1, <2>4, <2>5
    <3> HIDE DEF a, b, b1, c, c1
    <3>3. a + b1 + c1 <= a + b + c
      BY <3>1, <3>2
    <3>4. QED  BY <3>3, <2>9 DEF a, b, b1, c, c1
  <2>12. Sends(P, p1, h1, q) <= Sending(p1, q)
    BY <2>1, <2>5, <2>6, <2>7, <2>8, <2>10
  <2>13. QED  BY <2>11, <2>12
<1>15. WakeInv(P, p1, h1)
  <2>1. p.pc \notin {"create"} \cup Gone
    BY <1>10 DEF LoopPc
  <2>2. QED  BY <2>1, <1>1, <1>8, <1>9, <1>10 DEF WakeInv
<1>16. RecvInv(P, p1, h1)
  <2>1. left + more = h.rq + more + Tally(h.cq, OfRecv) + Tally(rest, OfRecv)
    BY <1>5, <1>6, <1>7
  <2>2. QED  BY <2>1, <1>7, <1>8, <1>9 DEF RecvInv
<1>17. LocalInv(P, n, p1, h1)
  BY <1>11, <1>12, <1>13, <1>14, <1>15, <1>16 DEF LocalInv, SendInv
<1>18. /\ wc \in Completion /\ wc.qp \in P.qps[n]
       /\ LocalInv(P, n, p1, h1)
       /\ \A q \in QP : Balls(P, n, p1, h1, q) <= Balls(P, n, p, h, q)
  BY <1>2, <1>3, <1>14, <1>17
<1>19. QED  BY <1>18 DEF p1, h1, Handled

(* Completions move from the CQ to those polled.                                *)
SameCompletions(p, h, p2, h2) ==
  \A M : Tally(h.cq, M) + Tally(p.todo, M) = Tally(h2.cq, M) + Tally(p2.todo, M)
SameCounts(P, p, h, p2, h2) ==
  /\ \A q \in QP : /\ Arrived(p2, h2, q) = Arrived(p, h, q)
                  /\ Sends(P, p2, h2, q) = Sends(P, p, h, q)
                  /\ Sending(p2, q) = Sending(p, q)
  /\ h2.rq + Tally(h2.cq, OfRecv) + Tally(p2.todo, OfRecv)
       = h.rq + Tally(h.cq, OfRecv) + Tally(p.todo, OfRecv)

LEMMA SameSums ==
  ASSUME NEW P, NEW p, NEW h, NEW p2, NEW h2, Typed(p, h), Typed(p2, h2),
         h2.wire = h.wire, h2.acks = h.acks, h2.rq = h.rq, p2.pending = p.pending,
         SameCompletions(p, h, p2, h2)
  PROVE  SameCounts(P, p, h, p2, h2)
<1> USE DEF SameCompletions
<1>1. \A M : /\ Tally(h.cq, M) \in Nat /\ Tally(p.todo, M) \in Nat
             /\ Tally(h2.cq, M) \in Nat /\ Tally(p2.todo, M) \in Nat
  BY Fields, TallyType
<1>2. h.rq \in Nat
  BY Fields
<1>3. ASSUME NEW q \in QP
      PROVE  /\ Arrived(p2, h2, q) = Arrived(p, h, q)
             /\ Sends(P, p2, h2, q) = Sends(P, p, h, q)
             /\ Sending(p2, q) = Sending(p, q)
  <2>1. Arrived(p2, h2, q) = Arrived(p, h, q) /\ Sending(p2, q) = Sending(p, q)
    BY DEF Arrived, Sending
  <2> DEFINE w == IF Reliable(P) THEN Len(h.wire[q]) ELSE 0
             c == h.acks[q]
             x == Tally(h.cq, Of("send", q))
             y == Tally(p.todo, Of("send", q))
             x2 == Tally(h2.cq, Of("send", q))
             y2 == Tally(p2.todo, Of("send", q))
  <2>2. x + y = x2 + y2 /\ x \in Nat /\ y \in Nat /\ x2 \in Nat /\ y2 \in Nat
    BY <1>1
  <2>3. w \in Nat /\ c \in Nat
    BY Numbers
  <2>4. Sends(P, p, h, q) = w + c + x + y /\ Sends(P, p2, h2, q) = w + c + x2 + y2
    BY Zenon DEF Sends
  <2> HIDE DEF w, c, x, y, x2, y2
  <2>5. w + c + x + y = w + c + x2 + y2
    BY <2>2, <2>3
  <2>6. QED  BY <2>1, <2>4, <2>5
<1>4. h2.rq + Tally(h2.cq, OfRecv) + Tally(p2.todo, OfRecv)
        = h.rq + Tally(h.cq, OfRecv) + Tally(p.todo, OfRecv)
  BY <1>1, <1>2
<1>5. QED  BY <1>3, <1>4 DEF SameCounts

(* A poll takes the first completions of the CQ.                                *)
LEMMA TakenLocal ==
  ASSUME NEW P, NEW n \in Pair, NEW p, NEW h, LocalInv(P, n, p, h),
         p.pc \in LoopPc, p.pc # "parse",
         NEW a \in Seq(Completion), NEW b \in Seq(Completion), h.cq = a \o b,
         NEW pc2, pc2 = (IF a = <<>> THEN "loop" ELSE "parse"), NEW t2 \in Nat,
         WakeInv(P, [p EXCEPT !.pc = pc2, !.todo = a, !.turn = t2], [h EXCEPT !.cq = b])
  PROVE  LET p2 == [p EXCEPT !.pc = pc2, !.todo = a, !.turn = t2]
             h2 == [h EXCEPT !.cq = b]
         IN LocalInv(P, n, p2, h2) /\ \A q \in QP : Balls(P, n, p2, h2, q) <= Balls(P, n, p, h, q)
<1> DEFINE p2 == [p EXCEPT !.pc = pc2, !.todo = a, !.turn = t2]
           h2 == [h EXCEPT !.cq = b]
<1>1. Typed(p, h) /\ PlaceInv(P, n, p) /\ QueueInv(P, n, p, h) /\ SendInv(P, p, h)
      /\ RecvInv(P, p, h)
  BY DEF LocalInv
<1>2. /\ p2.pc = pc2 /\ p2.routs = p.routs /\ p2.todo = a /\ p2.pending = p.pending
      /\ p2.scnt = p.scnt /\ p2.rcnt = p.rcnt
      /\ p2 \in [pc : {p2.pc}, made : {p2.made}, todo : Seq(Completion),
            pending : [QP -> SUBSET Op], routs : Nat, scnt : Nat, rcnt : Nat,
            pp_cnt : {p2.pp_cnt}, turn : Nat]
  BY <1>1 DEF Typed
<1>3. /\ h2.wire = h.wire /\ h2.acks = h.acks /\ h2.cq = b /\ h2.rq = h.rq
      /\ h2.qp = h.qp /\ h2 \in HCA /\ h2.tx_cq = <<>>
  BY <1>1 DEF Typed, HCA
<1>4. p.todo = <<>>
  BY <1>1 DEF PlaceInv
<1>5. WakeInv(P, p2, h2)
  OBVIOUS
<1>6. pc2 \in LoopPc /\ pc2 \notin {"create"} \cup Gone /\ p.pc \notin {"create"} \cup Gone
      /\ pc2 \notin {"poll", "next_poll"} /\ (pc2 = "parse" <=> a # <<>>)
  BY DEF LoopPc, Gone
<1>7. \A M : /\ Tally(h.cq, M) + Tally(p.todo, M) = Tally(h2.cq, M) + Tally(p2.todo, M)
             /\ Tally(h.cq, M) \in Nat /\ Tally(p.todo, M) = 0
             /\ Tally(h2.cq, M) \in Nat /\ Tally(p2.todo, M) \in Nat
  <2> SUFFICES ASSUME NEW M
      PROVE  /\ Tally(h.cq, M) + Tally(p.todo, M) = Tally(h2.cq, M) + Tally(p2.todo, M)
             /\ Tally(h.cq, M) \in Nat /\ Tally(p.todo, M) = 0
             /\ Tally(h2.cq, M) \in Nat /\ Tally(p2.todo, M) \in Nat
    OBVIOUS
  <2>1. Tally(a \o b, M) = Tally(a, M) + Tally(b, M)
    BY TallyConcat
  <2>2. Tally(a, M) \in Nat /\ Tally(b, M) \in Nat /\ Tally(p.todo, M) = 0
    BY TallyType, <1>4, TallyEmpty
  <2>3. h2.cq = b /\ p2.todo = a /\ h.cq = a \o b
    BY <1>2, <1>3
  <2>4. Tally(h.cq, M) = Tally(a, M) + Tally(b, M)
    BY <2>1, <2>3
  <2> HIDE DEF p2, h2
  <2>5. QED  BY <2>2, <2>3, <2>4
<1>8. \A i \in DOMAIN h.cq : h.cq[i].qp \in P.qps[n]
  BY <1>1 DEF QueueInv
<1>9. (\A i \in DOMAIN a : a[i].qp \in P.qps[n]) /\ (\A i \in DOMAIN b : b[i].qp \in P.qps[n])
  <2>1. /\ Len(a) \in Nat /\ Len(b) \in Nat
        /\ DOMAIN a = 1 .. Len(a) /\ DOMAIN b = 1 .. Len(b)
        /\ DOMAIN h.cq = 1 .. Len(a) + Len(b)
        /\ \A i \in 1 .. Len(a) + Len(b) : h.cq[i] = IF i <= Len(a) THEN a[i] ELSE b[i - Len(a)]
    BY LenProperties, ConcatProperties
  <2>2. ASSUME NEW i \in DOMAIN a PROVE a[i].qp \in P.qps[n]
    <3>1. i \in DOMAIN h.cq /\ h.cq[i] = a[i]
      BY <2>1
    <3>2. QED  BY <3>1, <1>8
  <2>3. ASSUME NEW i \in DOMAIN b PROVE b[i].qp \in P.qps[n]
    <3>1. i + Len(a) \in DOMAIN h.cq /\ h.cq[i + Len(a)] = b[i]
      BY <2>1
    <3>2. QED  BY <3>1, <1>8
  <2>4. QED  BY <2>2, <2>3
<1> HIDE DEF p2, h2
<1>10. Typed(p2, h2)
  BY <1>2, <1>3 DEF Typed
<1>11. PlaceInv(P, n, p2)
  BY <1>2, <1>6 DEF PlaceInv, Before, LoopPc, Gone
<1>12. QueueInv(P, n, p2, h2)
  <2>1. \A q \in P.qps[n] : h.qp[q] = "rts"
    BY <1>1 DEF QueueInv
  <2>2. QED  BY <2>1, <1>1, <1>2, <1>3, <1>6, <1>9 DEF QueueInv
<1>13. SameCounts(P, p, h, p2, h2)
  <2>1. SameCompletions(p, h, p2, h2)
    BY <1>7 DEF SameCompletions
  <2>2. Typed(p, h) /\ h2.wire = h.wire /\ h2.acks = h.acks /\ h2.rq = h.rq
        /\ p2.pending = p.pending
    BY <1>1, <1>2, <1>3
  <2>3. QED  BY <2>1, <2>2, <1>10, SameSums, Zenon
<1>14. SendInv(P, p2, h2)
  BY <1>1, <1>13 DEF SendInv, SameCounts
<1>15. RecvInv(P, p2, h2)
  <2>1. p.routs >= 1 /\ p.routs = h.rq + Tally(h.cq, OfRecv) + Tally(p.todo, OfRecv)
    BY <1>1, <1>6 DEF RecvInv
  <2>2. p2.routs = h2.rq + Tally(h2.cq, OfRecv) + Tally(p2.todo, OfRecv)
    BY <2>1, <1>2, <1>13, Zenon DEF SameCounts
  <2>3. QED  BY <2>1, <2>2, <1>2 DEF RecvInv
<1>16. LocalInv(P, n, p2, h2)
  BY <1>5, <1>10, <1>11, <1>12, <1>14, <1>15 DEF LocalInv
<1>17. ASSUME NEW q \in QP PROVE Balls(P, n, p2, h2, q) <= Balls(P, n, p, h, q)
  <2>0. Owes(P, n, p2, q) = Owes(P, n, p, q)
    BY <1>2, <1>6 DEF Owes
  <2>1. Balls(P, n, p2, h2, q) = Balls(P, n, p, h, q)
    BY <2>0, <1>3, <1>13 DEF Balls, SameCounts
  <2>2. Balls(P, n, p, h, q) \in Nat
    BY <1>1, Numbers
  <2>3. QED  BY <2>1, <2>2
<1>18. QED  BY <1>16, <1>17 DEF p2, h2

(* The adapter takes a message from the wire: it is received, or lost.          *)
Carried(P, h, q) ==
  [h EXCEPT !.wire = [h.wire EXCEPT ![q] = Tail(h.wire[q])],
            !.acks = IF Reliable(P) THEN [h.acks EXCEPT ![q] = h.acks[q] + 1] ELSE h.acks]

LEMMA CarriedLocal ==
  ASSUME NEW P, NEW n \in Pair, NEW p, NEW h, LocalInv(P, n, p, h),
         NEW q \in QP, h.wire[q] # <<>>, NEW h2, h2 = Carried(P, h, q)
  PROVE  /\ LocalInv(P, n, p, h2)
         /\ Balls(P, n, p, h2, q) + 1 = Balls(P, n, p, h, q)
         /\ \A r \in QP : r # q => Balls(P, n, p, h2, r) = Balls(P, n, p, h, r)
<1> DEFINE w2 == [h.wire EXCEPT ![q] = Tail(h.wire[q])]
           a2 == IF Reliable(P) THEN [h.acks EXCEPT ![q] = h.acks[q] + 1] ELSE h.acks
<1>0. h2 = [h EXCEPT !.wire = w2, !.acks = a2]
  BY DEF Carried
<1>1. Typed(p, h) /\ PlaceInv(P, n, p) /\ QueueInv(P, n, p, h) /\ SendInv(P, p, h)
      /\ RecvInv(P, p, h) /\ WakeInv(P, p, h)
  BY DEF LocalInv
<1>2. /\ h.wire \in [QP -> Seq(Message)] /\ h.acks \in [QP -> Nat] /\ h \in HCA /\ h.tx_cq = <<>>
  BY <1>1, Fields DEF Typed
<1>3. /\ w2 \in [QP -> Seq(Message)] /\ w2[q] = Tail(h.wire[q])
      /\ Len(h.wire[q]) \in Nat /\ Len(h.wire[q]) = Len(w2[q]) + 1 /\ Len(w2[q]) \in Nat
      /\ \A i \in DOMAIN w2[q] : i + 1 \in DOMAIN h.wire[q] /\ w2[q][i] = h.wire[q][i + 1]
      /\ \A r \in QP : r # q => w2[r] = h.wire[r]
  <2>1. h.wire[q] \in Seq(Message) /\ h.wire[q] # <<>>
    BY <1>2
  <2> DEFINE s == h.wire[q]
             t == Tail(s)
  <2>2. t \in Seq(Message) /\ Len(t) = Len(s) - 1
    BY <2>1, HeadTailProperties
  <2>3. /\ Len(s) \in Nat /\ Len(s) = Len(t) + 1 /\ Len(t) \in Nat
        /\ \A i \in DOMAIN t : i + 1 \in DOMAIN s /\ t[i] = s[i + 1]
    BY <2>1, <2>2
  <2> HIDE DEF t
  <2>4. w2 = [h.wire EXCEPT ![q] = t]
    BY DEF t
  <2>5. w2 \in [QP -> Seq(Message)] /\ w2[q] = t /\ \A r \in QP : r # q => w2[r] = h.wire[r]
    BY <1>2, <2>2, <2>4
  <2>6. QED  BY <2>3, <2>5 DEF t
<1>4. /\ a2 \in [QP -> Nat] /\ h.acks[q] \in Nat
      /\ Reliable(P) => a2[q] = h.acks[q] + 1
      /\ ~Reliable(P) => a2 = h.acks
      /\ \A r \in QP : r # q => a2[r] = h.acks[r]
  BY <1>2
<1>5. /\ h2.wire = w2 /\ h2.acks = a2 /\ h2.cq = h.cq /\ h2.rq = h.rq /\ h2.armed = h.armed
      /\ h2.events = h.events /\ h2.qp = h.qp /\ h2 \in HCA /\ h2.tx_cq = <<>>
  <2> HIDE DEF w2, a2
  <2>1. QED  BY <1>0, <1>2, <1>3, <1>4 DEF HCA
<1> HIDE DEF w2, a2
<1>6. p.pc \in {"create"} \cup Gone => ~Reliable(P)
  <2> SUFFICES ASSUME p.pc \in {"create"} \cup Gone, Reliable(P) PROVE FALSE
    OBVIOUS
  <2>1. h.wire = NoHCA.wire
    BY <1>1 DEF QueueInv
  <2>2. QED  BY <2>1 DEF NoHCA
<1>7. Typed(p, h2)
  BY <1>1, <1>5 DEF Typed
<1>8. QueueInv(P, n, p, h2)
  <2>1. ASSUME p.pc \in {"create"} \cup Gone
        PROVE  h2 = [NoHCA EXCEPT !.wire = h2.wire] /\ (Reliable(P) => h2.wire = NoHCA.wire)
    <3>1. h = [NoHCA EXCEPT !.wire = h.wire] /\ ~Reliable(P) /\ a2 = h.acks
      BY <1>1, <1>4, <1>6, <2>1 DEF QueueInv
    <3>2. h2 = [h EXCEPT !.wire = w2]
      BY <3>1, <1>0, <1>2 DEF HCA
    <3>3. h2 = [NoHCA EXCEPT !.wire = w2]
      <4> DEFINE w == h.wire
      <4>1. h = [NoHCA EXCEPT !.wire = w]
        BY <3>1
      <4> HIDE DEF w
      <4>2. QED  BY <4>1, <3>2 DEF NoHCA
    <3>4. QED  BY <3>1, <3>3, <1>5
  <2>2. \A r \in QP : \A i \in DOMAIN h2.wire[r] :
          r \in P.qps[n] /\ h2.wire[r][i] = [to |-> 1 - n, qp |-> r, via |-> 1 - n, viaQp |-> r,
                                             signaled |-> TRUE]
    <3> SUFFICES ASSUME NEW r \in QP, NEW i \in DOMAIN w2[r]
        PROVE r \in P.qps[n] /\ w2[r][i] = [to |-> 1 - n, qp |-> r, via |-> 1 - n, viaQp |-> r,
                                            signaled |-> TRUE]
      BY <1>5
    <3>1. CASE r # q
      BY <3>1, <1>1, <1>3 DEF QueueInv
    <3>2. CASE r = q
      <4>1. i + 1 \in DOMAIN h.wire[r] /\ w2[r][i] = h.wire[r][i + 1]
        BY <3>2, <1>3
      <4>2. QED  BY <4>1, <1>1 DEF QueueInv
    <3>3. QED  BY <3>1, <3>2
  <2>3. \A r \in QP : h2.acks[r] > 0 => r \in P.qps[n]
    <3>1. q \in P.qps[n]
      <4>1. 1 \in DOMAIN h.wire[q]
        BY <1>3
      <4>2. QED  BY <4>1, <1>1 DEF QueueInv
    <3>2. \A r \in QP : r # q => h2.acks[r] = h.acks[r]
      BY <1>4, <1>5
    <3>3. QED  BY <3>1, <3>2, <1>1 DEF QueueInv
  <2>4. QED  BY <2>1, <2>2, <2>3, <1>1, <1>5 DEF QueueInv
<1>9. \A r \in QP : /\ Arrived(p, h2, r) = Arrived(p, h, r)
                    /\ r # q => Sends(P, p, h2, r) = Sends(P, p, h, r)
  <2>1. \A r \in QP : Arrived(p, h2, r) = Arrived(p, h, r)
    BY <1>5 DEF Arrived
  <2>2. ASSUME NEW r \in QP, r # q PROVE Sends(P, p, h2, r) = Sends(P, p, h, r)
    BY <1>3, <1>4, <1>5, <2>2 DEF Sends
  <2>3. QED  BY <2>1, <2>2
<1>10. Sends(P, p, h2, q) <= Sends(P, p, h, q) /\ Sends(P, p, h2, q) \in Nat
       /\ Sends(P, p, h, q) \in Nat
  <2> DEFINE k == Len(h.wire[q])
             k2 == Len(w2[q])
             c == h.acks[q]
             c2 == a2[q]
             x == Tally(h.cq, Of("send", q))
             y == Tally(p.todo, Of("send", q))
  <2>1. k = k2 + 1 /\ k \in Nat /\ k2 \in Nat /\ c \in Nat /\ x \in Nat /\ y \in Nat
    BY <1>1, <1>3, <1>4, Numbers
  <2>2. /\ Sends(P, p, h, q) \in Nat /\ Sends(P, p, h2, q) \in Nat
    BY <1>1, <1>7, Numbers
  <2>3. CASE Reliable(P)
    <3>1. c2 = c + 1
      BY <2>3, <1>4
    <3>2. Sends(P, p, h, q) = k + c + x + y /\ Sends(P, p, h2, q) = k2 + c2 + x + y
      BY <2>3, <1>5, Zenon DEF Sends
    <3> HIDE DEF k, k2, c, c2, x, y
    <3>3. k + c + x + y = k2 + c2 + x + y
      BY <2>1, <3>1
    <3>4. Sends(P, p, h, q) = Sends(P, p, h2, q)
      BY <3>2, <3>3
    <3>5. QED  BY <2>2, <3>4
  <2>4. CASE ~Reliable(P)
    <3>1. Sends(P, p, h, q) = 0 + c + x + y /\ Sends(P, p, h2, q) = 0 + c2 + x + y /\ c2 = c
      BY <2>4, <1>4, <1>5, Zenon DEF Sends
    <3>2. QED  BY <2>2, <3>1
  <2>5. QED  BY <2>3, <2>4
<1>11. SendInv(P, p, h2)
  <2>1. \A r \in QP : Sending(p, r) \in {0, 1} /\ Sends(P, p, h, r) <= Sending(p, r)
    BY <1>1 DEF SendInv, Sending
  <2>2. Sends(P, p, h2, q) <= Sending(p, q)
    BY <1>10, <2>1
  <2>3. QED  BY <2>1, <2>2, <1>9 DEF SendInv
<1>12. WakeInv(P, p, h2) /\ RecvInv(P, p, h2)
  BY <1>1, <1>5 DEF WakeInv, RecvInv
<1>13. LocalInv(P, n, p, h2)
  BY <1>1, <1>7, <1>8, <1>11, <1>12 DEF LocalInv
<1>14. Balls(P, n, p, h2, q) + 1 = Balls(P, n, p, h, q)
  <2>1. Balls(P, n, p, h2, q) = Len(w2[q]) + Arrived(p, h, q) + Owes(P, n, p, q)
        /\ Balls(P, n, p, h, q) = Len(h.wire[q]) + Arrived(p, h, q) + Owes(P, n, p, q)
    BY <1>5, <1>9 DEF Balls
  <2>2. Arrived(p, h, q) \in Nat /\ Owes(P, n, p, q) \in {0, 1}
    BY <1>1, Numbers
  <2> DEFINE k == Len(h.wire[q])
             k2 == Len(w2[q])
             x == Arrived(p, h, q)
             y == Owes(P, n, p, q)
             b == Balls(P, n, p, h, q)
             b2 == Balls(P, n, p, h2, q)
  <2>3. k = k2 + 1 /\ k2 \in Nat /\ x \in Nat /\ y \in {0, 1} /\ b = k + x + y /\ b2 = k2 + x + y
    BY <1>3, <2>1, <2>2
  <2> HIDE DEF k, k2, x, y, b, b2
  <2>4. b2 + 1 = b
    BY <2>3
  <2>5. QED  BY <2>4 DEF b, b2
<1>15. \A r \in QP : r # q => Balls(P, n, p, h2, r) = Balls(P, n, p, h, r)
  BY <1>3, <1>5, <1>9 DEF Balls
<1>16. QED  BY <1>13, <1>14, <1>15

(* What a step of the adapter does to h before a completion of q enters the CQ: *)
(* a receive is taken, a send is done, or the sends of q are given up.          *)
Used(P, h, g, q, op) ==
  /\ g \in HCA /\ g.qp = h.qp /\ g.cq = h.cq /\ g.tx_cq = h.tx_cq
  /\ g.armed = h.armed /\ g.events = h.events
  /\ \A r \in QP : r # q => g.wire[r] = h.wire[r] /\ g.acks[r] = h.acks[r]
  /\ \/ op = "recv" /\ g.rq + 1 = h.rq /\ g.wire[q] = h.wire[q] /\ g.acks[q] = h.acks[q]
     \/ op = "send" /\ g.rq = h.rq /\ g.wire[q] = h.wire[q] /\ g.acks[q] + 1 = h.acks[q]
     \/ /\ op = "send" /\ g.rq = h.rq /\ Reliable(P) /\ h.wire[q] # <<>> /\ g.wire[q] = <<>>
        /\ g.acks[q] = h.acks[q]

LEMMA UsedSends ==
  ASSUME NEW P, NEW p, NEW h, NEW g, NEW q \in QP, NEW op, Typed(p, h), Used(P, h, g, q, op)
  PROVE  /\ Typed(p, g)
         /\ \A r \in QP : Sends(P, p, g, r) + (IF r = q /\ op = "send" THEN 1 ELSE 0)
                           <= Sends(P, p, h, r)
<1>1. Typed(p, g)
  BY DEF Typed, Used
<1>2. ASSUME NEW r \in QP, r # q PROVE Sends(P, p, g, r) = Sends(P, p, h, r)
  BY <1>2 DEF Sends, Used
<1>3. ASSUME op = "recv" PROVE Sends(P, p, g, q) = Sends(P, p, h, q)
  BY <1>3 DEF Sends, Used
<1>4. ASSUME op = "send" PROVE Sends(P, p, g, q) + 1 <= Sends(P, p, h, q)
  <2> DEFINE k == Len(h.wire[q])
             c == h.acks[q]
             c2 == g.acks[q]
             x == Tally(h.cq, Of("send", q))
             y == Tally(p.todo, Of("send", q))
             s == Sends(P, p, h, q)
             s2 == Sends(P, p, g, q)
  <2>1. k \in Nat /\ c \in Nat /\ c2 \in Nat /\ x \in Nat /\ y \in Nat
    BY <1>1, Numbers
  <2>2. h.wire[q] \in Seq(Message)
    BY Fields
  <2>3. g.cq = h.cq
    BY DEF Used
  <2>4. CASE g.wire[q] = h.wire[q] /\ g.acks[q] + 1 = h.acks[q]
    <3>1. c2 + 1 = c
      BY <2>4
    <3>2. CASE Reliable(P)
      <4>1. s = k + c + x + y /\ s2 = k + c2 + x + y
        BY <2>3, <2>4, <3>2, Zenon DEF Sends
      <4> HIDE DEF k, c, c2, x, y, s, s2
      <4>2. s2 + 1 <= s
        BY <2>1, <3>1, <4>1
      <4>3. QED  BY <4>2 DEF s, s2
    <3>3. CASE ~Reliable(P)
      <4>1. s = 0 + c + x + y /\ s2 = 0 + c2 + x + y
        BY <2>3, <2>4, <3>3, Zenon DEF Sends
      <4> HIDE DEF k, c, c2, x, y, s, s2
      <4>2. s2 + 1 <= s
        BY <2>1, <3>1, <4>1
      <4>3. QED  BY <4>2 DEF s, s2
    <3>4. QED  BY <3>2, <3>3
  <2>5. CASE Reliable(P) /\ h.wire[q] # <<>> /\ g.wire[q] = <<>> /\ g.acks[q] = h.acks[q]
    <3>1. k >= 1 /\ Len(g.wire[q]) = 0 /\ c2 = c
      <4>1. Len(h.wire[q]) \in Nat \ {0}
        BY <2>2, <2>5, EmptySeq
      <4>2. QED  BY <4>1, <2>5, EmptySeq
    <3>2. s = k + c + x + y /\ s2 = 0 + c2 + x + y
      BY <2>3, <2>5, <3>1, Zenon DEF Sends
    <3> HIDE DEF k, c, c2, x, y, s, s2
    <3>3. s2 + 1 <= s
      BY <2>1, <3>1, <3>2
    <3>4. QED  BY <3>3 DEF s, s2
  <2>6. QED  BY <1>4, <2>4, <2>5 DEF Used
<1>5. op \in {"send", "recv"}
  BY DEF Used
<1>6. \A r \in QP : Sends(P, p, h, r) \in Nat /\ Sends(P, p, g, r) \in Nat
  BY <1>1, Numbers
<1>7. QED  BY <1>1, <1>2, <1>3, <1>4, <1>5, <1>6

(* A completion enters the CQ.                                                  *)
LEMMA EnteredLocal ==
  ASSUME NEW P, NEW n \in Pair, NEW p, NEW h, LocalInv(P, n, p, h), P.qps[n] \subseteq QP,
         p.pc \notin {"create"} \cup Gone, NEW wc \in Completion, wc.qp \in P.qps[n],
         NEW g, Used(P, h, g, wc.qp, wc.op), NEW h2,
         h2 = [g EXCEPT !.cq = Append(g.cq, wc), !.armed = FALSE,
                        !.events = IF g.armed THEN g.events + 1 ELSE g.events]
  PROVE  /\ LocalInv(P, n, p, h2)
         /\ \A r \in QP : Balls(P, n, p, h2, r)
              <= Balls(P, n, p, h, r) + (IF r = wc.qp /\ wc.op = "recv" THEN 1 ELSE 0)
<1> DEFINE q == wc.qp
           cq2 == Append(h.cq, wc)
           got == IF wc.op = "recv" THEN 1 ELSE 0
<1>1. Typed(p, h) /\ PlaceInv(P, n, p) /\ QueueInv(P, n, p, h) /\ SendInv(P, p, h)
      /\ RecvInv(P, p, h) /\ WakeInv(P, p, h)
  BY DEF LocalInv
<1>2. h.cq \in Seq(Completion) /\ q \in QP /\ wc.op \in Op /\ h.events \in Nat /\ h.armed \in BOOLEAN
      /\ h.rq \in Nat /\ Typed(p, g)
  BY <1>1, Fields, UsedSends DEF Completion, Op
<1>3. /\ cq2 \in Seq(Completion) /\ cq2 # <<>>
      /\ \A i \in DOMAIN cq2 : cq2[i] = wc \/ (i \in DOMAIN h.cq /\ cq2[i] = h.cq[i])
      /\ Len(cq2) = Len(h.cq) + 1
  BY <1>2, AppendProperties, LenProperties
<1>4. /\ \A M : Tally(cq2, M) = Tally(h.cq, M) + (IF wc \in M THEN 1 ELSE 0)
      /\ \A M : Tally(h.cq, M) \in Nat /\ Tally(p.todo, M) \in Nat /\ Tally(cq2, M) \in Nat
  <2>1. \A M : Tally(cq2, M) = Tally(h.cq, M) + (IF wc \in M THEN 1 ELSE 0)
    BY <1>2, TallyAppend
  <2>2. p.todo \in Seq(Completion)
    BY <1>1, Fields
  <2> HIDE DEF cq2
  <2>3. \A M : Tally(h.cq, M) \in Nat /\ Tally(p.todo, M) \in Nat /\ Tally(cq2, M) \in Nat
    BY <2>2, <1>2, <1>3, TallyType
  <2>4. QED  BY <2>1, <2>3
<1>5. /\ h2.wire = g.wire /\ h2.acks = g.acks /\ h2.cq = cq2 /\ h2.rq = g.rq
      /\ h2.armed = FALSE /\ h2.events = IF h.armed THEN h.events + 1 ELSE h.events
      /\ h2.qp = h.qp /\ h2 \in HCA /\ h2.tx_cq = <<>>
  <2>1. g \in HCA /\ g.cq = h.cq /\ g.armed = h.armed /\ g.events = h.events /\ g.qp = h.qp
        /\ g.tx_cq = <<>>
    BY <1>1 DEF Used, Typed
  <2> DEFINE e == IF h.armed THEN h.events + 1 ELSE h.events
  <2>2. e \in Nat
    BY <1>2
  <2> HIDE DEF e, cq2
  <2>3. h2 = [g EXCEPT !.cq = cq2, !.armed = FALSE, !.events = e]
    BY <2>1 DEF e, cq2
  <2>4. h2 \in HCA
    BY <2>1, <2>2, <2>3, <1>3 DEF HCA
  <2>5. QED  BY <2>1, <2>3, <2>4 DEF HCA, e
<1>6. P.event => h2.events > 0
  <2>1. P.event => h.armed \/ h.events > 0
    BY <1>1 DEF WakeInv
  <2>2. QED  BY <2>1, <1>2, <1>5
<1> HIDE DEF cq2
<1>7. Typed(p, h2)
  BY <1>1, <1>5 DEF Typed
<1>8. QueueInv(P, n, p, h2)
  <2>1. \A r \in QP : \A i \in DOMAIN h2.wire[r] :
          r \in P.qps[n] /\ h2.wire[r][i] = [to |-> 1 - n, qp |-> r, via |-> 1 - n, viaQp |-> r,
                                             signaled |-> TRUE]
    <3>1. \A r \in QP : h2.wire[r] = h.wire[r] \/ h2.wire[r] = <<>>
      BY <1>5 DEF Used
    <3>2. QED  BY <3>1, <1>1 DEF QueueInv
  <2>2. \A r \in QP : h2.acks[r] > 0 => r \in P.qps[n]
    <3>1. \A r \in QP : r # q => h2.acks[r] = h.acks[r]
      BY <1>5 DEF Used
    <3>2. QED  BY <3>1, <1>1 DEF QueueInv
  <2>3. \A i \in DOMAIN h2.cq : h2.cq[i].qp \in P.qps[n]
    BY <1>1, <1>3, <1>5 DEF QueueInv
  <2>4. QED  BY <2>1, <2>2, <2>3, <1>1, <1>5 DEF QueueInv
<1>9. ASSUME NEW r \in QP
      PROVE  /\ Sends(P, p, h2, r) <= Sending(p, r)
             /\ Balls(P, n, p, h2, r)
                  <= Balls(P, n, p, h, r) + (IF r = q /\ wc.op = "recv" THEN 1 ELSE 0)
  <2> DEFINE one == IF r = q /\ wc.op = "send" THEN 1 ELSE 0
             two == IF r = q /\ wc.op = "recv" THEN 1 ELSE 0
             w == IF Reliable(P) THEN Len(g.wire[r]) ELSE 0
             c == g.acks[r]
             x == Tally(h.cq, Of("send", r))
             y == Tally(p.todo, Of("send", r))
  <2>1. /\ one \in {0, 1} /\ two \in {0, 1}
        /\ (wc \in Of("send", r)) <=> (r = q /\ wc.op = "send")
        /\ (wc \in Of("recv", r)) <=> (r = q /\ wc.op = "recv")
    BY DEF Of
  <2>2. /\ Tally(cq2, Of("send", r)) = x + one
        /\ Tally(cq2, Of("recv", r)) = Tally(h.cq, Of("recv", r)) + two
    BY <1>4, <2>1
  <2>3. Sends(P, p, h2, r) = Sends(P, p, g, r) + one
    <3>1. Sends(P, p, h2, r) = w + c + Tally(cq2, Of("send", r)) + y
      <4>1. h2.wire[r] = g.wire[r] /\ h2.acks[r] = g.acks[r] /\ h2.cq = cq2
        BY <1>5
      <4> DEFINE w2 == IF Reliable(P) THEN Len(h2.wire[r]) ELSE 0
                 c2 == h2.acks[r]
      <4>2. w2 = w /\ c2 = c
        BY <4>1
      <4>3. Sends(P, p, h2, r) = w2 + c2 + Tally(h2.cq, Of("send", r)) + y
        BY Zenon DEF Sends
      <4> HIDE DEF w, c, y, w2, c2
      <4>4. QED  BY <4>1, <4>2, <4>3, Zenon
    <3>2. Sends(P, p, g, r) = w + c + x + y
      <4>1. g.cq = h.cq
        BY DEF Used
      <4>2. QED  BY <4>1, Zenon DEF Sends
    <3>3. w \in Nat /\ c \in Nat /\ x \in Nat /\ y \in Nat
      <4>1. Len(g.wire[r]) \in Nat /\ g.acks[r] \in Nat
        BY <1>2, Numbers
      <4>2. QED  BY <4>1, <1>4
    <3> DEFINE z == Tally(cq2, Of("send", r))
               s2 == Sends(P, p, h2, r)
               s == Sends(P, p, g, r)
    <3>4. z = x + one /\ s2 = w + c + z + y /\ s = w + c + x + y
      BY <2>2, <3>1, <3>2
    <3> HIDE DEF w, c, x, y, one, two, z, s2, s
    <3>5. s2 = s + one
      BY <2>1, <3>3, <3>4
    <3>6. QED  BY <3>5 DEF s2, s
  <2>4. Sends(P, p, g, r) + one <= Sends(P, p, h, r)
    <3>1. Typed(p, h) /\ q \in QP /\ Used(P, h, g, q, wc.op)
      BY <1>1, <1>2
    <3>2. Sends(P, p, g, r) + (IF r = q /\ wc.op = "send" THEN 1 ELSE 0) <= Sends(P, p, h, r)
      BY <3>1, UsedSends, Zenon
    <3>3. QED  BY <3>2
  <2>5. Sends(P, p, h2, r) <= Sending(p, r)
    <3>1. Sends(P, p, h, r) <= Sending(p, r)
      BY <1>1 DEF SendInv
    <3>2. Sends(P, p, h, r) \in Nat /\ Sends(P, p, h2, r) \in Nat /\ Sending(p, r) \in {0, 1}
      BY <1>1, <1>7, Numbers
    <3>3. QED  BY <2>3, <2>4, <3>1, <3>2
  <2>6. Arrived(p, h2, r) = Arrived(p, h, r) + two
    <3>1. Arrived(p, h2, r) = Tally(cq2, Of("recv", r)) + Tally(p.todo, Of("recv", r))
          /\ Arrived(p, h, r) = Tally(h.cq, Of("recv", r)) + Tally(p.todo, Of("recv", r))
      BY <1>5 DEF Arrived
    <3>2. Tally(h.cq, Of("recv", r)) \in Nat /\ Tally(p.todo, Of("recv", r)) \in Nat
      BY <1>4
    <3> HIDE DEF two
    <3>3. QED  BY <2>1, <2>2, <3>1, <3>2
  <2>7. Len(h2.wire[r]) <= Len(h.wire[r])
    <3>1. h2.wire[r] = h.wire[r] \/ h2.wire[r] = <<>>
      BY <1>5 DEF Used
    <3>2. Len(h.wire[r]) \in Nat
      BY <1>1, Numbers
    <3>3. QED  BY <3>1, <3>2, EmptySeq
  <2>8. Balls(P, n, p, h2, r) <= Balls(P, n, p, h, r) + two
    <3> DEFINE k == Len(h.wire[r])
               k2 == Len(h2.wire[r])
               a == Arrived(p, h, r)
               a2 == Arrived(p, h2, r)
               o == Owes(P, n, p, r)
    <3>1. k \in Nat /\ k2 \in Nat /\ k2 <= k /\ a \in Nat /\ a2 = a + two /\ o \in {0, 1}
      BY <1>1, <1>7, <2>6, <2>7, Numbers
    <3>2. Balls(P, n, p, h2, r) = k2 + a2 + o /\ Balls(P, n, p, h, r) = k + a + o
      BY DEF Balls
    <3> HIDE DEF k, k2, a, a2, o, two
    <3>3. k2 + a2 + o <= k + a + o + two
      BY <2>1, <3>1
    <3>4. QED  BY <3>2, <3>3
  <2>9. QED  BY <2>5, <2>8
<1>10. WakeInv(P, p, h2)
  BY <1>6 DEF WakeInv
<1>11. RecvInv(P, p, h2)
  <2>1. p.routs >= 1 /\ p.routs = h.rq + Tally(h.cq, OfRecv) + Tally(p.todo, OfRecv)
    BY <1>1 DEF RecvInv
  <2>2. Tally(cq2, OfRecv) = Tally(h.cq, OfRecv) + got
    <3>1. wc \in OfRecv <=> wc.op = "recv"
      BY DEF OfRecv
    <3>2. QED  BY <3>1, <1>4
  <2>3. g.rq + got = h.rq
    BY <1>2 DEF Used, Op
  <2>4. g.rq \in Nat /\ Tally(h.cq, OfRecv) \in Nat /\ Tally(p.todo, OfRecv) \in Nat /\ got \in {0, 1}
    BY <1>2, <1>4, Fields
  <2> DEFINE x == Tally(h.cq, OfRecv)
             x2 == Tally(cq2, OfRecv)
             y == Tally(p.todo, OfRecv)
             k == h.rq
             k2 == g.rq
  <2>5. p.routs = k + x + y /\ x2 = x + got /\ k2 + got = k /\ k2 \in Nat /\ x \in Nat /\ y \in Nat
        /\ got \in {0, 1}
    BY <2>1, <2>2, <2>3, <2>4
  <2> HIDE DEF x, x2, y, k, k2, got
  <2>6. p.routs = k2 + x2 + y
    BY <2>5
  <2>7. QED  BY <2>1, <2>6, <1>5 DEF RecvInv, x2, y, k2
<1>12. LocalInv(P, n, p, h2)
  BY <1>1, <1>7, <1>8, <1>9, <1>10, <1>11 DEF LocalInv, SendInv
<1>13. QED  BY <1>9, <1>12

(****************************************************************************)
(* Each step of a process, and of the adapters.                              *)
(****************************************************************************)
(* What is known of a process of a pair before its step, and after it.          *)
Here(n) ==
  /\ program \in Programs /\ program.name \in PingPongs /\ n \in Pair
  /\ DOMAIN proc = Node /\ DOMAIN hca = Node
  /\ LocalInv(program, n, proc[n], hca[n])
  /\ \A q \in QP : Balls(program, n, proc[n], hca[n], q) <= 1

Moved(n) ==
  /\ program' = program /\ DOMAIN proc' = Node /\ DOMAIN hca' = Node
  /\ \A m \in Node : m # n => proc'[m] = proc[m] /\ hca'[m] = hca[m]
  /\ LocalInv(program, n, proc'[n], hca'[n])
  /\ \A q \in QP : Balls(program, n, proc'[n], hca'[n], q) <= Balls(program, n, proc[n], hca[n], q)

LEMMA HereFacts ==
  ASSUME NEW n, Here(n)
  PROVE  /\ n \in Node /\ n \in Pair /\ n \in Nat /\ program \in Programs
         /\ program.name \in PingPongs /\ qpsOf(n) = program.qps[n] /\ program.qps[n] \subseteq QP
         /\ program.event \in BOOLEAN /\ program.ts \in BOOLEAN /\ program.rx_depth = RxDepth
         /\ Typed(proc[n], hca[n]) /\ PlaceInv(program, n, proc[n])
         /\ QueueInv(program, n, proc[n], hca[n]) /\ WakeInv(program, proc[n], hca[n])
<1>1. n \in Pair /\ program \in Programs /\ program.name \in PingPongs
      /\ LocalInv(program, n, proc[n], hca[n])
  BY DEF Here
<1>2. n \in Node /\ n \in Nat
  BY <1>1, NodeAssumption DEF Pair
<1>3. program.qps[n] \subseteq QP /\ program.event \in BOOLEAN /\ program.ts \in BOOLEAN
      /\ program.rx_depth = RxDepth
  BY <1>1, PairProgram
<1>4. QED  BY <1>1, <1>2, <1>3 DEF LocalInv, qpsOf

LEMMA PrepareStep ==
  ASSUME NEW n, Here(n), NEW table, prepared(n, table, program.rx_depth)
  PROVE  Moved(n)
<1> DEFINE P == program
           p == proc[n]
           h == hca[n]
           m == Made(table.create, Len(table.create))
           p2 == [p EXCEPT !.pc = "exchange", !.routs = RxDepth, !.made = m]
           h2 == Created(h, P.qps[n], RxDepth, P.event)
<1>1. /\ n \in Pair /\ n \in Node /\ P \in Programs /\ P.name \in PingPongs /\ P.rx_depth = RxDepth
      /\ qpsOf(n) = P.qps[n] /\ LocalInv(P, n, p, h) /\ DOMAIN proc = Node /\ DOMAIN hca = Node
  BY HereFacts DEF Here
<1>2. /\ proc[n].pc = "create" /\ UNCHANGED program
      /\ proc' = [proc EXCEPT ![n].pc = "exchange", ![n].routs = RxDepth, ![n].made = m]
      /\ hca' = [hca EXCEPT ![n] = h2]
  BY <1>1 DEF prepared
<1> HIDE DEF m, h2
<1>3. /\ proc'[n] = p2 /\ hca'[n] = h2 /\ DOMAIN proc' = Node /\ DOMAIN hca' = Node
      /\ \A k \in Node : k # n => proc'[k] = proc[k] /\ hca'[k] = hca[k]
  BY <1>1, <1>2
<1>4. LocalInv(P, n, p2, h2) /\ \A q \in QP : Balls(P, n, p2, h2, q) <= Balls(P, n, p, h, q)
  BY <1>1, <1>2, PreparedLocal DEF h2
<1> HIDE DEF p2
<1>5. QED  BY <1>2, <1>3, <1>4 DEF Moved

LEMMA ErrorStep ==
  ASSUME NEW n, Here(n), return_error(n), UNCHANGED program
  PROVE  Moved(n)
<1> DEFINE P == program
           p == proc[n]
           h == hca[n]
           p2 == [p EXCEPT !.pc = "failed", !.todo = <<>>, !.made = p.made]
           h2 == Destroyed(h)
<1>1. /\ n \in Pair /\ n \in Node /\ LocalInv(P, n, p, h) /\ Typed(p, h)
      /\ DOMAIN proc = Node /\ DOMAIN hca = Node
  BY HereFacts DEF Here
<1>2. h2.wire = (IF Reliable(P) THEN NoHCA.wire ELSE h.wire) /\ h2 = [NoHCA EXCEPT !.wire = h2.wire]
  <2>1. reliable <=> Reliable(P)
    BY DEF reliable, Reliable
  <2>2. \A w : [NoHCA EXCEPT !.wire = w].wire = w
    BY DEF NoHCA
  <2>3. h2 = [NoHCA EXCEPT !.wire = IF reliable THEN NoHCA.wire ELSE h.wire]
    BY DEF Destroyed, NoHCA
  <2> DEFINE w == IF reliable THEN NoHCA.wire ELSE h.wire
  <2>4. h2 = [NoHCA EXCEPT !.wire = w]
    BY <2>3
  <2>5. w = (IF Reliable(P) THEN NoHCA.wire ELSE h.wire)
    BY <2>1
  <2> HIDE DEF w, h2
  <2>6. h2.wire = w
    BY <2>2, <2>4, Zenon
  <2>7. QED  BY <2>4, <2>5, <2>6
<1>3. proc' = [proc EXCEPT ![n].pc = "failed", ![n].todo = <<>>] /\ hca' = [hca EXCEPT ![n] = h2]
  BY DEF return_error
<1> HIDE DEF h2
<1>4. /\ hca'[n] = h2 /\ DOMAIN proc' = Node /\ DOMAIN hca' = Node
      /\ \A k \in Node : k # n => proc'[k] = proc[k] /\ hca'[k] = hca[k]
  BY <1>1, <1>3
<1>5. proc'[n] = p2
  <2>1. proc'[n] = [p EXCEPT !.pc = "failed", !.todo = <<>>]
    BY <1>1, <1>3
  <2>2. [p EXCEPT !.pc = "failed", !.todo = <<>>] = p2
    BY <1>1 DEF Typed
  <2>3. QED  BY <2>1, <2>2
<1>6. LocalInv(P, n, p2, h2) /\ \A q \in QP : Balls(P, n, p2, h2, q) <= Balls(P, n, p, h, q)
  <2>1. "failed" \in Gone
    BY DEF Gone
  <2>2. QED  BY <1>1, <1>2, <2>1, ExitedLocal
<1> HIDE DEF p2
<1>7. QED  BY <1>4, <1>5, <1>6 DEF Moved

LEMMA InitFailsStep ==
  ASSUME NEW n, Here(n), NEW table, init_fails(n, table)
  PROVE  Moved(n)
<1> DEFINE P == program
           p == proc[n]
           h == hca[n]
<1>1. /\ n \in Pair /\ n \in Node /\ LocalInv(P, n, p, h) /\ Typed(p, h) /\ QueueInv(P, n, p, h)
      /\ PlaceInv(P, n, p) /\ DOMAIN proc = Node /\ DOMAIN hca = Node
  BY HereFacts DEF Here
<1>2. PICK m : proc' = [proc EXCEPT ![n].pc = "no_ctx", ![n].made = m]
  BY DEF init_fails
<1>3. p.pc = "create" /\ UNCHANGED <<program, hca>>
  BY DEF init_fails
<1> DEFINE p2 == [p EXCEPT !.pc = "no_ctx", !.todo = <<>>, !.made = m]
<1>4. DOMAIN proc' = Node /\ \A k \in Node : k # n => proc'[k] = proc[k]
  BY <1>1, <1>2
<1>5. proc'[n] = p2
  <2>1. proc'[n] = [p EXCEPT !.pc = "no_ctx", !.made = m]
    BY <1>1, <1>2
  <2>2. p.todo = <<>>
    BY <1>1, <1>3 DEF PlaceInv
  <2>3. [p EXCEPT !.pc = "no_ctx", !.made = m] = p2
    BY <1>1, <2>2 DEF Typed
  <2>4. QED  BY <2>1, <2>3
<1>6. h = [NoHCA EXCEPT !.wire = h.wire] /\ h.wire = (IF Reliable(P) THEN NoHCA.wire ELSE h.wire)
  BY <1>1, <1>3 DEF QueueInv
<1>7. LocalInv(P, n, p2, h) /\ \A q \in QP : Balls(P, n, p2, h, q) <= Balls(P, n, p, h, q)
  <2>1. "no_ctx" \in Gone
    BY DEF Gone
  <2>2. QED  BY <1>1, <1>6, <2>1, ExitedLocal
<1> HIDE DEF p2
<1>8. QED  BY <1>1, <1>3, <1>4, <1>5, <1>7 DEF Moved

LEMMA CloseStep ==
  ASSUME NEW n, Here(n), NEW objects, main_closes(n, objects)
  PROVE  Moved(n)
<1> DEFINE P == program
           p == proc[n]
           h == hca[n]
           r == Closed(p.made, objects)
           pc2 == IF r.ok THEN "done" ELSE "failed"
           m == r.left
           p2 == [p EXCEPT !.pc = pc2, !.todo = <<>>, !.made = m]
           h2 == Destroyed(h)
<1>1. /\ n \in Pair /\ n \in Node /\ LocalInv(P, n, p, h) /\ Typed(p, h) /\ PlaceInv(P, n, p)
      /\ DOMAIN proc = Node /\ DOMAIN hca = Node
  BY HereFacts DEF Here
<1>2. h2.wire = (IF Reliable(P) THEN NoHCA.wire ELSE h.wire) /\ h2 = [NoHCA EXCEPT !.wire = h2.wire]
  <2>1. reliable <=> Reliable(P)
    BY DEF reliable, Reliable
  <2>2. \A w : [NoHCA EXCEPT !.wire = w].wire = w
    BY DEF NoHCA
  <2> DEFINE w == IF reliable THEN NoHCA.wire ELSE h.wire
  <2>4. h2 = [NoHCA EXCEPT !.wire = w]
    BY DEF Destroyed, NoHCA
  <2>5. w = (IF Reliable(P) THEN NoHCA.wire ELSE h.wire)
    BY <2>1
  <2> HIDE DEF w, h2
  <2>6. h2.wire = w
    BY <2>2, <2>4, Zenon
  <2>7. QED  BY <2>4, <2>5, <2>6
<1>3. /\ proc' = [proc EXCEPT ![n].pc = pc2, ![n].made = m] /\ hca' = [hca EXCEPT ![n] = h2]
      /\ p.pc = "loop" /\ UNCHANGED program
  BY DEF main_closes, close_ctx
<1>4. pc2 \in Gone
  BY DEF Gone
<1> HIDE DEF h2, pc2, m, r
<1>5. /\ hca'[n] = h2 /\ DOMAIN proc' = Node /\ DOMAIN hca' = Node
      /\ \A k \in Node : k # n => proc'[k] = proc[k] /\ hca'[k] = hca[k]
  BY <1>1, <1>3
<1>6. proc'[n] = p2
  <2>1. proc'[n] = [p EXCEPT !.pc = pc2, !.made = m]
    BY <1>1, <1>3
  <2>2. p.todo = <<>>
    BY <1>1, <1>3 DEF PlaceInv
  <2>3. [p EXCEPT !.pc = pc2, !.made = m] = p2
    BY <1>1, <2>2 DEF Typed
  <2>4. QED  BY <2>1, <2>3
<1>7. LocalInv(P, n, p2, h2) /\ \A q \in QP : Balls(P, n, p2, h2, q) <= Balls(P, n, p, h, q)
  BY <1>1, <1>2, <1>4, ExitedLocal
<1> HIDE DEF p2
<1>8. QED  BY <1>3, <1>5, <1>6, <1>7 DEF Moved

(* The exchange of addresses, up to the first send or the loop.                 *)
LEMMA AheadLocal ==
  ASSUME NEW P, NEW n \in Pair, NEW p, NEW h, LocalInv(P, n, p, h), NEW pc2, NEW m, NEW h2 \in HCA,
         p.pc \in {"exchange", "read_addr", "connect"},
         n = 0 => pc2 = "read_done", n = 1 => pc2 \in {"read_addr", "connect", "first"},
         h2.wire = h.wire, h2.acks = h.acks, h2.cq = h.cq, h2.rq = h.rq, h2.tx_cq = h.tx_cq,
         h2.armed = h.armed, h2.events = h.events,
         pc2 \in {"read_done", "first"} => \A q \in P.qps[n] : h2.qp[q] = "rts"
  PROVE  LET p2 == [p EXCEPT !.pc = pc2, !.made = m]
         IN LocalInv(P, n, p2, h2) /\ \A q \in QP : Balls(P, n, p2, h2, q) <= Balls(P, n, p, h, q)
<1> DEFINE p2 == [p EXCEPT !.pc = pc2, !.made = m]
<1>1. Typed(p, h) /\ PlaceInv(P, n, p) /\ WakeInv(P, p, h)
  BY DEF LocalInv
<1>2. p2.pc = pc2 /\ p2.todo = p.todo /\ p2.turn = p.turn /\ p2.pending = p.pending
      /\ p2.scnt = p.scnt /\ p2.rcnt = p.rcnt
  BY <1>1 DEF Typed
<1>3. pc2 \in {"read_done", "read_addr", "connect", "first"} /\ (n = 0 \/ n = 1)
  BY DEF Pair
<1> HIDE DEF p2
<1>4. PlaceInv(P, n, p2)
  BY <1>1, <1>2, <1>3 DEF PlaceInv, Before, LoopPc, Gone
<1>5. WakeInv(P, p2, h2)
  BY <1>1, <1>2, <1>3 DEF WakeInv, Between, Gone
<1>6. /\ pc2 \notin Gone /\ p.pc \notin {"create"} \cup Gone /\ pc2 # "create" /\ pc2 \notin LoopPc
  BY <1>3 DEF Gone, LoopPc
<1>7. PlaceInv(P, n, [p EXCEPT !.pc = pc2, !.made = m])
      /\ WakeInv(P, [p EXCEPT !.pc = pc2, !.made = m], h2)
  BY <1>4, <1>5 DEF p2
<1>8. pc2 \in {"read_done", "first"} \cup LoopPc => \A q \in P.qps[n] : h2.qp[q] = "rts"
  BY <1>6
<1>9. QED  BY <1>6, <1>7, <1>8, MovedLocal

LEMMA ConnectedFields ==
  ASSUME NEW h \in HCA, NEW Q \in SUBSET QP
  PROVE  LET g == Connected(h, Q)
         IN /\ g \in HCA /\ g.wire = h.wire /\ g.acks = h.acks /\ g.cq = h.cq /\ g.rq = h.rq
            /\ g.tx_cq = h.tx_cq /\ g.armed = h.armed /\ g.events = h.events
            /\ \A q \in Q : g.qp[q] = "rts"
BY DEF Connected, HCA

LEMMA CallStep ==
  ASSUME NEW n, Here(n), client_calls(n)
  PROVE  Moved(n)
<1> DEFINE P == program
           p == proc[n]
           h == hca[n]
           p2 == [p EXCEPT !.pc = "read_addr", !.made = p.made]
<1>1. /\ n \in Pair /\ n \in Node /\ LocalInv(P, n, p, h) /\ Typed(p, h)
      /\ DOMAIN proc = Node /\ DOMAIN hca = Node /\ h \in HCA
  BY HereFacts DEF Here, Typed
<1>2. n # 0 /\ p.pc = "exchange" /\ UNCHANGED program
  BY DEF client_calls, server
<1>3. CASE return_error(n)
  BY <1>2, <1>3, ErrorStep
<1>4. CASE proc' = [proc EXCEPT ![n].pc = "read_addr"] /\ UNCHANGED hca
  <2>1. DOMAIN proc' = Node /\ \A k \in Node : k # n => proc'[k] = proc[k]
    BY <1>1, <1>4
  <2>2. proc'[n] = p2
    <3>1. proc'[n] = [p EXCEPT !.pc = "read_addr"]
      BY <1>1, <1>4
    <3>2. [p EXCEPT !.pc = "read_addr"] = p2
      BY <1>1 DEF Typed
    <3>3. QED  BY <3>1, <3>2
  <2>3. LocalInv(P, n, p2, h) /\ \A q \in QP : Balls(P, n, p2, h, q) <= Balls(P, n, p, h, q)
    BY <1>1, <1>2, AheadLocal
  <2> HIDE DEF p2
  <2>4. QED  BY <1>1, <1>2, <1>4, <2>1, <2>2, <2>3 DEF Moved
<1>5. QED  BY <1>3, <1>4 DEF client_calls

LEMMA ReadStep ==
  ASSUME NEW n, Here(n), client_reads(n)
  PROVE  Moved(n)
<1> DEFINE P == program
           p == proc[n]
           h == hca[n]
           p2 == [p EXCEPT !.pc = "connect", !.made = p.made]
<1>1. /\ n \in Pair /\ n \in Node /\ LocalInv(P, n, p, h) /\ Typed(p, h)
      /\ DOMAIN proc = Node /\ DOMAIN hca = Node /\ h \in HCA
  BY HereFacts DEF Here, Typed
<1>2. n # 0 /\ p.pc = "read_addr" /\ UNCHANGED <<program, hca>>
      /\ proc' = [proc EXCEPT ![n].pc = "connect"]
  BY DEF client_reads, server
<1>3. DOMAIN proc' = Node /\ \A k \in Node : k # n => proc'[k] = proc[k]
  BY <1>1, <1>2
<1>4. proc'[n] = p2
  <2>1. proc'[n] = [p EXCEPT !.pc = "connect"]
    BY <1>1, <1>2
  <2>2. [p EXCEPT !.pc = "connect"] = p2
    BY <1>1 DEF Typed
  <2>3. QED  BY <2>1, <2>2
<1>5. LocalInv(P, n, p2, h) /\ \A q \in QP : Balls(P, n, p2, h, q) <= Balls(P, n, p, h, q)
  BY <1>1, <1>2, AheadLocal
<1> HIDE DEF p2
<1>6. QED  BY <1>1, <1>2, <1>3, <1>4, <1>5 DEF Moved

(* The server connects, and then the client does.                               *)
Connects(n, pc2, m) ==
  /\ program' = program /\ DOMAIN proc' = Node /\ DOMAIN hca' = Node
  /\ \A k \in Node : k # n => proc'[k] = proc[k] /\ hca'[k] = hca[k]
  /\ proc'[n] = [proc[n] EXCEPT !.pc = pc2, !.made = m]
  /\ hca'[n] = Connected(hca[n], program.qps[n])

LEMMA ConnectStep ==
  ASSUME NEW n, Here(n), NEW pc2, NEW m, proc[n].pc \in {"exchange", "connect"},
         n = 0 => pc2 = "read_done", n = 1 => pc2 = "first",
         Connects(n, pc2, m)
  PROVE  Moved(n)
<1> DEFINE P == program
           p == proc[n]
           h == hca[n]
           p2 == [p EXCEPT !.pc = pc2, !.made = m]
           h2 == Connected(h, P.qps[n])
<1>1. /\ n \in Pair /\ n \in Node /\ LocalInv(P, n, p, h) /\ Typed(p, h)
      /\ DOMAIN proc = Node /\ DOMAIN hca = Node /\ h \in HCA /\ P.qps[n] \in SUBSET QP
      /\ qpsOf(n) = P.qps[n]
  BY HereFacts DEF Here, Typed
<1>2. /\ h2 \in HCA /\ h2.wire = h.wire /\ h2.acks = h.acks /\ h2.cq = h.cq /\ h2.rq = h.rq
      /\ h2.tx_cq = h.tx_cq /\ h2.armed = h.armed /\ h2.events = h.events
      /\ \A q \in P.qps[n] : h2.qp[q] = "rts"
  BY <1>1, ConnectedFields
<1>3. /\ proc'[n] = p2 /\ hca'[n] = h2 /\ DOMAIN proc' = Node /\ DOMAIN hca' = Node
      /\ program' = program /\ \A k \in Node : k # n => proc'[k] = proc[k] /\ hca'[k] = hca[k]
  BY Zenon DEF Connects
<1> HIDE DEF h2
<1>4. LocalInv(P, n, p2, h2) /\ \A q \in QP : Balls(P, n, p2, h2, q) <= Balls(P, n, p, h, q)
  BY <1>1, <1>2, AheadLocal
<1> HIDE DEF p2
<1>5. QED  BY <1>3, <1>4 DEF Moved

LEMMA AcceptStep ==
  ASSUME NEW n, Here(n), NEW more, server_accepts(n, more)
  PROVE  Moved(n)
<1>1. n = 0 /\ proc[n].pc = "exchange" /\ UNCHANGED program
      /\ hca' = [hca EXCEPT ![n] = Connected(@, qpsOf(n))]
      /\ proc' = [proc EXCEPT ![n].pc = "read_done", ![n].made = @ \cup more]
  BY DEF server_accepts, server
<1>2. n \in Node /\ DOMAIN proc = Node
  BY HereFacts DEF Here
<1>3. /\ DOMAIN proc' = Node /\ \A k \in Node : k # n => proc'[k] = proc[k]
      /\ proc'[n] = [proc[n] EXCEPT !.pc = "read_done", !.made = proc[n].made \cup more]
  <2>1. Typed(proc[n], hca[n])
    BY HereFacts
  <2> DEFINE p1 == [proc[n] EXCEPT !.pc = "read_done"]
  <2>2. p1.made = proc[n].made
    BY <2>1 DEF Typed
  <2>3. proc'[n] = [p1 EXCEPT !.made = p1.made \cup more]
    BY <1>1, <1>2
  <2>4. DOMAIN proc' = Node /\ \A k \in Node : k # n => proc'[k] = proc[k]
    BY <1>1, <1>2
  <2>5. QED  BY <2>2, <2>3, <2>4
<1>4. /\ proc[n].pc \in {"exchange", "connect"}
      /\ n = 0 => "read_done" = "read_done"
      /\ n = 1 => "read_done" = "first"
  BY <1>1, HereFacts DEF Pair
<1>5. DOMAIN hca' = Node /\ (\A k \in Node : k # n => hca'[k] = hca[k])
      /\ hca'[n] = Connected(hca[n], program.qps[n])
  <2>1. DOMAIN hca = Node /\ qpsOf(n) = program.qps[n]
    BY HereFacts DEF Here
  <2>2. QED  BY <2>1, <1>1, <1>2
<1>6. Connects(n, "read_done", proc[n].made \cup more)
  BY <1>1, <1>3, <1>5 DEF Connects
<1>7. QED  BY <1>4, <1>6, ConnectStep

LEMMA ClientConnectStep ==
  ASSUME NEW n, Here(n), NEW more, client_connects(n, more)
  PROVE  Moved(n)
<1>1. n # 0 /\ proc[n].pc = "connect" /\ UNCHANGED program
      /\ hca' = [hca EXCEPT ![n] = Connected(@, qpsOf(n))]
      /\ proc' = [proc EXCEPT ![n].pc = "first", ![n].made = @ \cup more]
  BY DEF client_connects, server
<1>2. n \in Node /\ DOMAIN proc = Node
  BY HereFacts DEF Here
<1>3. /\ DOMAIN proc' = Node /\ \A k \in Node : k # n => proc'[k] = proc[k]
      /\ proc'[n] = [proc[n] EXCEPT !.pc = "first", !.made = proc[n].made \cup more]
  <2>1. Typed(proc[n], hca[n])
    BY HereFacts
  <2> DEFINE p1 == [proc[n] EXCEPT !.pc = "first"]
  <2>2. p1.made = proc[n].made
    BY <2>1 DEF Typed
  <2>3. proc'[n] = [p1 EXCEPT !.made = p1.made \cup more]
    BY <1>1, <1>2
  <2>4. DOMAIN proc' = Node /\ \A k \in Node : k # n => proc'[k] = proc[k]
    BY <1>1, <1>2
  <2>5. QED  BY <2>2, <2>3, <2>4
<1>4. /\ proc[n].pc \in {"exchange", "connect"}
      /\ n = 0 => "first" = "read_done"
      /\ n = 1 => "first" = "first"
  BY <1>1, HereFacts DEF Pair
<1>5. DOMAIN hca' = Node /\ (\A k \in Node : k # n => hca'[k] = hca[k])
      /\ hca'[n] = Connected(hca[n], program.qps[n])
  <2>1. DOMAIN hca = Node /\ qpsOf(n) = program.qps[n]
    BY HereFacts DEF Here
  <2>2. QED  BY <2>1, <1>1, <1>2
<1>6. Connects(n, "first", proc[n].made \cup more)
  BY <1>1, <1>3, <1>5 DEF Connects
<1>7. QED  BY <1>4, <1>6, ConnectStep

LEMMA ServerReadyStep ==
  ASSUME NEW n, Here(n), server_ready(n)
  PROVE  Moved(n)
<1> DEFINE P == program
           p == proc[n]
           h == hca[n]
           pending2 == [q \in QP |-> IF q \in P.qps[n] THEN {"recv"} ELSE {}]
           p2 == [p EXCEPT !.pc = "loop", !.pending = pending2]
<1>1. /\ n \in Pair /\ n \in Node /\ LocalInv(P, n, p, h) /\ P \in Programs /\ P.name \in PingPongs
      /\ DOMAIN proc = Node /\ DOMAIN hca = Node /\ qpsOf(n) = P.qps[n]
  BY HereFacts DEF Here
<1>2. /\ n = 0 /\ p.pc = "read_done" /\ UNCHANGED <<program, hca>>
      /\ proc' = [proc EXCEPT ![n].pc = "loop", ![n].pending = pending2]
  BY <1>1 DEF server_ready, server
<1>3. LocalInv(P, n, p2, h) /\ \A q \in QP : Balls(P, n, p2, h, q) <= Balls(P, n, p, h, q)
  BY <1>1, <1>2, ReadyLocal
<1> HIDE DEF pending2
<1>4. /\ proc'[n] = p2 /\ DOMAIN proc' = Node /\ \A k \in Node : k # n => proc'[k] = proc[k]
  BY <1>1, <1>2
<1> HIDE DEF p2
<1>5. QED  BY <1>1, <1>2, <1>3, <1>4 DEF Moved

LEMMA ExchangeFailsStep ==
  ASSUME NEW n, Here(n), exchange_fails(n)
  PROVE  Moved(n)
BY ErrorStep DEF exchange_fails

LEMMA FirstSendStep ==
  ASSUME NEW n, Here(n), client_first_send(n)
  PROVE  Moved(n)
<1> DEFINE P == program
           p == proc[n]
           h == hca[n]
<1>1. /\ n \in Pair /\ n \in Node /\ LocalInv(P, n, p, h) /\ P \in Programs /\ P.name \in PingPongs
      /\ DOMAIN proc = Node /\ DOMAIN hca = Node /\ qpsOf(n) = P.qps[n] /\ Typed(p, h)
      /\ PlaceInv(P, n, p) /\ QueueInv(P, n, p, h) /\ P.qps[n] \subseteq QP
      /\ WakeInv(P, p, h) /\ h \in HCA
  BY HereFacts, ZenonT(40) DEF Here, Typed
<1>2. n = 1 /\ p.pc = "first" /\ UNCHANGED program
  BY <1>1 DEF client_first_send, server, Pair
<1>3. PICK q \in P.qps[n] :
        /\ p.pending[q] = {}
        /\ hca' = [hca EXCEPT ![n] = SendPosted(@, q, toPeer(n, q))]
        /\ \/ proc' = [proc EXCEPT ![n].pending[q] = Op, ![n].pc = "loop"]
           \/ proc' = [proc EXCEPT ![n].pending[q] = Op, ![n].pc = @]
  BY <1>1 DEF client_first_send
<1> DEFINE pending2 == [p.pending EXCEPT ![q] = Op]
           p2 == [p EXCEPT !.pending = pending2]
           h2 == SendPosted(h, q, toPeer(n, q))
           pc3 == proc'[n].pc
           p3 == [p2 EXCEPT !.pc = pc3, !.made = p.made]
<1>4. LocalInv(P, n, p2, h2) /\ \A r \in QP : Balls(P, n, p2, h2, r) <= Balls(P, n, p, h, r)
  BY <1>1, <1>2, <1>3, PostLocal
<1>5. /\ proc'[n] = p3 /\ pc3 \in {"loop", "first"}
      /\ DOMAIN proc' = Node /\ \A k \in Node : k # n => proc'[k] = proc[k]
  <2>1. proc'[n] = [p2 EXCEPT !.pc = "loop"] \/ proc'[n] = [p2 EXCEPT !.pc = "first"]
    <3>1. CASE proc' = [proc EXCEPT ![n].pending[q] = Op, ![n].pc = "loop"]
      BY <1>1, <3>1
    <3>2. CASE proc' = [proc EXCEPT ![n].pending[q] = Op, ![n].pc = @]
      <4>1. proc'[n] = p2
        BY <1>1, <3>2 DEF Typed
      <4>2. p2 = [p2 EXCEPT !.pc = "first"]
        BY <1>1, <1>2 DEF Typed
      <4>3. QED  BY <4>1, <4>2
    <3>3. QED  BY <1>3, <3>1, <3>2
  <2>2. \A x : [p2 EXCEPT !.pc = x].pc = x /\ [p2 EXCEPT !.pc = x] = [p2 EXCEPT !.pc = x, !.made = p.made]
    BY <1>1 DEF Typed
  <2>3. pc3 \in {"loop", "first"} /\ proc'[n] = [p2 EXCEPT !.pc = pc3]
    BY <2>1, <2>2
  <2>4. DOMAIN proc' = Node /\ \A k \in Node : k # n => proc'[k] = proc[k]
    BY <1>1, <1>3
  <2>5. QED  BY <2>2, <2>3, <2>4
<1>6. hca'[n] = h2 /\ DOMAIN hca' = Node /\ \A k \in Node : k # n => hca'[k] = hca[k]
  BY <1>1, <1>3
<1>7. p2.pc = "first" /\ h2 \in HCA /\ Typed(p2, h2) /\ PlaceInv(P, n, p2) /\ QueueInv(P, n, p2, h2)
      /\ WakeInv(P, p2, h2)
  BY <1>1, <1>2, <1>4 DEF LocalInv, Typed
<1> HIDE DEF pending2, p2, h2, pc3
<1>8. LocalInv(P, n, p3, h2) /\ \A r \in QP : Balls(P, n, p3, h2, r) <= Balls(P, n, p2, h2, r)
  <2>1. p3.pc = pc3 /\ p3.todo = p2.todo /\ p3.turn = p2.turn /\ p3.pending = p2.pending
        /\ p3.scnt = p2.scnt /\ p3.rcnt = p2.rcnt
    BY <1>7 DEF Typed
  <2> HIDE DEF p3
  <2>2. PlaceInv(P, n, p3)
    BY <1>2, <1>5, <1>7, <2>1 DEF PlaceInv, Before, LoopPc, Gone
  <2>3. WakeInv(P, p3, h2)
    BY <1>5, <1>7, <2>1 DEF WakeInv, Between, Gone
  <2>4. /\ pc3 \notin Gone /\ p2.pc \notin {"create"} \cup Gone /\ pc3 # "create"
    BY <1>5, <1>7 DEF Gone
  <2>5. \A r \in P.qps[n] : h2.qp[r] = "rts"
    BY <1>7 DEF QueueInv
  <2>6. PlaceInv(P, n, [p2 EXCEPT !.pc = pc3, !.made = p.made])
        /\ WakeInv(P, [p2 EXCEPT !.pc = pc3, !.made = p.made], h2)
    BY <2>2, <2>3 DEF p3
  <2>7. /\ n \in Pair /\ LocalInv(P, n, p2, h2) /\ h2 \in HCA
        /\ n = 0 /\ pc3 \in LoopPc => p2.pc \in LoopPc
        /\ pc3 \in {"read_done", "first"} \cup LoopPc => \A r \in P.qps[n] : h2.qp[r] = "rts"
    BY <1>1, <1>2, <1>4, <1>7, <2>5
  <2>8. QED  BY <2>4, <2>6, <2>7, MovedLocal DEF p3
<1>9. ASSUME NEW r \in QP PROVE Balls(P, n, p3, h2, r) <= Balls(P, n, p, h, r)
  <2>1. /\ Balls(P, n, p3, h2, r) <= Balls(P, n, p2, h2, r)
        /\ Balls(P, n, p2, h2, r) <= Balls(P, n, p, h, r)
    BY <1>4, <1>8
  <2>2. /\ Balls(P, n, p3, h2, r) \in Nat /\ Balls(P, n, p2, h2, r) \in Nat
        /\ Balls(P, n, p, h, r) \in Nat
    <3>1. Typed(p3, h2)
      BY <1>8 DEF LocalInv
    <3>2. QED  BY <1>1, <1>7, <3>1, Numbers
  <2>3. QED  BY <2>1, <2>2
<1> HIDE DEF p3
<1>10. QED  BY <1>2, <1>5, <1>6, <1>8, <1>9 DEF Moved

(* ibv_get_cq_event, and the notification is armed again.                       *)
LEMMA EventStep ==
  ASSUME NEW n, Here(n), get_cq_event(n)
  PROVE  Moved(n)
<1> DEFINE P == program
           p == proc[n]
           h == hca[n]
           p2 == [p EXCEPT !.pc = "poll", !.made = p.made]
           h2 == [h EXCEPT !.events = h.events - 1, !.armed = TRUE]
<1>1. /\ n \in Pair /\ n \in Node /\ LocalInv(P, n, p, h) /\ Typed(p, h) /\ QueueInv(P, n, p, h)
      /\ PlaceInv(P, n, p) /\ WakeInv(P, p, h) /\ DOMAIN proc = Node /\ DOMAIN hca = Node
      /\ h \in HCA /\ h.events \in Nat
  BY HereFacts, Fields DEF Here, Typed
<1>2. /\ p.pc = "loop" /\ P.event /\ h.events > 0 /\ UNCHANGED program
      /\ proc' = [proc EXCEPT ![n].pc = "poll"]
      /\ hca' = [hca EXCEPT ![n].events = @ - 1, ![n].armed = TRUE]
  BY DEF get_cq_event
<1>3. h.events - 1 \in Nat
  BY <1>1, <1>2
<1>4. /\ h2 \in HCA /\ h2.wire = h.wire /\ h2.acks = h.acks /\ h2.cq = h.cq /\ h2.rq = h.rq
      /\ h2.tx_cq = h.tx_cq /\ h2.armed = TRUE /\ h2.qp = h.qp
  BY <1>1, <1>3 DEF HCA
<1>5. hca'[n] = h2 /\ DOMAIN hca' = Node /\ \A k \in Node : k # n => hca'[k] = hca[k]
  BY <1>1, <1>2
<1>6. proc'[n] = p2 /\ DOMAIN proc' = Node /\ \A k \in Node : k # n => proc'[k] = proc[k]
  <2>1. proc'[n] = [p EXCEPT !.pc = "poll"]
    BY <1>1, <1>2
  <2>2. [p EXCEPT !.pc = "poll"] = p2
    BY <1>1 DEF Typed
  <2>3. QED  BY <1>1, <1>2, <2>1, <2>2
<1> HIDE DEF h2
<1>7. p2.pc = "poll" /\ p2.todo = p.todo /\ p2.pending = p.pending
      /\ p2.scnt = p.scnt /\ p2.rcnt = p.rcnt
  BY <1>1 DEF Typed
<1> HIDE DEF p2
<1>8. PlaceInv(P, n, p2)
  BY <1>1, <1>2, <1>7 DEF PlaceInv, Before, LoopPc, Gone
<1>9. WakeInv(P, p2, h2)
  BY <1>4, <1>7 DEF WakeInv, Between
<1>10. /\ p.pc \notin {"create"} \cup Gone /\ "poll" \notin Gone /\ p.pc \in LoopPc
       /\ \A q \in P.qps[n] : h2.qp[q] = "rts"
       /\ PlaceInv(P, n, [p EXCEPT !.pc = "poll", !.made = p.made])
       /\ WakeInv(P, [p EXCEPT !.pc = "poll", !.made = p.made], h2)
  BY <1>1, <1>2, <1>4, <1>8, <1>9 DEF QueueInv, LoopPc, Gone, p2
<1>11. LocalInv(P, n, p2, h2) /\ \A q \in QP : Balls(P, n, p2, h2, q) <= Balls(P, n, p, h, q)
  BY <1>1, <1>4, <1>10, MovedLocal DEF p2
<1>12. QED  BY <1>2, <1>5, <1>6, <1>11 DEF Moved

(* One ball and one send per QP: two completions of each can be in the CQ.      *)
LEMMA CqBound ==
  ASSUME NEW n, Here(n)
  PROVE  /\ Len(hca[n].cq) \in Nat /\ Cardinality(program.qps[n]) \in Nat
         /\ Len(hca[n].cq) <= 2 * Cardinality(program.qps[n])
<1> DEFINE P == program
           p == proc[n]
           h == hca[n]
<1>1. /\ Typed(p, h) /\ QueueInv(P, n, p, h) /\ SendInv(P, p, h) /\ P.qps[n] \subseteq QP
      /\ \A q \in QP : Balls(P, n, p, h, q) <= 1
  BY HereFacts DEF Here, LocalInv
<1>2. ASSUME NEW q \in QP
      PROVE  Tally(h.cq, Of("recv", q)) <= 1 /\ Tally(h.cq, Of("send", q)) <= 1
  <2> DEFINE k == Len(h.wire[q])
             r == Tally(h.cq, Of("recv", q))
             r2 == Tally(p.todo, Of("recv", q))
             s == Tally(h.cq, Of("send", q))
             s2 == Tally(p.todo, Of("send", q))
             o == Owes(P, n, p, q)
             w == IF Reliable(P) THEN k ELSE 0
             c == h.acks[q]
  <2>1. /\ k \in Nat /\ r \in Nat /\ r2 \in Nat /\ s \in Nat /\ s2 \in Nat /\ o \in {0, 1}
        /\ w \in Nat /\ c \in Nat /\ Sending(p, q) \in {0, 1}
    BY <1>1, Numbers
  <2>2. Balls(P, n, p, h, q) = k + (r + r2) + o /\ Sends(P, p, h, q) = w + c + s + s2
    BY Zenon DEF Balls, Arrived, Sends
  <2>3. Balls(P, n, p, h, q) <= 1 /\ Sends(P, p, h, q) <= Sending(p, q)
    BY <1>1 DEF SendInv
  <2> HIDE DEF k, r, r2, s, s2, o, w, c
  <2>4. r <= 1 /\ s <= 1
    BY <2>1, <2>2, <2>3
  <2>5. QED  BY <2>4 DEF r, s
<1>3. h.cq \in Seq(Completion) /\ \A i \in DOMAIN h.cq : h.cq[i].qp \in P.qps[n]
  BY <1>1, Fields DEF QueueInv
<1>4. \A op \in Op, q \in QP : Tally(h.cq, Of(op, q)) <= 1
  BY <1>2 DEF Op
<1>5. QED  BY <1>1, <1>3, <1>4, CqLength

(* The first completions of the CQ are polled.                                  *)
Polled(n, a, b, t2) ==
  /\ program' = program /\ DOMAIN proc' = Node /\ DOMAIN hca' = Node
  /\ \A k \in Node : k # n => proc'[k] = proc[k] /\ hca'[k] = hca[k]
  /\ proc'[n] = [proc[n] EXCEPT !.pc = IF a = <<>> THEN "loop" ELSE "parse", !.todo = a, !.turn = t2]
  /\ hca'[n] = [hca[n] EXCEPT !.cq = b]

LEMMA PolledStep ==
  ASSUME NEW n, Here(n), proc[n].pc \in {"loop", "poll", "next_poll"},
         NEW a \in Seq(Completion), NEW b \in Seq(Completion), hca[n].cq = a \o b, NEW t2 \in Nat,
         program.event => \/ b = <<>>
                          \/ /\ ~Between(program, proc[n]) /\ program.ts /\ t2 = 0
                             /\ a # <<>> /\ Len(b) <= 1
                          \/ Between(program, proc[n]) /\ t2 # 0 /\ a # <<>>,
         Polled(n, a, b, t2)
  PROVE  Moved(n)
<1> DEFINE P == program
           p == proc[n]
           h == hca[n]
           pc2 == IF a = <<>> THEN "loop" ELSE "parse"
           p2 == [p EXCEPT !.pc = pc2, !.todo = a, !.turn = t2]
           h2 == [h EXCEPT !.cq = b]
<1>1. /\ n \in Pair /\ n \in Node /\ LocalInv(P, n, p, h) /\ Typed(p, h) /\ WakeInv(P, p, h)
  BY HereFacts DEF Here
<1>2. /\ proc'[n] = p2 /\ hca'[n] = h2 /\ DOMAIN proc' = Node /\ DOMAIN hca' = Node
      /\ program' = program /\ \A k \in Node : k # n => proc'[k] = proc[k] /\ hca'[k] = hca[k]
  BY DEF Polled
<1>3. p2.pc = pc2 /\ p2.turn = t2 /\ p2.todo = a
  BY <1>1 DEF Typed
<1>4. h2.cq = b /\ h2.armed = h.armed /\ h2.events = h.events
  BY <1>1 DEF Typed, HCA
<1>5. p.pc \in LoopPc /\ p.pc # "parse" /\ p.pc \notin {"create"} \cup Gone
  BY DEF LoopPc, Gone
<1>6. pc2 \in {"loop", "parse"} /\ (a # <<>> => pc2 = "parse")
  OBVIOUS
<1>7. /\ b # <<>> => Len(b) \in Nat \ {0}
      /\ b = <<>> => Len(b) = 0
      /\ b # <<>> /\ a # <<>> => Len(h.cq) >= 2
  <2>1. (b # <<>> => Len(b) \in Nat \ {0}) /\ (b = <<>> => Len(b) = 0)
        /\ (a # <<>> => Len(a) \in Nat \ {0})
    BY EmptySeq
  <2>2. Len(a \o b) = Len(a) + Len(b)
    BY ConcatProperties
  <2>3. QED  BY <2>1, <2>2
<1> HIDE DEF p2, h2, pc2
<1>8. WakeInv(P, p2, h2)
  <2> SUFFICES ASSUME P.event
      PROVE  /\ h2.armed \/ h2.events > 0
             /\ Between(P, p2) /\ Len(h2.cq) >= 2 => h2.events > 0
             /\ p2.pc # "poll" /\ ~Between(P, p2) /\ h2.cq # <<>> => h2.events > 0
    BY DEF WakeInv
  <2>1. h.armed \/ h.events > 0
    BY <1>1, <1>5 DEF WakeInv
  <2>2. CASE b = <<>>
    BY <2>1, <2>2, <1>4, <1>7
  <2>3. CASE /\ ~Between(P, p) /\ P.ts /\ t2 = 0
             /\ a # <<>> /\ Len(b) <= 1
    <3>1. Between(P, p2)
      BY <2>3, <1>3, <1>6 DEF Between
    <3>2. Len(h2.cq) < 2
      <4>1. Len(b) \in Nat
        BY LenProperties
      <4>2. QED  BY <4>1, <2>3, <1>4
    <3>3. ~(Len(h2.cq) >= 2)
      <4>1. Len(b) \in Nat
        BY LenProperties
      <4>2. QED  BY <4>1, <3>2, <1>4
    <3>4. QED  BY <2>1, <3>1, <3>3, <1>4
  <2>4. CASE Between(P, p) /\ t2 # 0 /\ a # <<>>
    <3>1. ~Between(P, p2)
      BY <2>4, <1>3, <1>6 DEF Between
    <3>2. Len(h.cq) >= 2 => h.events > 0
      BY <1>1, <1>5, <2>4 DEF WakeInv
    <3>3. QED  BY <2>1, <2>4, <3>1, <3>2, <1>4, <1>7
  <2>5. QED  BY <2>2, <2>3, <2>4
<1>9. LocalInv(P, n, p2, h2) /\ \A q \in QP : Balls(P, n, p2, h2, q) <= Balls(P, n, p, h, q)
  BY <1>1, <1>5, <1>8, TakenLocal DEF p2, h2, pc2
<1>10. QED  BY <1>2, <1>9 DEF Moved

LEMMA PollStep ==
  ASSUME NEW n, Here(n), NEW batch \in Nat, batch >= 2 * Cardinality(program.qps[n]),
         poll_cq(n, batch)
  PROVE  Moved(n)
<1> DEFINE P == program
           p == proc[n]
           h == hca[n]
           ne == IF Len(h.cq) < batch THEN Len(h.cq) ELSE batch
           a == SubSeq(h.cq, 1, ne)
           b == SubSeq(h.cq, ne + 1, Len(h.cq))
           pc2 == IF ne = 0 THEN "loop" ELSE "parse"
<1>1. /\ n \in Node /\ DOMAIN proc = Node /\ DOMAIN hca = Node /\ Typed(p, h)
      /\ h.cq \in Seq(Completion) /\ p.turn \in Nat
  BY HereFacts, Fields DEF Here
<1>2. /\ proc' = [proc EXCEPT ![n].pc = pc2, ![n].todo = a]
      /\ hca' = [hca EXCEPT ![n].cq = SubSeq(@, ne + 1, Len(@))]
      /\ program' = program /\ p.pc \in {"loop", "poll"}
  BY DEF poll_cq, polls
<1>3. ne = Len(h.cq) /\ ne \in Nat
  BY CqBound
<1>4. /\ a \in Seq(Completion) /\ b \in Seq(Completion) /\ a \o b = h.cq
      /\ b = <<>> /\ (a = <<>> <=> ne = 0)
  <2>1. a = h.cq
    BY <1>1, <1>3, SubSeqFull
  <2>2. b = <<>>
    <3>1. ne + 1 \in Int /\ Len(h.cq) \in Int /\ Len(h.cq) < ne + 1
      BY <1>3
    <3>2. QED  BY <3>1, SubSeqEmpty
  <2> HIDE DEF a, b, ne
  <2>3. <<>> \in Seq(Completion) /\ Len(<<>>) = 0 /\ (h.cq # <<>> => Len(h.cq) # 0)
    BY <1>1, EmptySeq
  <2>4. h.cq \o <<>> = h.cq
    BY <1>1, ConcatEmptySeq
  <2>5. QED  BY <2>1, <2>2, <2>3, <2>4, <1>1, <1>3
<1>5. hca'[n] = [h EXCEPT !.cq = b] /\ DOMAIN hca' = Node /\ \A k \in Node : k # n => hca'[k] = hca[k]
  BY <1>1, <1>2
<1> HIDE DEF a, b, ne
<1>6. proc'[n] = [p EXCEPT !.pc = pc2, !.todo = a, !.turn = p.turn]
      /\ DOMAIN proc' = Node /\ \A k \in Node : k # n => proc'[k] = proc[k]
  <2>1. proc'[n] = [p EXCEPT !.pc = pc2, !.todo = a]
    BY <1>1, <1>2
  <2>2. [p EXCEPT !.pc = pc2, !.todo = a] = [p EXCEPT !.pc = pc2, !.todo = a, !.turn = p.turn]
    BY <1>1 DEF Typed
  <2>3. QED  BY <1>1, <1>2, <2>1, <2>2
<1>7. pc2 = IF a = <<>> THEN "loop" ELSE "parse"
  BY <1>4
<1> HIDE DEF pc2
<1>8. Polled(n, a, b, p.turn)
  BY <1>2, <1>5, <1>6, <1>7 DEF Polled
<1>9. QED  BY <1>1, <1>2, <1>4, <1>8, PolledStep

(* ibv_start_poll and ibv_next_poll take one completion.                        *)
LEMMA OneStep ==
  ASSUME NEW n, Here(n), NEW t2 \in Nat, hca[n].cq # <<>>,
         proc[n].pc \in {"loop", "poll", "next_poll"},
         program.ts /\ program.name = "rc",
         IF proc[n].pc = "next_poll" THEN t2 = 1 ELSE t2 = 0,
         proc' = [proc EXCEPT ![n].pc = "parse", ![n].turn = t2, ![n].todo = <<Head(hca[n].cq)>>],
         hca' = [hca EXCEPT ![n].cq = Tail(hca[n].cq)], UNCHANGED program
  PROVE  Moved(n)
<1> DEFINE P == program
           p == proc[n]
           h == hca[n]
           a == <<Head(h.cq)>>
           b == Tail(h.cq)
<1>1. /\ n \in Node /\ DOMAIN proc = Node /\ DOMAIN hca = Node /\ Typed(p, h)
      /\ h.cq \in Seq(Completion) /\ P \in Programs /\ P.name \in PingPongs /\ n \in Pair
  BY HereFacts, Fields DEF Here
<1>2. /\ a \in Seq(Completion) /\ b \in Seq(Completion) /\ a \o b = h.cq /\ a # <<>>
      /\ Len(b) = Len(h.cq) - 1
  <2>1. Head(h.cq) \in Completion /\ b \in Seq(Completion) /\ Len(b) = Len(h.cq) - 1
    BY <1>1, HeadTailProperties
  <2>2. a \in Seq(Completion) /\ a # <<>>
    BY <2>1
  <2>3. a \o b = h.cq
    BY <1>1
  <2>4. QED  BY <2>1, <2>2, <2>3
<1>3. Len(b) <= 1
  <2>1. Len(h.cq) \in Nat /\ Len(h.cq) <= 2 * Cardinality(P.qps[n])
    BY CqBound
  <2>2. P.qps[n] = {0}
    BY <1>1, PairProgram
  <2>3. Cardinality(P.qps[n]) = 1
    BY <2>2, FS_Singleton
  <2> HIDE DEF b
  <2>4. QED  BY <1>2, <2>1, <2>3
<1> HIDE DEF a, b
<1>4. hca'[n] = [h EXCEPT !.cq = b] /\ DOMAIN hca' = Node /\ \A k \in Node : k # n => hca'[k] = hca[k]
  BY <1>1 DEF b
<1>5. proc'[n] = [p EXCEPT !.pc = "parse", !.todo = a, !.turn = t2]
      /\ DOMAIN proc' = Node /\ \A k \in Node : k # n => proc'[k] = proc[k]
  <2>0. proc' = [proc EXCEPT ![n].pc = "parse", ![n].turn = t2, ![n].todo = a]
    BY DEF a
  <2>1. proc'[n] = [p EXCEPT !.pc = "parse", !.turn = t2, !.todo = a]
    BY <1>1, <2>0
  <2>2. [p EXCEPT !.pc = "parse", !.turn = t2, !.todo = a]
          = [p EXCEPT !.pc = "parse", !.todo = a, !.turn = t2]
    BY <1>1 DEF Typed
  <2>3. QED  BY <1>1, <2>0, <2>1, <2>2
<1>6. Polled(n, a, b, t2)
  BY <1>2, <1>4, <1>5 DEF Polled
<1>7. Between(P, p) <=> p.pc = "next_poll"
  BY DEF Between
<1>8. \/ ~Between(P, p) /\ P.ts /\ t2 = 0 /\ a # <<>> /\ Len(b) <= 1
      \/ Between(P, p) /\ t2 # 0 /\ a # <<>>
  BY <1>2, <1>3, <1>7
<1>9. QED  BY <1>2, <1>6, <1>8, PolledStep

LEMMA StartPollStep ==
  ASSUME NEW n, Here(n), program.name = "rc", rc_start_poll(n)
  PROVE  Moved(n)
<1>1. program.ts /\ UNCHANGED program /\ proc[n].pc \in {"loop", "poll"}
  BY DEF rc_start_poll, polls
<1>2. CASE hca[n].cq = <<>>
  BY <1>1, <1>2, ErrorStep DEF rc_start_poll
<1>3. CASE hca[n].cq # <<>>
  <2>1. proc' = [proc EXCEPT ![n].pc = "parse", ![n].turn = 0, ![n].todo = <<Head(hca[n].cq)>>]
        /\ hca' = [hca EXCEPT ![n].cq = Tail(@)]
    BY <1>3 DEF rc_start_poll
  <2>2. hca' = [hca EXCEPT ![n].cq = Tail(hca[n].cq)]
    BY <2>1
  <2>3. 0 \in Nat /\ (IF proc[n].pc = "next_poll" THEN 0 = 1 ELSE 0 = 0)
    BY <1>1
  <2>4. QED  BY <1>1, <1>3, <2>1, <2>2, <2>3, OneStep
<1>4. QED  BY <1>2, <1>3

LEMMA NextPollStep ==
  ASSUME NEW n, Here(n), program.name = "rc", rc_next_poll(n)
  PROVE  Moved(n)
<1> DEFINE P == program
           p == proc[n]
           h == hca[n]
           p2 == [p EXCEPT !.pc = "loop", !.made = p.made]
<1>1. /\ n \in Pair /\ n \in Node /\ LocalInv(P, n, p, h) /\ Typed(p, h) /\ QueueInv(P, n, p, h)
      /\ PlaceInv(P, n, p) /\ WakeInv(P, p, h) /\ DOMAIN proc = Node /\ DOMAIN hca = Node
      /\ h \in HCA
  BY HereFacts DEF Here, Typed
<1>2. P.ts /\ p.pc = "next_poll" /\ UNCHANGED program
  BY <1>1 DEF rc_next_poll, PlaceInv
<1>3. CASE h.cq = <<>>
  <2>1. proc' = [proc EXCEPT ![n].pc = "loop"] /\ UNCHANGED hca
    BY <1>3 DEF rc_next_poll
  <2>2. proc'[n] = p2 /\ DOMAIN proc' = Node /\ \A k \in Node : k # n => proc'[k] = proc[k]
    <3>1. proc'[n] = [p EXCEPT !.pc = "loop"]
      BY <1>1, <2>1
    <3>2. [p EXCEPT !.pc = "loop"] = p2
      BY <1>1 DEF Typed
    <3>3. QED  BY <1>1, <2>1, <3>1, <3>2
  <2>3. p2.pc = "loop" /\ p2.todo = p.todo /\ p2.pending = p.pending
        /\ p2.scnt = p.scnt /\ p2.rcnt = p.rcnt
    BY <1>1 DEF Typed
  <2> HIDE DEF p2
  <2>4. PlaceInv(P, n, p2)
    BY <1>1, <1>2, <2>3 DEF PlaceInv, Before, LoopPc, Gone
  <2>5. WakeInv(P, p2, h)
    BY <1>1, <1>2, <1>3, <2>3 DEF WakeInv, Between, Gone
  <2>6. /\ p.pc \notin {"create"} \cup Gone /\ "loop" \notin Gone /\ p.pc \in LoopPc
        /\ \A q \in P.qps[n] : h.qp[q] = "rts"
        /\ PlaceInv(P, n, [p EXCEPT !.pc = "loop", !.made = p.made])
        /\ WakeInv(P, [p EXCEPT !.pc = "loop", !.made = p.made], h)
    BY <1>1, <1>2, <2>4, <2>5 DEF QueueInv, LoopPc, Gone, p2
  <2>7. LocalInv(P, n, p2, h) /\ \A q \in QP : Balls(P, n, p2, h, q) <= Balls(P, n, p, h, q)
    BY <1>1, <2>6, MovedLocal DEF p2
  <2>8. QED  BY <1>1, <1>2, <2>1, <2>2, <2>7 DEF Moved
<1>4. CASE h.cq # <<>>
  <2>1. proc' = [proc EXCEPT ![n].pc = "parse", ![n].turn = 1, ![n].todo = <<Head(hca[n].cq)>>]
        /\ hca' = [hca EXCEPT ![n].cq = Tail(@)]
    BY <1>4 DEF rc_next_poll
  <2>2. hca' = [hca EXCEPT ![n].cq = Tail(hca[n].cq)]
    BY <2>1
  <2>3. 1 \in Nat /\ (IF proc[n].pc = "next_poll" THEN 1 = 1 ELSE 1 = 0)
    BY <1>2
  <2>4. QED  BY <1>2, <1>4, <2>1, <2>2, <2>3, OneStep
<1>5. QED  BY <1>3, <1>4

LEMMA ParseStep ==
  ASSUME NEW n, Here(n), NEW low \in 1 .. RxDepth, NEW next,
         next = (IF program.ts /\ proc[n].turn = 0 THEN "next_poll" ELSE "loop"),
         parse_wc(n, low, next)
  PROVE  Moved(n)
<1> DEFINE P == program
           p == proc[n]
           h == hca[n]
           wc == Head(p.todo)
           q == wc.qp
           left == IF wc.op = "recv" THEN p.routs - 1 ELSE p.routs
           more == IF wc.op = "recv" THEN refill(left, low) ELSE 0
           scnt == IF wc.op = "send" THEN p.scnt + 1 ELSE p.scnt
           rcnt == IF wc.op = "recv" THEN p.rcnt + 1 ELSE p.rcnt
           pending == p.pending[q] \ {wc.op}
           again == serves(pending, scnt)
           pc1 == IF Len(p.todo) > 1 THEN "parse" ELSE next
           todo1 == Tail(p.todo)
           routs1 == left + more
           pending1 == [p.pending EXCEPT ![q] = pending]
           p1 == [p EXCEPT !.todo = todo1, !.pc = pc1, !.routs = routs1, !.scnt = scnt,
                           !.rcnt = rcnt, !.pending = pending1]
           h1 == RecvPosted(h, more)
           p2 == [p1 EXCEPT !.pending = [p1.pending EXCEPT ![q] = Op]]
           h2 == SendPosted(h1, q, toPeer(n, q))
<1>1. /\ n \in Pair /\ n \in Node /\ LocalInv(P, n, p, h) /\ Typed(p, h) /\ P \in Programs
      /\ P.name \in PingPongs /\ P.rx_depth = RxDepth /\ P.qps[n] \subseteq QP
      /\ DOMAIN proc = Node /\ DOMAIN hca = Node
  BY HereFacts, Zenon DEF Here
<1>2. p.pc = "parse" /\ program' = program
  BY Zenon DEF parse_wc
<1>3. CASE ~wc.ok
  BY <1>2, <1>3, ErrorStep DEF parse_wc
<1>4. CASE wc.ok
  <2>1. /\ wc \in Completion /\ q \in P.qps[n] /\ LocalInv(P, n, p1, h1)
        /\ \A r \in QP : Balls(P, n, p1, h1, r) <= Balls(P, n, p, h, r)
    <3>1. more = (IF wc.op = "recv" THEN IF left <= low THEN RxDepth - left ELSE 0 ELSE 0)
      BY <1>1 DEF refill
    <3> DEFINE l == left
               m == more
               s == scnt
               r == rcnt
               w == wc
    <3>2. Counts(p, low, w, l, m, s, r)
      BY <3>1 DEF Counts
    <3> DEFINE pp == Handled(p, w, next, l + m, s, r)
    <3>3. p1 = pp
      BY Zenon DEF Handled
    <3>4. h1 = RecvPosted(h, m) /\ q = w.qp /\ wc = w
      BY Zenon
    <3> HIDE DEF l, m, s, r, w, p1, h1
    <3>5. /\ w \in Completion /\ w.qp \in P.qps[n] /\ LocalInv(P, n, pp, RecvPosted(h, m))
          /\ \A k \in QP : Balls(P, n, pp, RecvPosted(h, m), k) <= Balls(P, n, p, h, k)
      BY <1>1, <1>2, <3>2, HandledLocal, Zenon
    <3> HIDE DEF pp
    <3>6. QED  BY <3>3, <3>4, <3>5
  <2>2. /\ proc' = [proc EXCEPT ![n].todo = Tail(@), ![n].pc = pc1, ![n].routs = routs1,
                                ![n].scnt = scnt, ![n].rcnt = rcnt,
                                ![n].pending[q] = IF again THEN Op ELSE pending]
        /\ hca' = [hca EXCEPT ![n] = IF again THEN h2 ELSE h1]
    BY <1>4, Zenon DEF parse_wc
  <2>3. /\ hca'[n] = (IF again THEN h2 ELSE h1) /\ DOMAIN hca' = Node
        /\ \A k \in Node : k # n => hca'[k] = hca[k]
    <3> HIDE DEF again, h1, h2
    <3>1. QED  BY <1>1, <2>2
  <2>4. DOMAIN proc' = Node /\ \A k \in Node : k # n => proc'[k] = proc[k]
    <3> HIDE DEF again, pending, routs1, pc1, scnt, rcnt
    <3>1. QED  BY <1>1, <2>2
  <2>5. /\ again => proc'[n] = p2
        /\ ~again => proc'[n] = p1
    <3> DEFINE x == IF again THEN Op ELSE pending
    <3>1. proc'[n] = [p EXCEPT !.todo = todo1, !.pc = pc1, !.routs = routs1, !.scnt = scnt,
                               !.rcnt = rcnt, !.pending = [p.pending EXCEPT ![q] = x]]
      <4> HIDE DEF x, pc1, routs1, scnt, rcnt, q
      <4>1. proc' = [proc EXCEPT ![n].todo = Tail(@), ![n].pc = pc1, ![n].routs = routs1,
                                 ![n].scnt = scnt, ![n].rcnt = rcnt, ![n].pending[q] = x]
        BY <2>2 DEF x
      <4>2. QED  BY <1>1, <4>1 DEF Typed
    <3>2. p1.pending = pending1
      BY <1>1 DEF Typed
    <3>3. p2 = [p1 EXCEPT !.pending = [p.pending EXCEPT ![q] = Op]]
      <4> HIDE DEF p1, q
      <4>1. [p1.pending EXCEPT ![q] = Op] = [p.pending EXCEPT ![q] = Op]
        BY <3>2 DEF q
      <4>2. QED  BY <4>1
    <3>4. [p1 EXCEPT !.pending = [p.pending EXCEPT ![q] = Op]]
            = [p EXCEPT !.todo = todo1, !.pc = pc1, !.routs = routs1, !.scnt = scnt,
                        !.rcnt = rcnt, !.pending = [p.pending EXCEPT ![q] = Op]]
      <4> DEFINE y == [p.pending EXCEPT ![q] = Op]
      <4> HIDE DEF y, todo1, pc1, routs1, scnt, rcnt, pending1
      <4>1. QED  BY <1>1 DEF Typed
    <3>5. (again => x = Op) /\ (~again => x = pending)
      OBVIOUS
    <3> HIDE DEF x, again, pending, todo1, pc1, routs1, scnt, rcnt, q, p2
    <3>6. ASSUME again PROVE proc'[n] = p2
      BY <3>1, <3>3, <3>4, <3>5, <3>6
    <3>7. ASSUME ~again PROVE proc'[n] = p1
      BY <3>1, <3>5, <3>7
    <3>8. QED  BY <3>6, <3>7
  <2>6. CASE ~again
    <3>1. proc'[n] = p1 /\ hca'[n] = h1
      BY <2>3, <2>5, <2>6, Zenon
    <3>2. LocalInv(P, n, p1, h1) /\ \A r \in QP : Balls(P, n, p1, h1, r) <= Balls(P, n, p, h, r)
      BY <2>1, Zenon
    <3>3. DOMAIN hca' = Node /\ \A k \in Node : k # n => hca'[k] = hca[k]
      BY <2>3, Zenon
    <3> HIDE DEF p1, h1
    <3>4. QED  BY <1>2, <2>4, <3>1, <3>2, <3>3, Zenon DEF Moved
  <2>7. CASE again
    <3>1. proc'[n] = p2 /\ hca'[n] = h2
      BY <2>3, <2>5, <2>7, Zenon
    <3>2. p1.pending[q] = {} /\ p1.pc \in LoopPc
      <4>1. p1.pending = pending1 /\ p1.pc = pc1
        <5> HIDE DEF todo1, pc1, routs1, scnt, rcnt, pending1
        <5>1. QED  BY <1>1 DEF Typed
      <4>2. q \in QP /\ p.pending \in [QP -> SUBSET Op]
        BY <1>1, <2>1, Fields, Zenon
      <4>3. pending = {}
        BY <2>7, Zenon DEF serves
      <4>4. pending1[q] = pending
        BY <4>2
      <4>5. pc1 \in LoopPc
        BY DEF LoopPc
      <4>6. QED  BY <4>1, <4>3, <4>4, <4>5, Zenon
    <3> HIDE DEF p1, h1, q
    <3>3. LocalInv(P, n, p2, h2) /\ \A r \in QP : Balls(P, n, p2, h2, r) <= Balls(P, n, p1, h1, r)
      BY <1>1, <2>1, <3>2, PostLocal
    <3>4. Typed(p1, h1) /\ Typed(p2, h2)
      BY <2>1, <3>3, Zenon DEF LocalInv
    <3> HIDE DEF p2, h2
    <3>5. ASSUME NEW r \in QP PROVE Balls(P, n, p2, h2, r) <= Balls(P, n, p, h, r)
      <4>1. Balls(P, n, p2, h2, r) \in Nat /\ Balls(P, n, p1, h1, r) \in Nat
            /\ Balls(P, n, p, h, r) \in Nat
        BY <1>1, <3>4, Numbers
      <4>2. QED  BY <2>1, <3>3, <4>1
    <3>6. DOMAIN hca' = Node /\ \A k \in Node : k # n => hca'[k] = hca[k]
      BY <2>3, Zenon
    <3>7. QED  BY <1>2, <2>4, <3>1, <3>3, <3>5, <3>6, Zenon DEF Moved
  <2>8. QED  BY <2>6, <2>7
<1>5. QED  BY <1>3, <1>4

(****************************************************************************)
(* The pair.                                                                 *)
(****************************************************************************)
LEMMA PairMoved ==
  ASSUME PairInv, program.name \in PingPongs, NEW n \in Pair, Moved(n)
  PROVE  PairInv'
<1> DEFINE P == program
<1>1. /\ P \in Programs /\ DOMAIN proc = Node /\ DOMAIN hca = Node
      /\ \A k \in Pair : LocalInv(P, k, proc[k], hca[k])
      /\ \A k \in Node \ Pair : hca[k] = NoHCA
      /\ \A q \in QP : Balls(P, 0, proc[0], hca[0], q) + Balls(P, 1, proc[1], hca[1], q) <= 1
  BY DEF PairInv
<1>2. Pair \subseteq Node /\ 0 \in Pair /\ 1 \in Pair /\ \A k \in Pair : k = 0 \/ k = 1
  BY NodeAssumption DEF Pair
<1>3. /\ program' = P /\ DOMAIN proc' = Node /\ DOMAIN hca' = Node
      /\ \A k \in Node : k # n => proc'[k] = proc[k] /\ hca'[k] = hca[k]
      /\ LocalInv(P, n, proc'[n], hca'[n])
      /\ \A q \in QP : Balls(P, n, proc'[n], hca'[n], q) <= Balls(P, n, proc[n], hca[n], q)
  BY DEF Moved
<1>4. \A k \in Pair : /\ LocalInv(P, k, proc'[k], hca'[k])
                      /\ \A q \in QP : Balls(P, k, proc'[k], hca'[k], q) <= Balls(P, k, proc[k], hca[k], q)
                                       /\ Balls(P, k, proc'[k], hca'[k], q) \in Nat
                                       /\ Balls(P, k, proc[k], hca[k], q) \in Nat
  <2> SUFFICES ASSUME NEW k \in Pair
      PROVE /\ LocalInv(P, k, proc'[k], hca'[k])
            /\ \A q \in QP : Balls(P, k, proc'[k], hca'[k], q) <= Balls(P, k, proc[k], hca[k], q)
                             /\ Balls(P, k, proc'[k], hca'[k], q) \in Nat
                             /\ Balls(P, k, proc[k], hca[k], q) \in Nat
    OBVIOUS
  <2>1. LocalInv(P, k, proc'[k], hca'[k])
    BY <1>1, <1>2, <1>3
  <2>2. \A q \in QP : Balls(P, k, proc'[k], hca'[k], q) \in Nat
                      /\ Balls(P, k, proc[k], hca[k], q) \in Nat
    <3>1. Typed(proc'[k], hca'[k]) /\ Typed(proc[k], hca[k])
      BY <1>1, <2>1 DEF LocalInv
    <3>2. QED  BY <3>1, Numbers
  <2>3. \A q \in QP : Balls(P, k, proc'[k], hca'[k], q) <= Balls(P, k, proc[k], hca[k], q)
    BY <1>2, <1>3, <2>2
  <2>4. QED  BY <2>1, <2>2, <2>3
<1>5. \A q \in QP : Balls(P, 0, proc'[0], hca'[0], q) + Balls(P, 1, proc'[1], hca'[1], q) <= 1
  <2> SUFFICES ASSUME NEW q \in QP
      PROVE  Balls(P, 0, proc'[0], hca'[0], q) + Balls(P, 1, proc'[1], hca'[1], q) <= 1
    OBVIOUS
  <2>1. /\ Balls(P, 0, proc'[0], hca'[0], q) <= Balls(P, 0, proc[0], hca[0], q)
        /\ Balls(P, 1, proc'[1], hca'[1], q) <= Balls(P, 1, proc[1], hca[1], q)
        /\ Balls(P, 0, proc'[0], hca'[0], q) \in Nat /\ Balls(P, 0, proc[0], hca[0], q) \in Nat
        /\ Balls(P, 1, proc'[1], hca'[1], q) \in Nat /\ Balls(P, 1, proc[1], hca[1], q) \in Nat
    BY <1>2, <1>4
  <2>2. Balls(P, 0, proc[0], hca[0], q) + Balls(P, 1, proc[1], hca[1], q) <= 1
    BY <1>1
  <2>3. QED  BY <2>1, <2>2
<1>6. \A k \in Node \ Pair : hca'[k] = NoHCA
  BY <1>1, <1>2, <1>3
<1> HIDE DEF P
<1>7. /\ P \in Programs /\ DOMAIN proc' = Node /\ DOMAIN hca' = Node
      /\ \A k \in Pair : LocalInv(P, k, proc'[k], hca'[k])
      /\ \A k \in Node \ Pair : hca'[k] = NoHCA
      /\ \A q \in QP : Balls(P, 0, proc'[0], hca'[0], q) + Balls(P, 1, proc'[1], hca'[1], q) <= 1
  BY <1>1, <1>3, <1>4, <1>5, <1>6
<1>8. program' = P
  BY <1>3
<1>9. QED  BY <1>7, <1>8 DEF PairInv

LEMMA PairHere ==
  ASSUME PairInv, program.name \in PingPongs, NEW n \in Pair
  PROVE  Here(n)
<1>1. /\ program \in Programs /\ DOMAIN proc = Node /\ DOMAIN hca = Node
      /\ LocalInv(program, n, proc[n], hca[n]) /\ LocalInv(program, 0, proc[0], hca[0])
      /\ LocalInv(program, 1, proc[1], hca[1])
  BY DEF PairInv, Pair
<1>2. ASSUME NEW q \in QP PROVE Balls(program, n, proc[n], hca[n], q) <= 1
  <2>1. Balls(program, 0, proc[0], hca[0], q) + Balls(program, 1, proc[1], hca[1], q) <= 1
    BY DEF PairInv
  <2>2. Balls(program, 0, proc[0], hca[0], q) \in Nat /\ Balls(program, 1, proc[1], hca[1], q) \in Nat
    <3>1. Typed(proc[0], hca[0]) /\ Typed(proc[1], hca[1])
      BY <1>1 DEF LocalInv
    <3>2. QED  BY <3>1, Numbers
  <2>3. n = 0 \/ n = 1
    BY DEF Pair
  <2>4. QED  BY <2>1, <2>2, <2>3
<1>3. QED  BY <1>1, <1>2 DEF Here

(* A message of node n goes to the same QP of the other.                        *)
LEMMA FirstMessage ==
  ASSUME NEW n, Here(n), NEW q \in QP, hca[n].wire[q] # <<>>
  PROVE  /\ q \in program.qps[n]
         /\ Head(hca[n].wire[q]) = [to |-> 1 - n, qp |-> q, via |-> 1 - n, viaQp |-> q, signaled |-> TRUE]
<1> DEFINE s == hca[n].wire[q]
<1>1. s \in Seq(Message) /\ s # <<>>
  BY HereFacts, Fields
<1>2. 1 \in DOMAIN s /\ Head(s) = s[1]
  BY <1>1
<1>3. \A i \in DOMAIN s : q \in program.qps[n]
        /\ s[i] = [to |-> 1 - n, qp |-> q, via |-> 1 - n, viaQp |-> q, signaled |-> TRUE]
  BY HereFacts DEF QueueInv
<1>4. QED  BY <1>2, <1>3

(* Outside the pair nothing is on the wire.                                     *)
LEMMA InPair ==
  ASSUME PairInv, NEW n \in Node, NEW q \in QP, hca[n].wire[q] # <<>> \/ hca[n].acks[q] > 0
  PROVE  n \in Pair
<1>1. NoHCA.wire[q] = <<>> /\ ~(NoHCA.acks[q] > 0)
  BY DEF NoHCA
<1>2. n \notin Pair => hca[n] = NoHCA
  BY DEF PairInv
<1>3. QED  BY <1>1, <1>2

LEMMA EnteredFields ==
  ASSUME program.split = FALSE, NEW g, NEW wc
  PROVE  Entered(g, wc) = [g EXCEPT !.cq = Append(g.cq, wc), !.armed = FALSE,
                                    !.events = IF g.armed THEN g.events + 1 ELSE g.events]
BY DEF Entered

(* The adapter writes a completion to the CQ of n; the process does nothing.    *)
LEMMA EnteredStep ==
  ASSUME NEW n, Here(n), proc[n].pc \notin {"create"} \cup Gone, NEW wc \in Completion,
         wc.qp \in program.qps[n], NEW g, Used(program, hca[n], g, wc.qp, wc.op)
  PROVE  /\ LocalInv(program, n, proc[n], Entered(g, wc))
         /\ \A r \in QP : Balls(program, n, proc[n], Entered(g, wc), r)
              <= Balls(program, n, proc[n], hca[n], r)
                   + (IF r = wc.qp /\ wc.op = "recv" THEN 1 ELSE 0)
<1> DEFINE h2 == [g EXCEPT !.cq = Append(g.cq, wc), !.armed = FALSE,
                           !.events = IF g.armed THEN g.events + 1 ELSE g.events]
<1>1. /\ n \in Pair /\ LocalInv(program, n, proc[n], hca[n]) /\ program.qps[n] \subseteq QP
      /\ program.split = FALSE
  BY HereFacts, PairProgram DEF Here
<1>2. Entered(g, wc) = h2
  BY <1>1, EnteredFields
<1>3. /\ LocalInv(program, n, proc[n], h2)
      /\ \A r \in QP : Balls(program, n, proc[n], h2, r)
              <= Balls(program, n, proc[n], hca[n], r)
                   + (IF r = wc.qp /\ wc.op = "recv" THEN 1 ELSE 0)
  BY <1>1, EnteredLocal
<1> HIDE DEF h2
<1>4. QED  BY <1>2, <1>3

(* An HCA with something in its queues belongs to a process that runs.          *)
LEMMA Runs ==
  ASSUME NEW n, Here(n), NEW q \in QP,
         \/ hca[n].rq > 0
         \/ hca[n].acks[q] > 0
         \/ Reliable(program) /\ hca[n].wire[q] # <<>>
  PROVE  proc[n].pc \notin {"create"} \cup Gone
<1> SUFFICES ASSUME proc[n].pc \in {"create"} \cup Gone PROVE FALSE
  OBVIOUS
<1>1. hca[n] = [NoHCA EXCEPT !.wire = hca[n].wire]
      /\ (Reliable(program) => hca[n].wire = NoHCA.wire)
  BY HereFacts DEF QueueInv
<1>2. hca[n].rq = 0 /\ hca[n].acks[q] = 0
  BY <1>1 DEF NoHCA
<1>3. NoHCA.wire[q] = <<>>
  BY DEF NoHCA
<1>4. QED  BY <1>1, <1>2, <1>3

LEMMA CompleteStep ==
  ASSUME NEW n, Here(n), NEW q \in QP, hca_complete(n, q), UNCHANGED <<program, proc>>
  PROVE  Moved(n)
<1> DEFINE P == program
           p == proc[n]
           h == hca[n]
           wc == [op |-> "send", qp |-> q, ok |-> TRUE]
           g == [h EXCEPT !.acks[q] = h.acks[q] - 1]
           h2 == Entered(g, wc)
<1>1. /\ n \in Node /\ Typed(p, h) /\ h \in HCA /\ h.acks \in [QP -> Nat] /\ QueueInv(P, n, p, h)
      /\ DOMAIN proc = Node /\ DOMAIN hca = Node
  BY HereFacts, Fields DEF Here, Typed
<1>2. h.acks[q] > 0 /\ hca' = [hca EXCEPT ![n] = h2]
  BY DEF hca_complete
<1>3. q \in P.qps[n] /\ p.pc \notin {"create"} \cup Gone
  BY <1>1, <1>2, Runs DEF QueueInv
<1>4. Used(P, h, g, q, "send")
  <2> DEFINE a2 == [h.acks EXCEPT ![q] = h.acks[q] - 1]
  <2>1. g = [h EXCEPT !.acks = a2]
    BY DEF HCA
  <2>2. /\ a2 \in [QP -> Nat] /\ a2[q] + 1 = h.acks[q]
        /\ \A r \in QP : r # q => a2[r] = h.acks[r]
    BY <1>1, <1>2
  <2> HIDE DEF a2, g
  <2>3. /\ g \in HCA /\ g.acks = a2 /\ g.wire = h.wire /\ g.qp = h.qp /\ g.cq = h.cq
        /\ g.tx_cq = h.tx_cq /\ g.armed = h.armed /\ g.events = h.events /\ g.rq = h.rq
    BY <1>1, <2>1, <2>2 DEF HCA
  <2>4. QED  BY <2>2, <2>3 DEF Used
<1>5. wc \in Completion /\ wc.qp = q /\ wc.op = "send"
  BY DEF Completion
<1>6. hca'[n] = h2 /\ DOMAIN hca' = Node /\ \A k \in Node : k # n => hca'[k] = hca[k]
  BY <1>1, <1>2
<1> HIDE DEF wc, g
<1>7. /\ LocalInv(P, n, p, h2)
      /\ \A r \in QP : Balls(P, n, p, h2, r) <= Balls(P, n, p, h, r)
                         + (IF r = wc.qp /\ wc.op = "recv" THEN 1 ELSE 0)
  BY <1>3, <1>4, <1>5, EnteredStep
<1>8. \A r \in QP : Balls(P, n, p, h2, r) <= Balls(P, n, p, h, r)
  <2>1. \A r \in QP : Balls(P, n, p, h, r) \in Nat
    BY <1>1, Numbers
  <2> HIDE DEF h2
  <2>2. QED  BY <2>1, <1>5, <1>7
<1> HIDE DEF h2
<1>9. QED  BY <1>1, <1>6, <1>7, <1>8 DEF Moved

LEMMA RetryStep ==
  ASSUME NEW n, Here(n), NEW q \in QP, hca_retry_exceeded(n, q), UNCHANGED <<program, proc>>
  PROVE  Moved(n)
<1> DEFINE P == program
           p == proc[n]
           h == hca[n]
           wc == [op |-> "send", qp |-> q, ok |-> FALSE]
           g == [h EXCEPT !.wire[q] = <<>>]
           h2 == Entered(g, wc)
<1>1. /\ n \in Node /\ Typed(p, h) /\ h \in HCA /\ h.wire \in [QP -> Seq(Message)]
      /\ DOMAIN proc = Node /\ DOMAIN hca = Node
  BY HereFacts, Fields, Zenon DEF Here, Typed
<1>2. /\ h.wire[q] # <<>> /\ reliable
      /\ hca' = [hca EXCEPT ![n] = Entered([@ EXCEPT !.wire[q] = <<>>], wc)]
  BY Zenon DEF hca_retry_exceeded
<1>3. q \in P.qps[n] /\ p.pc \notin {"create"} \cup Gone /\ Reliable(P)
  BY <1>1, <1>2, Runs, FirstMessage DEF Reliable, reliable
<1>4. Used(P, h, g, q, "send")
  <2> DEFINE w2 == [h.wire EXCEPT ![q] = <<>>]
  <2>1. g = [h EXCEPT !.wire = w2]
    BY DEF HCA
  <2>2. w2 \in [QP -> Seq(Message)] /\ w2[q] = <<>> /\ \A r \in QP : r # q => w2[r] = h.wire[r]
    <3>1. <<>> \in Seq(Message)
      OBVIOUS
    <3>2. QED  BY <1>1, <3>1
  <2> HIDE DEF w2, g
  <2>3. /\ g \in HCA /\ g.wire = w2 /\ g.acks = h.acks /\ g.qp = h.qp /\ g.cq = h.cq
        /\ g.tx_cq = h.tx_cq /\ g.armed = h.armed /\ g.events = h.events /\ g.rq = h.rq
    BY <1>1, <2>1, <2>2 DEF HCA
  <2>4. QED  BY <2>2, <2>3, <1>2, <1>3 DEF Used
<1>5. wc \in Completion /\ wc.qp = q /\ wc.op = "send"
  BY DEF Completion
<1>6. hca'[n] = h2 /\ DOMAIN hca' = Node /\ \A k \in Node : k # n => hca'[k] = hca[k]
  BY <1>1, <1>2
<1> HIDE DEF wc, g
<1>7. /\ LocalInv(P, n, p, h2)
      /\ \A r \in QP : Balls(P, n, p, h2, r) <= Balls(P, n, p, h, r)
                         + (IF r = wc.qp /\ wc.op = "recv" THEN 1 ELSE 0)
  BY <1>3, <1>4, <1>5, EnteredStep
<1>8. \A r \in QP : Balls(P, n, p, h2, r) <= Balls(P, n, p, h, r)
  <2>1. \A r \in QP : Balls(P, n, p, h, r) \in Nat
    BY <1>1, Numbers
  <2> HIDE DEF h2
  <2>2. QED  BY <2>1, <1>5, <1>7
<1> HIDE DEF h2
<1>9. QED  BY <1>1, <1>6, <1>7, <1>8 DEF Moved

LEMMA LoseStep ==
  ASSUME NEW n, Here(n), NEW q \in QP, hca_lose(n, q), UNCHANGED <<program, proc>>
  PROVE  Moved(n)
<1> DEFINE P == program
           p == proc[n]
           h == hca[n]
           w2 == [h.wire EXCEPT ![q] = Tail(h.wire[q])]
           h2 == [h EXCEPT !.wire = w2, !.acks = h.acks]
<1>1. /\ n \in Node /\ n \in Pair /\ LocalInv(P, n, p, h) /\ Typed(p, h) /\ h \in HCA
      /\ DOMAIN proc = Node /\ DOMAIN hca = Node
  BY HereFacts, Fields DEF Here, Typed
<1>2. /\ h.wire[q] # <<>> /\ ~reliable /\ hca' = [hca EXCEPT ![n].wire[q] = Tail(@)]
  BY DEF hca_lose
<1>3. ~Reliable(P)
  BY <1>2 DEF Reliable, reliable
<1>4. hca'[n] = h2 /\ DOMAIN hca' = Node /\ \A k \in Node : k # n => hca'[k] = hca[k]
  <2>1. hca'[n] = [h EXCEPT !.wire = w2]
    BY <1>1, <1>2 DEF HCA
  <2> HIDE DEF w2
  <2>2. [h EXCEPT !.wire = w2] = [h EXCEPT !.wire = w2, !.acks = h.acks]
    BY <1>1 DEF HCA
  <2>3. QED  BY <1>1, <1>2, <2>1, <2>2
<1>5. /\ LocalInv(P, n, p, h2)
      /\ Balls(P, n, p, h2, q) + 1 = Balls(P, n, p, h, q)
      /\ \A r \in QP : r # q => Balls(P, n, p, h2, r) = Balls(P, n, p, h, r)
  <2>1. h2 = Carried(P, h, q)
    BY <1>3, Zenon DEF Carried
  <2> HIDE DEF h2
  <2>2. QED  BY <1>1, <1>2, <2>1, CarriedLocal
<1> HIDE DEF h2
<1>6. \A r \in QP : Balls(P, n, p, h2, r) <= Balls(P, n, p, h, r)
  <2>1. Typed(p, h2)
    BY <1>5 DEF LocalInv
  <2>2. \A r \in QP : Balls(P, n, p, h, r) \in Nat /\ Balls(P, n, p, h2, r) \in Nat
    BY <1>1, <2>1, Numbers
  <2>3. QED  BY <2>2, <1>5
<1>7. QED  BY <1>1, <1>4, <1>5, <1>6 DEF Moved

(* A message goes from the wire to the CQ of the other, or is dropped.          *)
Sent(n, q, m) == [hca EXCEPT ![n].wire[q] = Tail(@),
                             ![n].acks[q] = IF reliable /\ m.signaled THEN @ + 1 ELSE @]

(* A function changed at one point.                                             *)
LEMMA ReplacedAt ==
  ASSUME NEW f, NEW k \in DOMAIN f, NEW v, NEW g, g = [f EXCEPT ![k] = v]
  PROVE  g[k] = v /\ DOMAIN g = DOMAIN f /\ \A j \in DOMAIN f : j # k => g[j] = f[j]
OBVIOUS

LEMMA SentFields ==
  ASSUME NEW n, Here(n), NEW q \in QP, NEW m, m.signaled, NEW sent, sent = Sent(n, q, m)
  PROVE  /\ sent[n] = Carried(program, hca[n], q) /\ DOMAIN sent = Node
         /\ \A k \in Node : k # n => sent[k] = hca[k]
<1> DEFINE h == hca[n]
           w2 == [h.wire EXCEPT ![q] = Tail(h.wire[q])]
           c == IF reliable /\ m.signaled THEN h.acks[q] + 1 ELSE h.acks[q]
           a2 == [h.acks EXCEPT ![q] = c]
           a3 == IF Reliable(program) THEN [h.acks EXCEPT ![q] = h.acks[q] + 1] ELSE h.acks
<1>1. n \in Node /\ h \in HCA /\ h.acks \in [QP -> Nat] /\ DOMAIN hca = Node
  BY HereFacts, Fields DEF Here, Typed
<1>2. sent[n] = [h EXCEPT !.wire = w2, !.acks = a2]
  <2> HIDE DEF w2, c
  <2>1. sent = [hca EXCEPT ![n].wire[q] = Tail(@), ![n].acks[q] = c]
    BY DEF c, Sent
  <2>2. QED  BY <1>1, <2>1 DEF w2, HCA
<1>3. a2 = a3
  <2>1. CASE reliable
    BY <2>1 DEF reliable, Reliable
  <2>2. CASE ~reliable
    <3>1. c = h.acks[q] /\ a3 = h.acks
      BY <2>2 DEF reliable, Reliable
    <3>2. QED  BY <1>1, <3>1
  <2>3. QED  BY <2>1, <2>2
<1>4. DOMAIN sent = Node /\ \A k \in Node : k # n => sent[k] = hca[k]
  BY <1>1 DEF Sent
<1>5. [h EXCEPT !.wire = w2, !.acks = a3] = Carried(program, h, q)
  BY Zenon DEF Carried
<1> HIDE DEF w2, a2, a3
<1>6. QED  BY <1>2, <1>3, <1>4, <1>5

Received(sent, m) ==
  [sent EXCEPT ![m.to] = Entered([sent[m.to] EXCEPT !.rq = @ - 1],
                                 [op |-> "recv", qp |-> m.qp, ok |-> TRUE])]

LEMMA Delivers ==
  ASSUME NEW n, NEW q, hca_deliver(n, q), NEW m, m = Head(hca[n].wire[q])
  PROVE  /\ hca[n].wire[q] # <<>>
         /\ \/ hca[m.to].rq > 0 /\ hca' = Received(Sent(n, q, m), m)
            \/ ~reliable /\ hca' = Sent(n, q, m)
BY Zenon DEF hca_deliver, Sent, Received

LEMMA DeliverStep ==
  ASSUME PairInv, program.name \in PingPongs, NEW n \in Pair, NEW q \in QP,
         hca_deliver(n, q), UNCHANGED <<program, proc>>
  PROVE  PairInv'
<1> DEFINE P == program
           h == hca[n]
           k == 1 - n
           hk == hca[k]
           m == Head(h.wire[q])
           sent == Sent(n, q, m)
           wc == [op |-> "recv", qp |-> m.qp, ok |-> TRUE]
           h2 == Carried(P, h, q)
           g == [sent[m.to] EXCEPT !.rq = @ - 1]
           hk2 == Entered(g, wc)
<1>1. /\ k \in Pair /\ k # n /\ \A j \in Pair : j = n \/ j = k
      /\ Here(n) /\ Here(k) /\ Pair \subseteq Node
      /\ (n = 0 /\ k = 1) \/ (n = 1 /\ k = 0)
  <2>1. k \in Pair /\ k # n /\ (\A j \in Pair : j = n \/ j = k) /\ Pair \subseteq Node
        /\ ((n = 0 /\ k = 1) \/ (n = 1 /\ k = 0))
    BY NodeAssumption DEF Pair
  <2>2. Here(n) /\ Here(k)
    BY <2>1, PairHere
  <2>3. QED  BY <2>1, <2>2
<1>0. /\ h.wire[q] # <<>>
      /\ \/ hca[m.to].rq > 0 /\ hca' = Received(sent, m)
         \/ ~reliable /\ hca' = sent
  BY Zenon, Delivers
<1>2. h.wire[q] # <<>>
  BY <1>0
<1>3. q \in P.qps[n] /\ m.to = k /\ m.qp = q /\ m.signaled
  <2>1. /\ q \in P.qps[n]
        /\ m = [to |-> 1 - n, qp |-> q, via |-> 1 - n, viaQp |-> q, signaled |-> TRUE]
    BY <1>1, <1>2, FirstMessage
  <2> HIDE DEF m
  <2>2. QED  BY <2>1
<1>4. sent[n] = h2 /\ DOMAIN sent = Node /\ \A j \in Node : j # n => sent[j] = hca[j]
  <2> HIDE DEF m, sent
  <2>0. sent = Sent(n, q, m)
    BY DEF sent
  <2>1. QED  BY <1>1, <1>3, <2>0, SentFields
<1>5. LocalInv(P, n, proc[n], h) /\ LocalInv(P, k, proc[k], hk) /\ Typed(proc[n], h) /\ Typed(proc[k], hk)
      /\ P \in Programs /\ DOMAIN proc = Node /\ DOMAIN hca = Node /\ q \in P.qps[k]
  <2>1. P.qps[n] = P.qps[0] /\ P.qps[k] = P.qps[0] /\ P \in Programs
    BY <1>1, PairProgram DEF PairInv
  <2>2. QED  BY <1>1, <1>3, <2>1, HereFacts DEF Here
<1>6. /\ LocalInv(P, n, proc[n], h2)
      /\ Balls(P, n, proc[n], h2, q) + 1 = Balls(P, n, proc[n], h, q)
      /\ \A r \in QP : r # q => Balls(P, n, proc[n], h2, r) = Balls(P, n, proc[n], h, r)
  <2> HIDE DEF h2
  <2>1. h2 = Carried(P, h, q)
    BY DEF h2
  <2>2. QED  BY <1>2, <1>5, <2>1, CarriedLocal
<1>7. CASE ~reliable /\ hca' = sent
  <2>1. hca'[n] = h2 /\ DOMAIN hca' = Node /\ \A j \in Node : j # n => hca'[j] = hca[j]
    BY <1>4, <1>7
  <2> HIDE DEF h2
  <2>2. Typed(proc[n], h2)
    BY <1>6 DEF LocalInv
  <2>3. \A r \in QP : Balls(P, n, proc[n], h2, r) \in Nat /\ Balls(P, n, proc[n], h, r) \in Nat
    BY <1>5, <2>2, Numbers
  <2>4. \A r \in QP : Balls(P, n, proc[n], h2, r) <= Balls(P, n, proc[n], h, r)
    BY <1>6, <2>3
  <2>5. Moved(n)
    BY <1>5, <1>6, <2>1, <2>4 DEF Moved
  <2>6. QED  BY <2>5, PairMoved
<1>8. CASE hca[m.to].rq > 0 /\ hca' = Received(sent, m)
  <2>0. hk.rq > 0
    BY <1>3, <1>8
  <2>1. g = [hk EXCEPT !.rq = hk.rq - 1]
    <3>1. sent[m.to] = hk
      BY <1>1, <1>3, <1>4
    <3> HIDE DEF sent, m
    <3>2. QED  BY <3>1
  <2>2. Used(P, hk, g, q, "recv")
    <3>1. hk \in HCA /\ hk.rq \in Nat
      BY <1>5, Fields DEF Typed
    <3> DEFINE c == hk.rq - 1
    <3>2. c \in Nat /\ c + 1 = hk.rq
      BY <2>0, <3>1
    <3> HIDE DEF c, g
    <3>3. g = [hk EXCEPT !.rq = c]
      BY <2>1 DEF c
    <3>4. /\ g \in HCA /\ g.rq = c /\ g.wire = hk.wire /\ g.acks = hk.acks /\ g.qp = hk.qp
          /\ g.cq = hk.cq /\ g.tx_cq = hk.tx_cq /\ g.armed = hk.armed /\ g.events = hk.events
      BY <3>1, <3>2, <3>3 DEF HCA
    <3>5. QED  BY <3>2, <3>4 DEF Used
  <2>3. wc \in Completion /\ wc.qp = q /\ wc.op = "recv"
    BY <1>3 DEF Completion
  <2>4. proc[k].pc \notin {"create"} \cup Gone
    BY <1>1, <2>0, Runs
  <2>5. hca'[k] = hk2 /\ hca'[n] = h2 /\ DOMAIN hca' = Node
        /\ \A j \in Node \ Pair : hca'[j] = hca[j]
    <3>1. hca' = [sent EXCEPT ![m.to] = hk2]
      BY <1>8, Zenon DEF Received
    <3>2. sent[n] = h2 /\ DOMAIN sent = Node /\ k \in Node /\ n \in Node /\ k # n /\ m.to = k
          /\ \A j \in Node \ Pair : sent[j] = hca[j] /\ j # k
      BY <1>1, <1>3, <1>4
    <3> HIDE DEF sent, hk2, m, h2, k
    <3>3. /\ hca'[k] = hk2 /\ DOMAIN hca' = Node
          /\ \A j \in Node : j # k => hca'[j] = sent[j]
      <4>1. hca' = [sent EXCEPT ![k] = hk2]
        BY <3>1, <3>2, Zenon
      <4>2. QED  BY <3>2, <4>1, ReplacedAt
    <3>4. QED  BY <3>2, <3>3, Zenon
  <2> HIDE DEF wc, g
  <2>6. /\ LocalInv(P, k, proc[k], hk2)
        /\ \A r \in QP : Balls(P, k, proc[k], hk2, r) <= Balls(P, k, proc[k], hk, r)
                           + (IF r = wc.qp /\ wc.op = "recv" THEN 1 ELSE 0)
    BY <1>1, <1>5, <2>2, <2>3, <2>4, EnteredStep
  <2> HIDE DEF h2, hk2
  <2>7. Typed(proc[n], h2) /\ Typed(proc[k], hk2)
    BY <1>6, <2>6 DEF LocalInv
  <2>8. ASSUME NEW r \in QP
        PROVE  Balls(P, 0, proc[0], hca'[0], r) + Balls(P, 1, proc[1], hca'[1], r) <= 1
    <3> DEFINE b == Balls(P, n, proc[n], h, r)
               b2 == Balls(P, n, proc[n], h2, r)
               d == Balls(P, k, proc[k], hk, r)
               d2 == Balls(P, k, proc[k], hk2, r)
    <3>1. b \in Nat /\ b2 \in Nat /\ d \in Nat /\ d2 \in Nat
      BY <1>5, <2>7, Numbers
    <3>2. b + d <= 1
      <4>1. Balls(P, 0, proc[0], hca[0], r) + Balls(P, 1, proc[1], hca[1], r) <= 1
        BY DEF PairInv
      <4>2. \/ Balls(P, 0, proc[0], hca[0], r) = b /\ Balls(P, 1, proc[1], hca[1], r) = d
            \/ Balls(P, 0, proc[0], hca[0], r) = d /\ Balls(P, 1, proc[1], hca[1], r) = b
        BY <1>1
      <4> HIDE DEF b, d
      <4>3. QED  BY <3>1, <4>1, <4>2
    <3>3. b2 + d2 <= 1
      <4>1. CASE r = q
        <5>1. b2 + 1 = b /\ d2 <= d + 1
          BY <1>6, <2>3, <2>6, <4>1
        <5> HIDE DEF b, b2, d, d2
        <5>2. QED  BY <3>1, <3>2, <5>1
      <4>2. CASE r # q
        <5>1. b2 = b /\ d2 <= d + 0
          BY <1>6, <2>3, <2>6, <4>2
        <5> HIDE DEF b, b2, d, d2
        <5>2. QED  BY <3>1, <3>2, <5>1
      <4>3. QED  BY <4>1, <4>2
    <3>4. \/ Balls(P, 0, proc[0], hca'[0], r) = b2 /\ Balls(P, 1, proc[1], hca'[1], r) = d2
          \/ Balls(P, 0, proc[0], hca'[0], r) = d2 /\ Balls(P, 1, proc[1], hca'[1], r) = b2
      BY <1>1, <2>5
    <3> HIDE DEF b2, d2
    <3>5. QED  BY <3>1, <3>3, <3>4
  <2>9. /\ \A j \in Pair : LocalInv(P, j, proc[j], hca'[j])
        /\ \A j \in Node \ Pair : hca'[j] = NoHCA
    <3>1. \A j \in Node \ Pair : hca[j] = NoHCA
      BY DEF PairInv
    <3>2. QED  BY <1>1, <1>6, <2>5, <2>6, <3>1
  <2> HIDE DEF P
  <2>10. program' = P /\ proc' = proc
    BY DEF P
  <2>11. QED  BY <1>5, <2>5, <2>8, <2>9, <2>10 DEF PairInv
<1>9. QED  BY <1>0, <1>7, <1>8

(****************************************************************************)
(* The steps of the programs.                                                *)
(****************************************************************************)
(* No step changes which program runs.                                          *)
LEMMA ProgramKept ==
  ASSUME [Next]_vars PROVE UNCHANGED program
<1>1. CASE UNCHANGED vars
  BY <1>1 DEF vars
<1>2. CASE hca_step /\ UNCHANGED <<program, proc>>
  BY <1>2
<1>3. ASSUME NEW n \in nodes, RcNext(n) \/ UcNext(n) \/ UdNext(n) \/ SrqNext(n) PROVE UNCHANGED program
  <2>1. CASE RcNext(n)
    BY <2>1, Zenon DEF RcNext, rc_prepare, prepared, rc_init_fails, init_fails,
       rc_client_exch_dest, client_calls, client_reads, rc_server_exch_dest, server_accepts,
       server_ready, exchange_fails, rc_connect_ctx, client_connects, rc_first_send,
       client_first_send, rc_get_cq_event, get_cq_event, rc_poll_cq, poll_cq, rc_start_poll,
       rc_next_poll, rc_parse_single_wc, parse_wc, rc_close_ctx, main_closes, close_ctx
  <2>2. CASE UcNext(n)
    BY <2>2, Zenon DEF UcNext, uc_prepare, prepared, uc_init_fails, init_fails,
       uc_client_exch_dest, client_calls, client_reads, uc_server_exch_dest, server_accepts,
       server_ready, exchange_fails, uc_connect_ctx, client_connects, uc_first_send,
       client_first_send, uc_get_cq_event, get_cq_event, uc_poll_cq, poll_cq,
       uc_parse_wc, parse_wc, uc_close_ctx, main_closes, close_ctx
  <2>3. CASE UdNext(n)
    BY <2>3, Zenon DEF UdNext, ud_prepare, prepared, ud_init_fails, init_fails,
       ud_client_exch_dest, client_calls, client_reads, ud_server_exch_dest, server_accepts,
       server_ready, exchange_fails, ud_connect_ctx, client_connects, ud_first_send,
       client_first_send, ud_get_cq_event, get_cq_event, ud_poll_cq, poll_cq,
       ud_parse_wc, parse_wc, ud_close_ctx, main_closes, close_ctx
  <2>4. CASE SrqNext(n)
    BY <2>4, Zenon DEF SrqNext, srq_prepare, prepared, srq_init_fails, init_fails,
       srq_client_exch_dest, client_calls, client_reads, srq_server_exch_dest, server_accepts,
       server_ready, srq_done_fails, exchange_fails, srq_connect_ctx, client_connects, srq_first_send,
       client_first_send, srq_get_cq_event, get_cq_event, srq_poll_cq, poll_cq,
       srq_parse_wc, parse_wc, srq_close_ctx, main_closes, close_ctx
  <2>5. QED  BY <1>3, <2>1, <2>2, <2>3, <2>4
<1>4. ASSUME NEW n \in nodes, XsrqNext(n) PROVE UNCHANGED program
  BY <1>4, Zenon DEF XsrqNext, xsrq_prepare, prepared, xsrq_init_fails, init_fails,
     xsrq_client_connect, xsrq_server_connect, xsrq_server_first, xsrq_get_cq_event,
     xsrq_poll_recv, xsrq_poll_empty, xsrq_poll_send, xsrq_client_termination,
     xsrq_server_termination, xsrq_close_ctx, close_ctx
<1>5. ASSUME NEW n \in nodes, IbProbeNext(n) PROVE UNCHANGED program
  BY <1>5, Zenon DEF IbProbeNext, ibprobe_prepare, prepared, ibprobe_init_fails, init_fails,
     ibprobe_sendrecv, mpi_sends, mpi_receives, ibprobe_connect_ctx, mpi_connects,
     ibprobe_post_send, ibprobe_poll_tx, ibprobe_await_ack, ibprobe_poll_rx,
     ibprobe_await_sent, ibprobe_barrier, ibprobe_close_ctx, close_ctx
<1>6. ASSUME NEW n \in nodes, YmpiNext(n) \/ IballputallNext(n) PROVE UNCHANGED program
  BY <1>6, Zenon DEF YmpiNext, ympi_init, prepared, ympi_init_fails, init_fails, ympi_exchange,
     mpi_sends, mpi_receives, YMPID_Context_connect, mpi_connects, YMPI_Finalize,
     IballputallNext, iballputall_init, iballputall_init_fails, iballputall_exchange,
     iballputall_connect_ctx, iballputall_close_ctx, close_ctx
<1>7. ASSUME NEW n \in nodes, main_fails(n) PROVE UNCHANGED program
  BY <1>7 DEF main_fails
<1>8. QED  BY <1>1, <1>2, <1>3, <1>4, <1>5, <1>6, <1>7 DEF Next, process_step

(* What the programs pass to the shared steps.                                  *)
LEMMA Batches ==
  ASSUME NEW n, Here(n)
  PROVE  /\ 1 \in 1 .. RxDepth /\ Cardinality(qpsOf(n)) \in 1 .. RxDepth
         /\ program.rx_depth + Cardinality(qpsOf(n)) \in Nat
         /\ program.rx_depth + Cardinality(qpsOf(n)) >= 2 * Cardinality(program.qps[n])
         /\ program.name # "srq" => 2 >= 2 * Cardinality(program.qps[n])
<1> DEFINE Q == program.qps[n]
<1>1. /\ qpsOf(n) = Q /\ Q \subseteq QP /\ 0 \in Q /\ program.rx_depth = RxDepth
      /\ program.name # "srq" => Q = {0}
  BY HereFacts, PairProgram DEF Here
<1>2. IsFiniteSet(QP) /\ RxDepth \in Nat /\ RxDepth >= Cardinality(QP)
  BY QPAssumption, DepthAssumption
<1> HIDE DEF Q
<1>3. IsFiniteSet(Q) /\ Cardinality(Q) <= Cardinality(QP)
  BY <1>1, <1>2, FS_Subset
<1>4. Cardinality(Q) \in Nat /\ Cardinality(QP) \in Nat /\ Cardinality(Q) # 0
  BY <1>1, <1>2, <1>3, FS_CardinalityType, FS_EmptySet
<1>5. program.name # "srq" => Cardinality(Q) = 1
  BY <1>1, FS_Singleton
<1>6. 1 \in 1 .. RxDepth /\ Cardinality(Q) \in 1 .. RxDepth /\ RxDepth + Cardinality(Q) \in Nat
      /\ RxDepth + Cardinality(Q) >= 2 * Cardinality(Q)
      /\ (program.name # "srq" => 2 >= 2 * Cardinality(Q))
  BY <1>2, <1>3, <1>4, <1>5
<1>7. QED  BY <1>1, <1>6 DEF Q

LEMMA ProcessStep ==
  ASSUME NEW n, Here(n),
         \/ RcNext(n) \/ UcNext(n) \/ UdNext(n) \/ SrqNext(n) \/ XsrqNext(n)
         \/ IbProbeNext(n) \/ YmpiNext(n) \/ IballputallNext(n) \/ main_fails(n)
  PROVE  Moved(n)
<1>1. /\ program.name \in PingPongs /\ (program.ts => program.name = "rc")
      /\ program.event \in BOOLEAN /\ program.ts \in BOOLEAN
  BY PairProgram DEF Here
<1>2. /\ 1 \in 1 .. RxDepth /\ Cardinality(qpsOf(n)) \in 1 .. RxDepth
      /\ program.rx_depth + Cardinality(qpsOf(n)) \in Nat
      /\ program.rx_depth + Cardinality(qpsOf(n)) >= 2 * Cardinality(program.qps[n])
      /\ program.name # "srq" => 2 >= 2 * Cardinality(program.qps[n])
  BY Batches
<1>3. CASE main_fails(n)
  BY <1>3, ErrorStep DEF main_fails
<1>4. CASE RcNext(n)
  <2>1. program.name = "rc"
    BY <1>4 DEF RcNext
  <2>2. CASE rc_prepare(n)
    BY <2>2, PrepareStep DEF rc_prepare
  <2>3. CASE rc_init_fails(n)
    BY <2>3, InitFailsStep DEF rc_init_fails
  <2>4. CASE rc_client_exch_dest(n)
    BY <2>4, CallStep, ReadStep DEF rc_client_exch_dest
  <2>5. CASE rc_server_exch_dest(n)
    BY <2>5, AcceptStep, ServerReadyStep DEF rc_server_exch_dest
  <2>6. CASE exchange_fails(n)
    BY <2>6, ExchangeFailsStep
  <2>7. CASE rc_connect_ctx(n)
    BY <2>7, ClientConnectStep DEF rc_connect_ctx
  <2>8. CASE rc_first_send(n)
    BY <2>8, FirstSendStep DEF rc_first_send
  <2>9. CASE rc_get_cq_event(n)
    BY <2>9, EventStep DEF rc_get_cq_event
  <2>10. CASE rc_poll_cq(n)
    <3>1. 2 \in Nat /\ 2 >= 2 * Cardinality(program.qps[n]) /\ poll_cq(n, 2) /\ ~program.ts
      BY <1>2, <2>1, <2>10 DEF rc_poll_cq
    <3>2. QED  BY <3>1, PollStep
  <2>11. CASE rc_start_poll(n)
    BY <2>1, <2>11, StartPollStep
  <2>12. CASE rc_next_poll(n)
    BY <2>1, <2>12, NextPollStep
  <2>13. CASE rc_parse_single_wc(n)
    <3> DEFINE next == IF program.ts /\ proc[n].turn = 0 THEN "next_poll" ELSE "loop"
    <3>1. parse_wc(n, 1, next)
      BY <2>13 DEF rc_parse_single_wc
    <3>2. QED  BY <1>2, <3>1, ParseStep
  <2>14. CASE rc_close_ctx(n)
    BY <2>14, CloseStep DEF rc_close_ctx
  <2>15. QED
    BY <1>4, <2>2, <2>3, <2>4, <2>5, <2>6, <2>7, <2>8, <2>9, <2>10, <2>11, <2>12, <2>13, <2>14,
       Zenon DEF RcNext
<1>5. CASE UcNext(n)
  <2>1. program.name = "uc" /\ ~program.ts
    BY <1>1, <1>5 DEF UcNext
  <2>2. CASE uc_prepare(n)
    BY <2>2, PrepareStep DEF uc_prepare
  <2>3. CASE uc_init_fails(n)
    BY <2>3, InitFailsStep DEF uc_init_fails
  <2>4. CASE uc_client_exch_dest(n)
    BY <2>4, CallStep, ReadStep DEF uc_client_exch_dest
  <2>5. CASE uc_server_exch_dest(n)
    BY <2>5, AcceptStep, ServerReadyStep DEF uc_server_exch_dest
  <2>6. CASE exchange_fails(n)
    BY <2>6, ExchangeFailsStep
  <2>7. CASE uc_connect_ctx(n)
    BY <2>7, ClientConnectStep DEF uc_connect_ctx
  <2>8. CASE uc_first_send(n)
    BY <2>8, FirstSendStep DEF uc_first_send
  <2>9. CASE uc_get_cq_event(n)
    BY <2>9, EventStep DEF uc_get_cq_event
  <2>10. CASE uc_poll_cq(n)
    <3>1. 2 \in Nat /\ 2 >= 2 * Cardinality(program.qps[n]) /\ poll_cq(n, 2)
      BY <1>2, <2>1, <2>10 DEF uc_poll_cq
    <3>2. QED  BY <2>1, <3>1, PollStep
  <2>11. CASE uc_parse_wc(n)
    <3>1. parse_wc(n, 1, "loop")
          /\ "loop" = (IF program.ts /\ proc[n].turn = 0 THEN "next_poll" ELSE "loop")
      BY <2>1, <2>11 DEF uc_parse_wc
    <3>2. QED  BY <1>2, <3>1, ParseStep
  <2>12. CASE uc_close_ctx(n)
    BY <2>12, CloseStep DEF uc_close_ctx
  <2>13. QED
    BY <1>5, <2>2, <2>3, <2>4, <2>5, <2>6, <2>7, <2>8, <2>9, <2>10, <2>11, <2>12, Zenon DEF UcNext
<1>6. CASE UdNext(n)
  <2>1. program.name = "ud" /\ ~program.ts
    BY <1>1, <1>6 DEF UdNext
  <2>2. CASE ud_prepare(n)
    BY <2>2, PrepareStep DEF ud_prepare
  <2>3. CASE ud_init_fails(n)
    BY <2>3, InitFailsStep DEF ud_init_fails
  <2>4. CASE ud_client_exch_dest(n)
    BY <2>4, CallStep, ReadStep DEF ud_client_exch_dest
  <2>5. CASE ud_server_exch_dest(n)
    BY <2>5, AcceptStep, ServerReadyStep DEF ud_server_exch_dest
  <2>6. CASE exchange_fails(n)
    BY <2>6, ExchangeFailsStep
  <2>7. CASE ud_connect_ctx(n)
    BY <2>7, ClientConnectStep DEF ud_connect_ctx
  <2>8. CASE ud_first_send(n)
    BY <2>8, FirstSendStep DEF ud_first_send
  <2>9. CASE ud_get_cq_event(n)
    BY <2>9, EventStep DEF ud_get_cq_event
  <2>10. CASE ud_poll_cq(n)
    <3>1. 2 \in Nat /\ 2 >= 2 * Cardinality(program.qps[n]) /\ poll_cq(n, 2)
      BY <1>2, <2>1, <2>10 DEF ud_poll_cq
    <3>2. QED  BY <2>1, <3>1, PollStep
  <2>11. CASE ud_parse_wc(n)
    <3>1. parse_wc(n, 1, "loop")
          /\ "loop" = (IF program.ts /\ proc[n].turn = 0 THEN "next_poll" ELSE "loop")
      BY <2>1, <2>11 DEF ud_parse_wc
    <3>2. QED  BY <1>2, <3>1, ParseStep
  <2>12. CASE ud_close_ctx(n)
    BY <2>12, CloseStep DEF ud_close_ctx
  <2>13. QED
    BY <1>6, <2>2, <2>3, <2>4, <2>5, <2>6, <2>7, <2>8, <2>9, <2>10, <2>11, <2>12, Zenon DEF UdNext
<1>7. CASE SrqNext(n)
  <2>1. program.name = "srq" /\ ~program.ts
    BY <1>1, <1>7 DEF SrqNext
  <2>2. CASE srq_prepare(n)
    BY <2>2, PrepareStep DEF srq_prepare
  <2>3. CASE srq_init_fails(n)
    BY <2>3, InitFailsStep DEF srq_init_fails
  <2>4. CASE srq_client_exch_dest(n)
    BY <2>4, CallStep, ReadStep DEF srq_client_exch_dest
  <2>5. CASE srq_server_exch_dest(n)
    BY <2>5, AcceptStep, ServerReadyStep DEF srq_server_exch_dest
  <2>6. CASE srq_done_fails(n)
    BY <2>6, ExchangeFailsStep DEF srq_done_fails
  <2>7. CASE srq_connect_ctx(n)
    BY <2>7, ClientConnectStep DEF srq_connect_ctx
  <2>8. CASE srq_first_send(n)
    BY <2>8, FirstSendStep DEF srq_first_send
  <2>9. CASE srq_get_cq_event(n)
    BY <2>9, EventStep DEF srq_get_cq_event
  <2>10. CASE srq_poll_cq(n)
    <3> DEFINE batch == program.rx_depth + Cardinality(qpsOf(n))
    <3>1. batch \in Nat /\ batch >= 2 * Cardinality(program.qps[n]) /\ poll_cq(n, batch)
      BY <1>2, <2>10 DEF srq_poll_cq
    <3> HIDE DEF batch
    <3>2. QED  BY <2>1, <3>1, PollStep
  <2>11. CASE srq_parse_wc(n)
    <3>1. parse_wc(n, Cardinality(qpsOf(n)), "loop")
          /\ "loop" = (IF program.ts /\ proc[n].turn = 0 THEN "next_poll" ELSE "loop")
      BY <2>1, <2>11 DEF srq_parse_wc
    <3>2. QED  BY <1>2, <3>1, ParseStep
  <2>12. CASE srq_close_ctx(n)
    BY <2>12, CloseStep DEF srq_close_ctx
  <2>13. QED
    BY <1>7, <2>2, <2>3, <2>4, <2>5, <2>6, <2>7, <2>8, <2>9, <2>10, <2>11, <2>12, Zenon DEF SrqNext
<1>8. ~XsrqNext(n) /\ ~IbProbeNext(n) /\ ~YmpiNext(n) /\ ~IballputallNext(n)
  BY <1>1 DEF PingPongs, XsrqNext, IbProbeNext, YmpiNext, IballputallNext
<1>9. QED  BY <1>3, <1>4, <1>5, <1>6, <1>7, <1>8

LEMMA PairStep ==
  ASSUME PairInv, program.name \in PingPongs, [Next]_vars
  PROVE  PairInv'
<1>1. \A n \in Pair : Here(n)
  BY PairHere
<1>2. CASE process_step
  <2>1. PICK n \in nodes :
          \/ RcNext(n) \/ UcNext(n) \/ UdNext(n) \/ SrqNext(n) \/ XsrqNext(n)
          \/ IbProbeNext(n) \/ YmpiNext(n) \/ IballputallNext(n) \/ main_fails(n)
    BY <1>2, Zenon DEF process_step
  <2>2. n \in Pair
    BY PairProgram DEF nodes, PairInv
  <2>3. Moved(n)
    BY <1>1, <2>1, <2>2, ProcessStep
  <2>4. QED  BY <2>2, <2>3, PairMoved
<1>3. CASE hca_step /\ UNCHANGED <<program, proc>>
  <2>1. PICK n \in Node, q \in QP :
          \/ hca_deliver(n, q) \/ hca_complete(n, q)
          \/ hca_retry_exceeded(n, q) \/ hca_lose(n, q)
    BY <1>3 DEF hca_step
  <2>2. n \in Pair
    <3>1. hca[n].wire[q] # <<>> \/ hca[n].acks[q] > 0
      BY <2>1, Zenon DEF hca_deliver, hca_complete, hca_retry_exceeded, hca_lose
    <3>2. QED  BY <3>1, InPair, Zenon
  <2>3. CASE hca_deliver(n, q)
    BY <1>3, <2>2, <2>3, DeliverStep
  <2>4. CASE hca_complete(n, q)
    BY <1>1, <1>3, <2>2, <2>4, CompleteStep, PairMoved
  <2>5. CASE hca_retry_exceeded(n, q)
    BY <1>1, <1>3, <2>2, <2>5, RetryStep, PairMoved
  <2>6. CASE hca_lose(n, q)
    BY <1>1, <1>3, <2>2, <2>6, LoseStep, PairMoved
  <2>7. QED  BY <2>1, <2>3, <2>4, <2>5, <2>6
<1>4. CASE UNCHANGED vars
  BY <1>4 DEF PairInv, vars
<1>5. QED  BY <1>2, <1>3, <1>4 DEF Next

LEMMA StartLocal ==
  ASSUME NEW P \in Programs, P.name \in PingPongs, NEW n \in Pair
  PROVE  LocalInv(P, n, NoProcess, NoHCA)
<1> DEFINE p == NoProcess
           h == NoHCA
           pending == [q \in QP |-> {}]
<1>1. /\ p.pc = "create" /\ p.todo = <<>> /\ p.pending = pending /\ p.scnt = 0 /\ p.rcnt = 0
      /\ \A q \in QP : h.wire[q] = <<>> /\ h.acks[q] = 0
      /\ h.cq = <<>> /\ h.tx_cq = <<>>
  BY DEF NoProcess, NoHCA
<1>2. Typed(p, h)
  <2>1. <<>> \in Seq(Completion) /\ <<>> \in Seq(Message)
    OBVIOUS
  <2>2. pending \in [QP -> SUBSET Op]
    OBVIOUS
  <2>3. h \in HCA /\ h.tx_cq = <<>>
    BY <2>1 DEF HCA, NoHCA
  <2>4. p \in [pc : {p.pc}, made : {p.made}, todo : Seq(Completion),
               pending : [QP -> SUBSET Op], routs : Nat, scnt : Nat, rcnt : Nat,
               pp_cnt : {p.pp_cnt}, turn : Nat]
    BY <2>1, <2>2 DEF NoProcess
  <2>5. QED  BY <2>3, <2>4 DEF Typed
<1>3. PlaceInv(P, n, p)
  BY <1>1 DEF PlaceInv, Before, LoopPc, Gone
<1>4. QueueInv(P, n, p, h)
  <2>1. h = [NoHCA EXCEPT !.wire = h.wire]
    BY DEF NoHCA
  <2>2. /\ p.pc \notin {"read_done", "first"} \cup LoopPc
        /\ \A q \in QP : DOMAIN h.wire[q] = {} /\ ~(h.acks[q] > 0)
        /\ DOMAIN h.cq = {} /\ DOMAIN p.todo = {}
    BY <1>1 DEF LoopPc
  <2> HIDE DEF p, h
  <2>3. h.wire = NoHCA.wire
    BY DEF h
  <2>4. QED  BY <2>1, <2>2, <2>3 DEF QueueInv
<1>5. SendInv(P, p, h)
  <2> SUFFICES ASSUME NEW q \in QP PROVE Sends(P, p, h, q) <= Sending(p, q)
    BY DEF SendInv
  <2>1. /\ Len(h.wire[q]) = 0 /\ h.acks[q] = 0
        /\ Tally(h.cq, Of("send", q)) = 0 /\ Tally(p.todo, Of("send", q)) = 0
    BY <1>1, TallyEmpty
  <2>2. Sending(p, q) = 0
    BY <1>1 DEF Sending
  <2> HIDE DEF p, h
  <2>3. QED  BY <2>1, <2>2 DEF Sends
<1>6. WakeInv(P, p, h) /\ RecvInv(P, p, h)
  BY <1>1 DEF WakeInv, RecvInv
<1>7. QED  BY <1>2, <1>3, <1>4, <1>5, <1>6 DEF LocalInv

LEMMA PairInit ==
  ASSUME Init, program.name \in PingPongs
  PROVE  PairInv
<1> DEFINE P == program
<1>1. /\ P \in Programs /\ hca = [n \in Node |-> NoHCA] /\ proc = [n \in Node |-> NoProcess]
  BY DEF Init, PingPongs
<1>2. /\ DOMAIN proc = Node /\ DOMAIN hca = Node
      /\ \A n \in Node : proc[n] = NoProcess /\ hca[n] = NoHCA
  BY <1>1
<1>3. Pair \subseteq Node
  BY NodeAssumption DEF Pair
<1>4. \A n \in Pair : LocalInv(P, n, proc[n], hca[n])
  BY <1>1, <1>2, <1>3, StartLocal
<1>5. ASSUME NEW q \in QP
      PROVE  Balls(P, 0, proc[0], hca[0], q) + Balls(P, 1, proc[1], hca[1], q) <= 1
  <2>1. \A n \in Pair : /\ Len(hca[n].wire[q]) = 0 /\ Arrived(proc[n], hca[n], q) = 0
                        /\ proc[n].pc = "create"
    <3>1. Len(NoHCA.wire[q]) = 0 /\ NoHCA.cq = <<>> /\ NoProcess.todo = <<>>
          /\ NoProcess.pc = "create"
      BY DEF NoHCA, NoProcess
    <3>2. Tally(NoHCA.cq, Of("recv", q)) = 0 /\ Tally(NoProcess.todo, Of("recv", q)) = 0
      BY <3>1, TallyEmpty
    <3>3. Arrived(NoProcess, NoHCA, q) = 0
      BY <3>2 DEF Arrived
    <3>4. QED  BY <1>2, <1>3, <3>1, <3>3
  <2>2. Owes(P, 0, proc[0], q) = 0 /\ Owes(P, 1, proc[1], q) \in {0, 1}
    <3>1. proc[0].pc \notin LoopPc
      BY <2>1 DEF LoopPc, Pair
    <3>2. QED  BY <3>1 DEF Owes
  <2>3. 0 \in Pair /\ 1 \in Pair
    BY DEF Pair
  <2>4. QED  BY <2>1, <2>2, <2>3 DEF Balls
<1>6. QED  BY <1>1, <1>2, <1>3, <1>4, <1>5 DEF PairInv, Pair

(****************************************************************************)
(* The theorems.                                                             *)
(****************************************************************************)
LEMMA CountIsTally ==
  ASSUME NEW s \in Seq(Completion), NEW op, NEW q
  PROVE  count(s, op, q) = Tally(s, Of(op, q))
<1>1. \A i \in DOMAIN s : s[i] \in Completion
  <2>1. \A i \in 1 .. Len(s) : s[i] \in Completion
    BY ElementOfSeq
  <2>2. QED  BY <2>1
<1>2. {i \in DOMAIN s : s[i].op = op /\ s[i].qp = q} = {i \in DOMAIN s : s[i] \in Of(op, q)}
  BY <1>1 DEF Of
<1>3. QED  BY <1>2 DEF count, Tally

(* In a ping-pong the nodes are the pair.                                       *)
LEMMA PairNodes ==
  ASSUME PairInv, program.name \in PingPongs
  PROVE  nodes = Pair
<1>1. Pair \subseteq Node
  BY NodeAssumption DEF Pair
<1>2. /\ \A n \in Pair : program.qps[n] # {}
      /\ \A n \in Node \ Pair : program.qps[n] = {}
  BY PairProgram DEF PairInv
<1>3. QED  BY <1>1, <1>2 DEF nodes

LEMMA PairOneInFlight ==
  ASSUME program.name \in PingPongs => PairInv
  PROVE  OneInFlight
<1> SUFFICES ASSUME program.name \in PingPongs, NEW q \in QP PROVE inFlight(q) <= 1
  BY DEF OneInFlight
<1>1. Here(0) /\ Here(1)
  BY PairHere DEF Pair
<1> DEFINE w(n) == Len(hca[n].wire[q])
           a(n) == Arrived(proc[n], hca[n], q)
           o(n) == Owes(program, n, proc[n], q)
           b(n) == Balls(program, n, proc[n], hca[n], q)
<1>2. ASSUME NEW n \in Pair
      PROVE  /\ count(hca[n].cq, "recv", q) + count(proc[n].todo, "recv", q) = a(n)
             /\ w(n) \in Nat /\ a(n) \in Nat /\ o(n) \in Nat /\ b(n) = w(n) + a(n) + o(n)
  <2>1. Here(n)
    BY <1>1 DEF Pair
  <2>2. Typed(proc[n], hca[n])
    BY <2>1, HereFacts
  <2>3. hca[n].cq \in Seq(Completion) /\ proc[n].todo \in Seq(Completion)
    BY <2>2, Fields
  <2>4. count(hca[n].cq, "recv", q) + count(proc[n].todo, "recv", q) = a(n)
    BY <2>3, CountIsTally DEF Arrived
  <2>5. w(n) \in Nat /\ a(n) \in Nat /\ o(n) \in {0, 1}
    BY <2>2, Numbers
  <2>6. b(n) = w(n) + a(n) + o(n)
    BY DEF Balls
  <2>7. QED  BY <2>4, <2>5, <2>6
<1>3. b(0) + b(1) <= 1
  BY DEF PairInv
<1>4. inFlight(q) = w(0) + w(1)
                      + (count(hca[0].cq, "recv", q) + count(proc[0].todo, "recv", q))
                      + (count(hca[1].cq, "recv", q) + count(proc[1].todo, "recv", q))
  BY DEF inFlight
<1>5. 0 \in Pair /\ 1 \in Pair
  BY DEF Pair
<1>6. inFlight(q) = w(0) + w(1) + a(0) + a(1)
  BY <1>2, <1>4, <1>5
<1>7. /\ w(0) \in Nat /\ a(0) \in Nat /\ o(0) \in Nat /\ b(0) = w(0) + a(0) + o(0)
      /\ w(1) \in Nat /\ a(1) \in Nat /\ o(1) \in Nat /\ b(1) = w(1) + a(1) + o(1)
  BY <1>2, <1>5
<1> HIDE DEF w, a, o, b
<1>8. QED  BY <1>3, <1>6, <1>7

LEMMA PairQueuesFit ==
  ASSUME program.name \in PingPongs, PairInv
  PROVE  QueuesFit
<1> SUFFICES ASSUME NEW n \in nodes
    PROVE  /\ Len(hca[n].cq) <= program.cqe[n]
           /\ Len(hca[n].tx_cq) <= program.tx_cqe[n]
           /\ \A q \in QP : outstanding(n, q) <= program.max_send_wr
  BY DEF QueuesFit
<1>1. n \in Pair
  BY PairNodes
<1>2. Here(n)
  BY <1>1, PairHere
<1>3. /\ Typed(proc[n], hca[n]) /\ SendInv(program, proc[n], hca[n])
      /\ program.cqe[n] = RxDepth + Cardinality(program.qps[n]) /\ program.tx_cqe[n] = 0
      /\ program.max_send_wr = 1 /\ program.rx_depth = RxDepth /\ qpsOf(n) = program.qps[n]
  BY <1>1, <1>2, HereFacts, PairProgram DEF Here, LocalInv
<1>4. Len(hca[n].cq) <= program.cqe[n]
  <2>1. /\ Len(hca[n].cq) \in Nat /\ Cardinality(program.qps[n]) \in Nat
        /\ Len(hca[n].cq) <= 2 * Cardinality(program.qps[n])
    BY <1>2, CqBound
  <2>2. /\ RxDepth + Cardinality(program.qps[n]) \in Nat
        /\ RxDepth + Cardinality(program.qps[n]) >= 2 * Cardinality(program.qps[n])
    BY <1>2, <1>3, Batches
  <2>3. QED  BY <1>3, <2>1, <2>2
<1>5. hca[n].tx_cq = <<>> /\ Len(hca[n].tx_cq) <= program.tx_cqe[n]
  BY <1>3 DEF Typed
<1>6. ASSUME NEW q \in QP PROVE outstanding(n, q) <= program.max_send_wr
  <2> DEFINE l == IF Reliable(program) THEN Len(hca[n].wire[q]) ELSE 0
             c == hca[n].acks[q]
             x == Tally(hca[n].cq, Of("send", q))
             y == Tally(proc[n].todo, Of("send", q))
  <2>1. l \in Nat /\ c \in Nat /\ x \in Nat /\ y \in Nat
    BY <1>3, Numbers
  <2>2. Sends(program, proc[n], hca[n], q) <= Sending(proc[n], q) /\ Sending(proc[n], q) \in {0, 1}
    BY <1>3 DEF SendInv, Sending
  <2>3. Sends(program, proc[n], hca[n], q) = l + c + x + y
    BY DEF Sends
  <2>4. outstanding(n, q) = l + c + count(hca[n].cq, "send", q) + count(hca[n].tx_cq, "send", q)
    BY DEF outstanding, reliable, Reliable
  <2>5. count(hca[n].cq, "send", q) = x /\ count(hca[n].tx_cq, "send", q) = 0
    <3>1. hca[n].cq \in Seq(Completion)
      BY <1>3, Fields
    <3>2. <<>> \in Seq(Completion)
      OBVIOUS
    <3>3. count(<<>>, "send", q) = 0
      BY <3>2, CountIsTally, TallyEmpty
    <3>4. QED  BY <1>5, <3>1, <3>3, CountIsTally
  <2> HIDE DEF l, c, x, y
  <2>6. l + c + x + y <= 1
    BY <2>1, <2>2, <2>3
  <2>7. outstanding(n, q) = l + c + x + 0
    BY <2>4, <2>5
  <2>8. QED  BY <1>3, <2>1, <2>6, <2>7
<1>7. QED  BY <1>4, <1>5, <1>6

LEMMA PairNoLostWakeup ==
  ASSUME program.name \in PingPongs, PairInv
  PROVE  NoLostWakeup
<1> SUFFICES ASSUME NEW n \in nodes, program.event, proc[n].pc = "loop", hca[n].cq # <<>>
    PROVE  hca[n].events > 0
  BY DEF NoLostWakeup
<1>1. n \in Pair
  BY PairNodes
<1>2. WakeInv(program, proc[n], hca[n])
  BY <1>1, PairHere, HereFacts
<1>3. ~Between(program, proc[n])
  BY DEF Between
<1>4. QED  BY <1>2, <1>3 DEF WakeInv, Gone

(* The ball of each pair of QPs is in one place, of all that run as ping-pongs. *)
THEOREM PairCorrect == Spec => [](program.name \in PingPongs => PairInv)
<1>1. Init => (program.name \in PingPongs => PairInv)
  BY PairInit
<1>2. (program.name \in PingPongs => PairInv) /\ [Next]_vars
        => (program.name \in PingPongs => PairInv)'
  <2> SUFFICES ASSUME program.name \in PingPongs => PairInv, [Next]_vars, program'.name \in PingPongs
      PROVE  PairInv'
    OBVIOUS
  <2>1. program' = program
    BY ProgramKept
  <2>2. QED  BY <2>1, PairStep
<1>3. QED  BY <1>1, <1>2, PTL DEF Spec

(* No order of messages, completions and failures puts a second message under   *)
(* way on a pair of QPs.                                                        *)
THEOREM OneInFlightCorrect == Spec => []OneInFlight
<1>1. (program.name \in PingPongs => PairInv) => OneInFlight
  BY PairOneInFlight
<1>2. QED  BY <1>1, PairCorrect, PTL

(* The CQ of one entry per receive and QP is never overrun, and the send queue  *)
(* of one entry never full, in the four ping-pong programs.                     *)
THEOREM QueuesFitCorrect == Spec => [](program.name \in PingPongs => QueuesFit)
<1>1. (program.name \in PingPongs => PairInv) => (program.name \in PingPongs => QueuesFit)
  BY PairQueuesFit
<1>2. QED  BY <1>1, PairCorrect, PTL

(* A ping-pong that sleeps on events has one to wake it if anything is in its CQ.*)
THEOREM NoLostWakeupCorrect == Spec => [](program.name \in PingPongs => NoLostWakeup)
<1>1. (program.name \in PingPongs => PairInv) => (program.name \in PingPongs => NoLostWakeup)
  BY PairNoLostWakeup
<1>2. QED  BY <1>1, PairCorrect, PTL
=============================================================================
