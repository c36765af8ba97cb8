--------------------------- MODULE RxWindowProofs ---------------------------
(* Theorems about the receive window of iballputall.c, for every size of the    *)
(* window, list of counts, number of rounds and size of a batch.                *)
EXTENDS RxWindow, Integers, FiniteSetTheorems, SequenceTheorems, TLAPS

(****************************************************************************)
(* Types.                                                                    *)
(****************************************************************************)
(* Of a process: its list stays as long as the window, the window is never left *)
(* empty, and a rank that handles completions has one.                          *)
Sound(c) ==
  /\ c \in Context
  /\ Len(c.list) = W /\ c.len >= 1 /\ c.round >= 1
  /\ c.pc = "handle" => c.todo # <<>>

TypeInv ==
  /\ ctx \in [Rank -> Context] /\ \A r \in Rank : Sound(ctx[r])
  /\ dev \in [Rank -> Device]
  /\ stale \subseteq Rank

LEMMA OtherRank == \A r \in Rank : other(r) \in Rank /\ other(r) # r /\ other(other(r)) = r
  BY DEF Rank, other

LEMMA ModLow == \A x \in 0 .. W - 1 : x % W = x
  BY WindowAssumption

LEMMA ModHigh == \A x \in W .. 2 * W - 1 : x % W = x - W
  BY WindowAssumption

LEMMA ModRange == \A x \in Nat : x % W \in Slot
  BY WindowAssumption DEF Slot

LEMMA HalfWindow == W \div 2 \in Nat /\ 2 * (W \div 2) <= W
  BY WindowAssumption

LEMMA Fields ==
  \A c \in Context : /\ c.idx \in Slot /\ c.len \in 0 .. W /\ c.list \in Seq(Slot) /\ c.todo \in Seq(Wc)
                     /\ c.round \in Nat /\ c.scnt \in Nat /\ c.rcnt \in Nat /\ c.barriers \in Nat
  BY DEF Context

(* Entries join a receive queue. *)
LEMMA SrqType ==
  ASSUME dev \in [Rank -> Device], NEW r \in Rank, NEW l \in Seq(Slot), dev' = [dev EXCEPT ![r].srq = @ \o l]
  PROVE  /\ dev' \in [Rank -> Device]
         /\ dev'[r].srq = dev[r].srq \o l /\ dev'[r].cq = dev[r].cq
         /\ \A s \in Rank \ {r} : dev'[s] = dev[s]
<1>1. dev[r] \in Device
  OBVIOUS
<1> DEFINE q == dev[r].srq \o l
<1>2. q \in Seq(Slot)
  BY <1>1 DEF Device
<1> HIDE DEF q
<1>3. dev' = [dev EXCEPT ![r] = [dev[r] EXCEPT !.srq = q]]
  BY DEF q
<1>4. [dev[r] EXCEPT !.srq = q] \in Device
  BY <1>1, <1>2 DEF Device
<1>5. [dev[r] EXCEPT !.srq = q].srq = q /\ [dev[r] EXCEPT !.srq = q].cq = dev[r].cq
  BY <1>1 DEF Device
<1>6. QED  BY <1>3, <1>4, <1>5 DEF q

LEMMA RefillType ==
  ASSUME NEW idx \in Slot, NEW len \in 0 .. W
  PROVE  /\ refill_ids(idx, len) \in Seq(Slot) /\ Len(refill_ids(idx, len)) = W - len
         /\ \A i \in 1 .. W - len : refill_ids(idx, len)[i] = (idx + len + i - 1) % W
<1> DEFINE f == [i \in 1 .. W - len |-> (idx + len + i - 1) % W]
<1>1. \A i \in 1 .. W - len : (idx + len + i - 1) % W \in Slot
  <2>1. \A i \in 1 .. W - len : idx + len + i - 1 \in Nat
    BY DEF Slot
  <2>2. QED  BY <2>1, ModRange
<1>2. W - len \in Nat
  BY WindowAssumption
<1>3. f \in Seq(Slot) /\ Len(f) = W - len
  BY <1>1, <1>2
<1>4. QED  BY <1>3 DEF refill_ids

LEMMA RefilledSound ==
  ASSUME NEW c \in Context, Len(c.list) = W
  PROVE  /\ Refilled(c) \in Context /\ Len(Refilled(c).list) = W
         /\ Refilled(c) = [c EXCEPT !.len = W, !.list = Refilled(c).list]
<1>1. c.idx \in Slot /\ c.len \in 0 .. W /\ c.list \in Seq(Slot) /\ W \in Nat
  BY WindowAssumption DEF Context
<1> DEFINE ids == refill_ids(c.idx, c.len)
           rest == SubSeq(c.list, Len(ids) + 1, W)
<1>2. ids \in Seq(Slot) /\ Len(ids) = W - c.len
  <2> DEFINE i == c.idx
             k == c.len
  <2>1. i \in Slot /\ k \in 0 .. W
    BY <1>1
  <2> HIDE DEF i, k
  <2>2. refill_ids(i, k) \in Seq(Slot) /\ Len(refill_ids(i, k)) = W - k
    BY <2>1, RefillType
  <2>3. QED  BY <2>2 DEF i, k
<1>3. rest \in Seq(Slot) /\ Len(rest) = c.len
  <2> DEFINE n == Len(ids) + 1
             k == c.len
  <2>1. n \in 1 .. W + 1 /\ W - n + 1 = k /\ k \in 0 .. W /\ (n = W + 1 => k = 0)
    <3> HIDE DEF ids, k
    <3>1. QED  BY <1>1, <1>2 DEF k
  <2>2. rest = SubSeq(c.list, n, W)
    OBVIOUS
  <2> DEFINE s == c.list
  <2>3. s \in Seq(Slot) /\ Len(s) = W
    BY <1>1
  <2> HIDE DEF n, k, s, rest
  <2>4. SubSeq(s, n, W) \in Seq(Slot) /\ Len(SubSeq(s, n, W)) = IF n <= W THEN W - n + 1 ELSE 0
    <3>1. \A i \in n .. W : s[i] \in Slot
      BY <1>1, <2>1, <2>3, ElementOfSeq
    <3>2. n \in Int /\ W \in Int
      BY <1>1, <2>1
    <3>3. QED  BY <1>1, <2>1, <2>3, <3>1, <3>2, SubSeqProperties
  <2>5. Len(SubSeq(s, n, W)) = k
    BY <1>1, <2>1, <2>4
  <2>6. QED  BY <2>2, <2>4, <2>5 DEF s, k
<1>4. ids \o rest \in Seq(Slot) /\ Len(ids \o rest) = W
  BY <1>1, <1>2, <1>3
<1>5. Refilled(c) = [c EXCEPT !.len = W, !.list = ids \o rest]
  BY DEF Refilled
<1> HIDE DEF ids, rest
<1>6. Refilled(c).list = ids \o rest
  BY <1>5 DEF Context
<1>7. [c EXCEPT !.len = W, !.list = ids \o rest] \in Context
  <2>1. W \in 0 .. W
    BY <1>1
  <2>2. QED  BY <1>4, <2>1 DEF Context
<1>8. QED  BY <1>4, <1>5, <1>6, <1>7

LEMMA TailOf ==
  ASSUME NEW S, NEW s \in Seq(S), s # <<>>
  PROVE  /\ Tail(s) \in Seq(S) /\ Len(Tail(s)) = Len(s) - 1 /\ Len(s) \in Nat /\ Len(s) >= 1
         /\ \A i \in 1 .. Len(s) - 1 : Tail(s)[i] = s[i + 1]
         /\ (Len(s) > 1 /\ Tail(s) # <<>>) \/ (~(Len(s) > 1) /\ Tail(s) = <<>>)
<1>1. /\ Tail(s) \in Seq(S) /\ Len(Tail(s)) = Len(s) - 1 /\ Len(s) \in Nat /\ Len(s) >= 1
      /\ \A i \in 1 .. Len(s) - 1 : Tail(s)[i] = s[i + 1]
  BY EmptySeq
<1>2. CASE Len(s) > 1
  <2>1. Len(Tail(s)) # 0
    BY <1>1, <1>2
  <2>2. QED  BY <1>1, <1>2, <2>1, EmptySeq
<1>3. CASE ~(Len(s) > 1)
  <2>1. Len(Tail(s)) = 0
    BY <1>1, <1>3
  <2>2. QED  BY <1>1, <1>3, <2>1, EmptySeq
<1>4. QED  BY <1>2, <1>3

(* The rest of a batch. *)
LEMMA HandledSound ==
  ASSUME NEW c \in Context, c.todo # <<>>
  PROVE  /\ handled(c) \in Context
         /\ handled(c).todo = Tail(c.todo)
         /\ (handled(c).pc = "handle" /\ Tail(c.todo) # <<>>) \/ (handled(c).pc = "loop" /\ Tail(c.todo) = <<>>)
         /\ handled(c) = [c EXCEPT !.pc = handled(c).pc, !.todo = handled(c).todo]
<1> DEFINE label == IF Len(c.todo) > 1 THEN "handle" ELSE "loop"
<1>1. c.todo \in Seq(Wc)
  BY DEF Context
<1>2. handled(c) = [c EXCEPT !.todo = Tail(c.todo), !.pc = label]
  BY DEF handled
<1>3. /\ Tail(c.todo) \in Seq(Wc)
      /\ (Len(c.todo) > 1 /\ Tail(c.todo) # <<>>) \/ (~(Len(c.todo) > 1) /\ Tail(c.todo) = <<>>)
  BY <1>1, TailOf
<1>4. (label = "handle" /\ Tail(c.todo) # <<>>) \/ (label = "loop" /\ Tail(c.todo) = <<>>)
  BY <1>3, Zenon
<1> HIDE DEF label
<1>5. handled(c).pc = label /\ handled(c).todo = Tail(c.todo)
  BY <1>2 DEF Context
<1>6. [c EXCEPT !.todo = Tail(c.todo), !.pc = label] \in Context
  BY <1>3, <1>4 DEF Context
<1>7. handled(c) = [c EXCEPT !.pc = handled(c).pc, !.todo = handled(c).todo]
  BY <1>2, <1>5 DEF Context
<1>8. QED  BY <1>2, <1>4, <1>5, <1>6, <1>7

LEMMA ReceivedType ==
  ASSUME NEW c \in Context, c.len >= 1
  PROVE  /\ Received(c) \in Context
         /\ Received(c) = [c EXCEPT !.idx = (c.idx + 1) % W, !.len = c.len - 1, !.rcnt = c.rcnt + 1]
<1>1. (c.idx + 1) % W \in Slot
  <2>1. c.idx + 1 \in Nat
    BY DEF Context, Slot
  <2>2. QED  BY <2>1, ModRange
<1> DEFINE i == (c.idx + 1) % W
<1> HIDE DEF i
<1>2. c.len - 1 \in 0 .. W /\ c.rcnt + 1 \in Nat
  BY WindowAssumption DEF Context
<1>3. [c EXCEPT !.idx = i, !.len = c.len - 1, !.rcnt = c.rcnt + 1] \in Context
  BY <1>1, <1>2 DEF Context, i
<1>4. QED  BY <1>3 DEF Received, i

(* One process moves. *)
LEMMA CtxType ==
  ASSUME TypeInv, NEW r \in Rank, NEW c, Sound(c), ctx' = [ctx EXCEPT ![r] = c]
  PROVE  ctx' \in [Rank -> Context] /\ (\A s \in Rank : Sound(ctx'[s])) /\ ctx'[r] = c
<1>1. c \in Context /\ ctx' \in [Rank -> Context] /\ ctx'[r] = c /\ \A s \in Rank \ {r} : ctx'[s] = ctx[s]
  BY DEF Sound, TypeInv
<1>2. QED  BY <1>1 DEF TypeInv

LEMMA TypeInit == Init => TypeInv
<1> SUFFICES ASSUME Init PROVE TypeInv
  OBVIOUS
<1>1. W \in Nat /\ W >= 1
  BY WindowAssumption
<1> DEFINE l == [i \in 1 .. W |-> i - 1]
<1>2. l \in Seq(Slot) /\ Len(l) = W
  BY <1>1 DEF Slot
<1> HIDE DEF l
<1>3. \A r \in Rank : ctx[r] = [pc |-> "post", idx |-> 0, len |-> W, list |-> l, todo |-> <<>>, round |-> 1,
                              scnt |-> 0, rcnt |-> 0, barriers |-> 0]
  BY DEF Init, l
<1>4. 0 \in Slot /\ W \in 0 .. W /\ <<>> \in Seq(Wc)
  BY <1>1 DEF Slot
<1>5. \A r \in Rank : ctx[r] \in Context
  <2>1. [pc |-> "post", idx |-> 0, len |-> W, list |-> l, todo |-> <<>>, round |-> 1,
         scnt |-> 0, rcnt |-> 0, barriers |-> 0] \in Context
    BY <1>2, <1>4 DEF Context
  <2>2. QED  BY <1>3, <2>1
<1>6. \A r \in Rank : Sound(ctx[r])
  BY <1>1, <1>2, <1>3, <1>5 DEF Sound
<1>7. \A r \in Rank : dev[r] = [srq |-> l, wire |-> 0, acks |-> 0, cq |-> <<>>]
  BY DEF Init, l
<1>8. \A r \in Rank : dev[r] \in Device
  <2>1. [srq |-> l, wire |-> 0, acks |-> 0, cq |-> <<>>] \in Device
    BY <1>2, <1>4 DEF Device
  <2>2. QED  BY <1>7, <2>1
<1>9. ctx \in [Rank -> Context] /\ dev \in [Rank -> Device] /\ stale \subseteq Rank
  <2>1. DOMAIN ctx = Rank /\ DOMAIN dev = Rank /\ ctx = [r \in Rank |-> ctx[r]] /\ dev = [r \in Rank |-> dev[r]] /\ stale = {}
    BY DEF Init
  <2>2. QED  BY <1>5, <1>8, <2>1
<1>10. QED  BY <1>6, <1>9 DEF TypeInv
LEMMA NumSent ==
  ASSUME TypeInv, NEW r \in Rank
  PROVE  num_sent(r) \in 0 .. W \div 2 /\ (benchmark(r) => num_sent(r) >= 1)
<1>1. ctx[r].round \in Nat /\ ctx[r].round >= 1
  BY DEF TypeInv, Sound, Context
<1>2. CASE benchmark(r)
  <2>1. ctx[r].round \in 1 .. Len(Counts)
    BY <1>1, <1>2, CountsAssumption DEF benchmark
  <2>2. Counts[ctx[r].round] \in 1 .. W \div 2
    BY <2>1, CountsAssumption, ElementOfSeq
  <2>3. QED  BY <1>2, <2>2, HalfWindow DEF num_sent
<1>3. CASE ~benchmark(r)
  BY <1>3, HalfWindow DEF num_sent
<1>4. QED  BY <1>2, <1>3

LEMMA AfterFlushSound ==
  ASSUME TypeInv, NEW r \in Rank, NEW c \in Context, c.round = ctx[r].round, Len(c.list) = W, c.len >= 1
  PROVE  /\ Sound(after_flush(r, c))
         /\ after_flush(r, c).pc \in {"barrier", "post"}
         /\ after_flush(r, c).idx = c.idx /\ after_flush(r, c).len = c.len
         /\ after_flush(r, c).scnt = c.scnt /\ after_flush(r, c).rcnt = c.rcnt
<1> DEFINE d == after_flush(r, c)
<1>1. c.barriers + 1 \in Nat /\ c.round + 1 \in Nat /\ c.round + 1 >= 1 /\ c.round >= 1
  BY Fields DEF TypeInv, Sound
<1>2. SUFFICES /\ d \in Context
               /\ d.list = c.list /\ d.len = c.len /\ d.pc \in {"barrier", "post"} /\ d.idx = c.idx
               /\ d.scnt = c.scnt /\ d.rcnt = c.rcnt
               /\ d.round >= 1
  BY DEF Sound
<1>3. CASE benchmark(r)
  <2>1. d = [c EXCEPT !.pc = "barrier", !.barriers = c.barriers + 1]
    BY <1>3 DEF after_flush
  <2> HIDE DEF d
  <2>2. QED  BY <1>1, <2>1 DEF Context
<1>4. CASE ~benchmark(r) /\ c.round = rounds
  <2>1. d = [c EXCEPT !.pc = "barrier", !.barriers = c.barriers + 1, !.round = c.round + 1]
    BY <1>4 DEF after_flush
  <2> DEFINE n == c.round + 1
             b == c.barriers + 1
  <2> HIDE DEF d, n, b
  <2>2. n \in Nat /\ n >= 1 /\ b \in Nat /\ d = [c EXCEPT !.pc = "barrier", !.barriers = b, !.round = n]
    BY <1>1, <2>1 DEF n, b
  <2>3. QED  BY <2>2 DEF Context
<1>5. CASE ~benchmark(r) /\ c.round # rounds
  <2>1. d = [c EXCEPT !.pc = "post", !.round = c.round + 1]
    BY <1>5 DEF after_flush
  <2> DEFINE n == c.round + 1
  <2> HIDE DEF d, n
  <2>2. n \in Nat /\ n >= 1 /\ d = [c EXCEPT !.pc = "post", !.round = n]
    BY <1>1, <2>1 DEF n
  <2>3. QED  BY <2>2 DEF Context
<1>6. QED  BY <1>3, <1>4, <1>5

(* Every process and device keeps its type in every step. *)
LEMMA TypeStep ==
  ASSUME TypeInv, [Next]_vars
  PROVE  TypeInv'
<1>1. \A s \in Rank : ctx[s] \in Context /\ Sound(ctx[s]) /\ dev[s] \in Device
  BY DEF TypeInv
<1>2. ASSUME NEW r \in Rank, NEW c, Sound(c), ctx' = [ctx EXCEPT ![r] = c],
             dev' \in [Rank -> Device], stale' \subseteq Rank
      PROVE  TypeInv'
  BY <1>2, CtxType DEF TypeInv
<1>3. ASSUME NEW r \in Rank, pp_post_send(r)
      PROVE  TypeInv'
  <2>1. num_sent(r) \in Nat
    BY NumSent, HalfWindow
  <2>2. dev' \in [Rank -> Device]
    <3> DEFINE n == dev[r].wire + num_sent(r)
    <3>1. n \in Nat
      BY <1>1, <2>1 DEF Device
    <3> HIDE DEF n
    <3>2. dev' = [dev EXCEPT ![r] = [dev[r] EXCEPT !.wire = n]]
      BY <1>3 DEF pp_post_send, n
    <3>3. [dev[r] EXCEPT !.wire = n] \in Device
      BY <1>1, <3>1 DEF Device
    <3>4. QED  BY <3>2, <3>3 DEF TypeInv
  <2> DEFINE c == [ctx[r] EXCEPT !.pc = "loop", !.scnt = 0, !.rcnt = 0]
  <2>3. ctx' = [ctx EXCEPT ![r] = c] /\ stale' = stale
    BY <1>3 DEF pp_post_send
  <2>4. Sound(c)
    BY <1>1 DEF Sound, Context
  <2> HIDE DEF c
  <2>5. QED  BY <1>2, <2>2, <2>3, <2>4 DEF TypeInv
<1>4. ASSUME NEW r \in Rank, poll_cq(r)
      PROVE  TypeInv'
  <2>1. PICK ne \in Nat : /\ ne >= 1 /\ ne <= Len(dev[r].cq)
                          /\ ctx' = [ctx EXCEPT ![r].pc = "handle", ![r].todo = SubSeq(dev[r].cq, 1, ne)]
                          /\ dev' = [dev EXCEPT ![r].cq = SubSeq(@, ne + 1, Len(@))]
    <3>1. dev[r].cq \in Seq(Wc) /\ dev[r].cq # <<>>
      BY <1>1, <1>4 DEF poll_cq, Device
    <3>2. Len(dev[r].cq) \in Nat /\ Len(dev[r].cq) >= 1 /\ Batch \in Nat /\ Batch >= 1
      BY <3>1, TailOf, BatchAssumption
    <3> DEFINE n == IF Len(dev[r].cq) < Batch THEN Len(dev[r].cq) ELSE Batch
    <3>3. n \in Nat /\ n >= 1 /\ n <= Len(dev[r].cq)
      BY <3>2
    <3>4. /\ ctx' = [ctx EXCEPT ![r].pc = "handle", ![r].todo = SubSeq(dev[r].cq, 1, n)]
          /\ dev' = [dev EXCEPT ![r].cq = SubSeq(@, n + 1, Len(@))]
      BY <1>4 DEF poll_cq
    <3> HIDE DEF n
    <3>5. QED  BY <3>3, <3>4
  <2>2. dev[r].cq \in Seq(Wc) /\ Len(dev[r].cq) \in Nat
    BY <1>1 DEF Device
  <2>3. SubSeq(dev[r].cq, 1, ne) \in Seq(Wc) /\ SubSeq(dev[r].cq, 1, ne) # <<>>
    <3>1. Len(SubSeq(dev[r].cq, 1, ne)) = ne /\ SubSeq(dev[r].cq, 1, ne) \in Seq(Wc)
      BY <2>1, <2>2, SubSeqProperties
    <3>2. QED  BY <2>1, <3>1, EmptySeq
  <2>4. SubSeq(dev[r].cq, ne + 1, Len(dev[r].cq)) \in Seq(Wc)
    BY <2>1, <2>2, SubSeqProperties
  <2>5. dev' \in [Rank -> Device]
    BY <1>1, <2>1, <2>4 DEF TypeInv, Device
  <2> DEFINE c == [ctx[r] EXCEPT !.pc = "handle", !.todo = SubSeq(dev[r].cq, 1, ne)]
  <2>6. ctx' = [ctx EXCEPT ![r] = c] /\ stale' = stale
    BY <1>4, <2>1 DEF poll_cq
  <2>7. Sound(c)
    BY <1>1, <2>3 DEF Sound, Context
  <2> HIDE DEF c
  <2>8. QED  BY <1>2, <2>5, <2>6, <2>7 DEF TypeInv
<1>5. ASSUME NEW r \in Rank, on_send(r)
      PROVE  TypeInv'
  <2> DEFINE h == handled(ctx[r])
             scnt == ctx[r].scnt + 1
             enters == ~benchmark(r) /\ scnt = num_sent(r)
             barriers == IF enters THEN ctx[r].barriers + 1 ELSE ctx[r].barriers
             c == [h EXCEPT !.scnt = scnt, !.barriers = barriers]
  <2>1. ctx[r].todo # <<>>
    BY <1>1, <1>5 DEF on_send, Sound
  <2>2. h \in Context /\ h = [ctx[r] EXCEPT !.pc = h.pc, !.todo = h.todo]
        /\ ((h.pc = "handle" /\ Tail(ctx[r].todo) # <<>>) \/ (h.pc = "loop" /\ Tail(ctx[r].todo) = <<>>))
        /\ h.todo = Tail(ctx[r].todo)
    BY <1>1, <2>1, HandledSound
  <2> HIDE DEF h
  <2>3. h.list = ctx[r].list /\ h.len = ctx[r].len /\ h.round = ctx[r].round
    BY <1>1, <2>2 DEF Context
  <2>4. ctx' = [ctx EXCEPT ![r] = c]
    BY <1>5 DEF on_send, h
  <2>5. scnt \in Nat /\ barriers \in Nat
    BY <1>1, Fields
  <2> HIDE DEF scnt, barriers
  <2>6. Sound(c)
    BY <1>1, <2>2, <2>3, <2>5 DEF Sound, Context
  <2> HIDE DEF c
  <2>7. QED  BY <1>2, <1>5, <2>4, <2>6 DEF on_send, TypeInv
<1>6. ASSUME NEW r \in Rank, pp_on_recv(r)
      PROVE  TypeInv'
  <2> DEFINE v == Received(ctx[r])
  <2>1. v \in Context /\ v = [ctx[r] EXCEPT !.idx = (ctx[r].idx + 1) % W, !.len = ctx[r].len - 1, !.rcnt = ctx[r].rcnt + 1]
    BY <1>1, ReceivedType DEF Sound
  <2>2. v.list = ctx[r].list /\ v.todo = ctx[r].todo /\ v.round = ctx[r].round /\ v.todo # <<>> /\ Len(v.list) = W
    BY <1>1, <1>6, <2>1 DEF pp_on_recv, Sound, Context
  <2> HIDE DEF v
  <2>3. CASE Head(ctx[r].todo).id # ctx[r].idx
    <3>1. /\ ctx' = [ctx EXCEPT ![r] = [ctx[r] EXCEPT !.pc = "failed"]]
          /\ UNCHANGED <<dev, stale>>
      BY <1>6, <2>3 DEF pp_on_recv
    <3>2. Sound([ctx[r] EXCEPT !.pc = "failed"])
      BY <1>1 DEF Sound, Context
    <3>3. QED  BY <1>2, <3>1, <3>2 DEF TypeInv
  <2>4. CASE Head(ctx[r].todo).id = ctx[r].idx /\ v.len = 0
    <3> DEFINE f == Refilled(v)
    <3>1. /\ ctx' = [ctx EXCEPT ![r] = handled(f)] /\ stale' = stale
          /\ dev' = [dev EXCEPT ![r].srq = @ \o refill_ids(v.idx, 0)]
      BY <1>6, <2>4 DEF pp_on_recv, v
    <3>2. f \in Context /\ f = [v EXCEPT !.len = W, !.list = f.list] /\ Len(f.list) = W
      BY <2>1, <2>2, RefilledSound
    <3> HIDE DEF f
    <3>3. f.len = W /\ f.todo = v.todo /\ f.round = v.round
      BY <2>1, <3>2 DEF Context
    <3>4. Sound(handled(f))
      <4> DEFINE h == handled(f)
      <4>1. h \in Context /\ h = [f EXCEPT !.pc = h.pc, !.todo = h.todo] /\ (h.pc = "handle" => h.todo # <<>>)
        BY <2>2, <3>2, <3>3, HandledSound
      <4> HIDE DEF h
      <4>2. h.list = f.list /\ h.len = f.len /\ h.round = f.round
        BY <3>2, <4>1 DEF Context
      <4>3. Sound(h)
        BY <1>1, <2>2, <3>2, <3>3, <4>1, <4>2, WindowAssumption DEF Sound
      <4>4. QED  BY <4>3 DEF h
    <3>5. dev[r].srq \o refill_ids(v.idx, 0) \in Seq(Slot)
      <4>1. v.idx \in Slot /\ 0 \in 0 .. W /\ dev[r].srq \in Seq(Slot)
        <5>1. v.idx \in Slot /\ dev[r].srq \in Seq(Slot)
          BY <1>1, <2>1 DEF Context, Device
        <5>2. QED  BY <5>1, WindowAssumption
      <4>2. refill_ids(v.idx, 0) \in Seq(Slot)
        BY <4>1, RefillType
      <4>3. QED  BY <4>1, <4>2
    <3>6. dev' \in [Rank -> Device]
      BY <1>1, <3>1, <3>5 DEF TypeInv, Device
    <3>7. QED  BY <1>2, <3>1, <3>4, <3>6 DEF TypeInv
  <2>5. CASE Head(ctx[r].todo).id = ctx[r].idx /\ v.len # 0
    <3>1. ctx' = [ctx EXCEPT ![r] = handled(v)] /\ UNCHANGED <<dev, stale>>
      BY <1>6, <2>5 DEF pp_on_recv, v
    <3> DEFINE h == handled(v)
    <3>2. h \in Context /\ h = [v EXCEPT !.pc = h.pc, !.todo = h.todo] /\ (h.pc = "handle" => h.todo # <<>>)
      BY <2>1, <2>2, HandledSound
    <3> HIDE DEF h
    <3>3. h.list = v.list /\ h.len = v.len /\ h.round = v.round
      BY <2>1, <3>2 DEF Context
    <3>4. v.len >= 1
      <4>1. v.len \in 0 .. W
        BY <2>1, Fields
      <4>2. QED  BY <2>5, <4>1
    <3>5. Sound(h)
      BY <1>1, <2>2, <3>2, <3>3, <3>4 DEF Sound
    <3>6. Sound(handled(v))
      BY <3>5 DEF h
    <3>7. QED  BY <1>2, <3>1, <3>6 DEF TypeInv
  <2>6. QED  BY <2>3, <2>4, <2>5
<1>7. ASSUME NEW r \in Rank, leave_loop(r)
      PROVE  TypeInv'
  <2>1. ctx' = [ctx EXCEPT ![r] = [ctx[r] EXCEPT !.pc = "flush"]] /\ UNCHANGED <<dev, stale>>
    BY <1>7 DEF leave_loop
  <2>2. Sound([ctx[r] EXCEPT !.pc = "flush"])
    BY <1>1 DEF Sound, Context
  <2>3. QED  BY <1>2, <2>1, <2>2 DEF TypeInv
<1>8. ASSUME NEW r \in Rank, pp_on_flush(r)
      PROVE  TypeInv'
  <2> DEFINE f == Refilled(ctx[r])
  <2>1. f \in Context /\ f = [ctx[r] EXCEPT !.len = W, !.list = f.list] /\ Len(f.list) = W
    BY <1>1, RefilledSound DEF Sound
  <2>2. /\ ctx' = [ctx EXCEPT ![r] = after_flush(r, f)] /\ stale' = stale
        /\ dev' = [dev EXCEPT ![r].srq = @ \o refill_ids(ctx[r].idx, ctx[r].len)]
    BY <1>8 DEF pp_on_flush
  <2> HIDE DEF f
  <2>3. f.round = ctx[r].round /\ f.len >= 1
    <3>1. f.round = ctx[r].round /\ f.len = W
      BY <1>1, <2>1 DEF Context
    <3>2. QED  BY <3>1, WindowAssumption
  <2>4. Sound(after_flush(r, f))
    BY <2>1, <2>3, AfterFlushSound
  <2>5. refill_ids(ctx[r].idx, ctx[r].len) \in Seq(Slot)
    BY <1>1, RefillType DEF Context
  <2>6. dev' \in [Rank -> Device]
    BY <2>2, <2>5, SrqType DEF TypeInv
  <2>7. QED  BY <1>2, <2>2, <2>4, <2>6 DEF TypeInv
<1>9. ASSUME NEW r \in Rank, pp_on_flush_full(r)
      PROVE  TypeInv'
  <2>1. CASE \E k \in 0 .. (IF stale = {} THEN Room ELSE 0) :
               /\ ctx' = [ctx EXCEPT ![r] = after_flush(r, @)]
               /\ dev' = [dev EXCEPT ![r].srq = @ \o SubSeq(ctx[r].list, 1, k)]
               /\ stale' = IF k = 0 THEN stale ELSE stale \cup {r}
    <3>1. PICK k \in 0 .. (IF stale = {} THEN Room ELSE 0) :
               /\ ctx' = [ctx EXCEPT ![r] = after_flush(r, @)]
               /\ dev' = [dev EXCEPT ![r].srq = @ \o SubSeq(ctx[r].list, 1, k)]
               /\ stale' = IF k = 0 THEN stale ELSE stale \cup {r}
      BY <2>1
    <3>2. SubSeq(ctx[r].list, 1, k) \in Seq(Slot)
      <4>1. k \in 0 .. W
        BY RoomAssumption, WindowAssumption
      <4>2. ctx[r].list \in Seq(Slot) /\ Len(ctx[r].list) = W
        BY <1>1, Fields DEF Sound
      <4>3. QED  BY <4>1, <4>2, SubSeqProperties, WindowAssumption
    <3>3. dev' \in [Rank -> Device]
      BY <3>1, <3>2, SrqType DEF TypeInv
    <3>4. Sound(after_flush(r, ctx[r]))
      BY <1>1, AfterFlushSound DEF Sound
    <3>5. QED  BY <1>2, <3>1, <3>3, <3>4 DEF TypeInv
  <2>2. CASE /\ ctx' = [ctx EXCEPT ![r].pc = "failed"]
             /\ stale' = stale \cup {r}
             /\ UNCHANGED dev
    <3>1. Sound([ctx[r] EXCEPT !.pc = "failed"])
      BY <1>1 DEF Sound, Context
    <3>2. QED  BY <1>2, <2>2, <3>1 DEF TypeInv
  <2>3. QED  BY <1>9, <2>1, <2>2 DEF pp_on_flush_full
<1>10. ASSUME NEW r \in Rank, leave_barrier(r)
      PROVE  TypeInv'
  <2> DEFINE label == IF benchmark(r) /\ ctx[r].round < rounds THEN "post" ELSE "done"
             round == IF benchmark(r) THEN ctx[r].round + 1 ELSE ctx[r].round
             c == [ctx[r] EXCEPT !.pc = label, !.round = round]
  <2>1. ctx' = [ctx EXCEPT ![r] = c] /\ UNCHANGED <<dev, stale>>
    BY <1>10 DEF leave_barrier
  <2>2. round \in Nat /\ round >= 1 /\ label \in {"post", "done"}
    BY <1>1 DEF Sound, Context
  <2> HIDE DEF label, round
  <2>3. Sound(c)
    <3>1. c \in Context
      BY <1>1, <2>2 DEF Context
    <3>2. c.list = ctx[r].list /\ c.len = ctx[r].len /\ c.round = round /\ c.pc = label
      BY <1>1 DEF Context
    <3>3. QED  BY <1>1, <2>2, <3>1, <3>2 DEF Sound
  <2>4. QED  BY <1>2, <2>1, <2>3 DEF TypeInv
<1>11. ASSUME NEW r \in Rank, hca_deliver(r)
      PROVE  TypeInv'
  <2> DEFINE o == other(r)
             wc == [op |-> "recv", id |-> Head(dev[o].srq)]
  <2>1. o \in Rank /\ o # r
    BY OtherRank
  <2>2. dev[o].srq \in Seq(Slot) /\ dev[o].srq # <<>>
    BY <1>1, <1>11, <2>1 DEF hca_deliver, Device
  <2>3. Head(dev[o].srq) \in Slot /\ Tail(dev[o].srq) \in Seq(Slot)
    BY <2>2
  <2>4. wc \in Wc
    BY <2>3 DEF Wc
  <2>5. dev' = [dev EXCEPT ![r].wire = @ - 1, ![r].acks = @ + 1,
                           ![o].srq = Tail(@), ![o].cq = Append(@, wc)]
    BY <1>11 DEF hca_deliver
  <2> HIDE DEF wc, o
  <2>6. dev[r].wire - 1 \in Nat /\ dev[r].acks + 1 \in Nat /\ Append(dev[o].cq, wc) \in Seq(Wc)
    <3>1. dev[r].wire \in Nat /\ dev[r].wire > 0 /\ dev[r].acks \in Nat
      BY <1>1, <1>11 DEF hca_deliver, Device
    <3>2. dev[o].cq \in Seq(Wc)
      BY <1>1, <2>1 DEF Device
    <3>3. QED  BY <2>4, <3>1, <3>2
  <2>7. dev' = [dev EXCEPT ![r] = [dev[r] EXCEPT !.wire = dev[r].wire - 1, !.acks = dev[r].acks + 1],
                           ![o] = [dev[o] EXCEPT !.srq = Tail(dev[o].srq), !.cq = Append(dev[o].cq, wc)]]
    BY <2>1, <2>5 DEF TypeInv
  <2>8. /\ [dev[r] EXCEPT !.wire = dev[r].wire - 1, !.acks = dev[r].acks + 1] \in Device
        /\ [dev[o] EXCEPT !.srq = Tail(dev[o].srq), !.cq = Append(dev[o].cq, wc)] \in Device
    BY <1>1, <2>1, <2>3, <2>6 DEF Device
  <2>9. dev' \in [Rank -> Device]
    BY <2>7, <2>8 DEF TypeInv
  <2>10. QED  BY <1>11, <2>9 DEF hca_deliver, TypeInv
<1>12. ASSUME NEW r \in Rank, hca_complete(r)
      PROVE  TypeInv'
  <2>1. [op |-> "send"] \in Wc
    BY DEF Wc
  <2>2. Append(dev[r].cq, [op |-> "send"]) \in Seq(Wc) /\ dev[r].acks - 1 \in Nat
    BY <1>1, <1>12, <2>1 DEF hca_complete, Device
  <2>3. dev' \in [Rank -> Device]
    BY <1>1, <1>12, <2>2 DEF hca_complete, TypeInv, Device
  <2>4. QED  BY <1>12, <2>3 DEF hca_complete, TypeInv
<1>13. CASE UNCHANGED vars
  BY <1>13 DEF vars, TypeInv
<1>14. QED  BY <1>3, <1>4, <1>5, <1>6, <1>7, <1>8, <1>9, <1>10, <1>11, <1>12, <1>13 DEF Next

(* The window, the lists and the queues of both ranks have their types in every *)
(* reachable state.                                                             *)
THEOREM TypeCorrect == Spec => []TypeOK
<1>1. TypeInv => TypeOK
  BY DEF TypeInv, TypeOK
<1>2. QED  BY <1>1, TypeInit, TypeStep, PTL DEF Spec

(****************************************************************************)
(* Counting the receives in a queue of completions.                          *)
(****************************************************************************)
LEMMA CountFinite ==
  ASSUME NEW s, NEW n \in Nat
  PROVE  IsFiniteSet(recvs(s, n)) /\ nrecvs(s, n) \in Nat
<1>1. IsFiniteSet(1 .. n) /\ recvs(s, n) \in SUBSET (1 .. n)
  BY FS_Interval DEF recvs
<1>2. IsFiniteSet(recvs(s, n))
  BY <1>1, FS_Subset
<1>3. QED  BY <1>2, FS_CardinalityType DEF nrecvs

LEMMA CountNone == \A s : nrecvs(s, 0) = 0
<1> SUFFICES ASSUME NEW s PROVE nrecvs(s, 0) = 0
  OBVIOUS
<1>1. recvs(s, 0) = {}
  BY DEF recvs
<1>2. QED  BY <1>1, FS_EmptySet DEF nrecvs

LEMMA CountMore ==
  ASSUME NEW s, NEW n \in Nat, s[n + 1].op = "recv"
  PROVE  nrecvs(s, n + 1) = nrecvs(s, n) + 1
<1>1. recvs(s, n + 1) = recvs(s, n) \cup {n + 1} /\ n + 1 \notin recvs(s, n)
  BY DEF recvs
<1>2. QED  BY <1>1, CountFinite, FS_AddElement DEF nrecvs

LEMMA CountSkip ==
  ASSUME NEW s, NEW n \in Nat, s[n + 1].op # "recv"
  PROVE  nrecvs(s, n + 1) = nrecvs(s, n)
<1>1. recvs(s, n + 1) = recvs(s, n)
  BY DEF recvs
<1>2. QED  BY <1>1 DEF nrecvs

LEMMA CountSame ==
  ASSUME NEW s, NEW u, NEW n \in Nat, \A j \in 1 .. n : s[j] = u[j]
  PROVE  recvs(s, n) = recvs(u, n) /\ nrecvs(s, n) = nrecvs(u, n)
BY DEF recvs, nrecvs

(* The first completion is taken off. *)
LEMMA CountTail ==
  ASSUME NEW s \in Seq(Wc), s # <<>>, NEW n \in Nat, n < Len(s)
  PROVE  nrecvs(Tail(s), n) = Cardinality(recvs(s, n + 1) \ {1})
<1> DEFINE S == recvs(Tail(s), n)
           U == recvs(s, n + 1) \ {1}
           f == [j \in S |-> j + 1]
<1>1. \A j \in 1 .. n : Tail(s)[j] = s[j + 1]
  BY TailOf
<1>2. \A j \in S : j \in Nat /\ j + 1 \in U
  BY <1>1 DEF recvs
<1>3. f \in [S -> U]
  BY <1>2
<1>4. \A i, j \in S : i # j => f[i] # f[j]
  BY <1>2
<1>5. \A k \in U : \E j \in S : f[j] = k
  <2> SUFFICES ASSUME NEW k \in U PROVE \E j \in S : f[j] = k
    OBVIOUS
  <2>1. k \in 1 .. n + 1 /\ k # 1 /\ s[k].op = "recv"
    BY DEF recvs
  <2>2. k - 1 \in 1 .. n /\ (k - 1) + 1 = k
    BY <2>1
  <2>3. Tail(s)[k - 1] = s[k]
    BY <1>1, <2>2
  <2>4. k - 1 \in S /\ f[k - 1] = k
    BY <2>1, <2>2, <2>3 DEF recvs
  <2>5. QED  BY <2>4
<1>6. f \in Bijection(S, U)
  BY <1>3, <1>4, <1>5 DEF Bijection, Injection, Surjection, IsInjective
<1>7. IsFiniteSet(S)
  BY CountFinite
<1>8. Cardinality(S) = Cardinality(U)
  BY <1>6, <1>7, FS_Bijection DEF ExistsBijection
<1>9. QED  BY <1>8 DEF nrecvs

LEMMA CountTailSend ==
  ASSUME NEW s \in Seq(Wc), s # <<>>, s[1].op # "recv", NEW n \in Nat, n < Len(s)
  PROVE  nrecvs(Tail(s), n) = nrecvs(s, n + 1)
<1>1. recvs(s, n + 1) \ {1} = recvs(s, n + 1)
  BY DEF recvs
<1>2. QED  BY <1>1, CountTail DEF nrecvs

LEMMA CountTailRecv ==
  ASSUME NEW s \in Seq(Wc), s # <<>>, s[1].op = "recv", NEW n \in Nat, n < Len(s)
  PROVE  nrecvs(Tail(s), n) = nrecvs(s, n + 1) - 1
<1>1. 1 \in recvs(s, n + 1) /\ n + 1 \in Nat
  BY DEF recvs
<1>2. Cardinality(recvs(s, n + 1) \ {1}) = Cardinality(recvs(s, n + 1)) - 1
  BY <1>1, CountFinite, FS_RemoveElement
<1>3. QED  BY <1>2, CountTail DEF nrecvs

(****************************************************************************)
(* The window and what is outstanding.                                       *)
(****************************************************************************)
(* The completions q and the queue srq hold the window of len buffers from idx. *)
Matches(q, srq, idx, len) ==
  /\ \A i \in recvs(q, Len(q)) : q[i].id = (idx + nrecvs(q, i - 1)) % W
  /\ \A i \in DOMAIN srq : srq[i] = (idx + (nrecvs(q, Len(q)) + i - 1)) % W
  /\ nrecvs(q, Len(q)) + Len(srq) = len

LEMMA AppendIs ==
  ASSUME NEW S, NEW q \in Seq(S), NEW e \in S
  PROVE  /\ Append(q, e) \in Seq(S) /\ Len(Append(q, e)) = Len(q) + 1 /\ Len(q) \in Nat
         /\ \A i \in 1 .. Len(q) : Append(q, e)[i] = q[i]
         /\ Append(q, e)[Len(q) + 1] = e
BY AppendProperties

LEMMA MatchesAppend ==
  ASSUME NEW q \in Seq(Wc), NEW e \in Wc, NEW i \in Nat, i <= Len(q)
  PROVE  nrecvs(Append(q, e), i) = nrecvs(q, i) /\ recvs(Append(q, e), i) = recvs(q, i)
<1>1. \A j \in 1 .. i : Append(q, e)[j] = q[j]
  BY AppendIs
<1>2. QED  BY <1>1, CountSame

(* A message takes the oldest receive. *)
LEMMA MatchesDeliver ==
  ASSUME NEW q \in Seq(Wc), NEW srq \in Seq(Slot), srq # <<>>, NEW idx \in Slot, NEW len \in Nat,
         Matches(q, srq, idx, len), NEW e \in Wc, e.op = "recv", e.id = Head(srq)
  PROVE  Matches(Append(q, e), Tail(srq), idx, len)
<1> DEFINE a == Append(q, e)
           n == Len(q)
<1>1. a \in Seq(Wc) /\ Len(a) = n + 1 /\ n \in Nat /\ a[n + 1] = e /\ \A i \in 1 .. n : a[i] = q[i]
  BY AppendIs
<1>2. \A i \in Nat : i <= n => nrecvs(a, i) = nrecvs(q, i)
  BY MatchesAppend
<1> DEFINE k == nrecvs(q, n)
<1>3. k \in Nat /\ nrecvs(a, n) = k
  BY <1>1, <1>2, CountFinite
<1>4. nrecvs(a, n + 1) = k + 1
  BY <1>1, <1>3, CountMore
<1>5. /\ Tail(srq) \in Seq(Slot) /\ Len(Tail(srq)) = Len(srq) - 1 /\ Len(srq) \in Nat /\ Len(srq) >= 1
      /\ \A i \in 1 .. Len(srq) - 1 : Tail(srq)[i] = srq[i + 1]
      /\ DOMAIN srq = 1 .. Len(srq) /\ DOMAIN Tail(srq) = 1 .. Len(Tail(srq))
  BY TailOf
<1>6. /\ \A i \in recvs(q, n) : q[i].id = (idx + nrecvs(q, i - 1)) % W
      /\ \A i \in 1 .. Len(srq) : srq[i] = (idx + (k + i - 1)) % W
      /\ k + Len(srq) = len
  BY <1>5 DEF Matches
<1> HIDE DEF a, n, k
<1>7. a[n + 1].id = (idx + k) % W
  <2>1. 1 \in 1 .. Len(srq) /\ k + 1 - 1 = k
    BY <1>3, <1>5
  <2>2. srq[1] = (idx + k) % W
    BY <1>6, <2>1
  <2>3. QED  BY <1>1, <2>2
<1>8. \A i \in recvs(a, n + 1) : a[i].id = (idx + nrecvs(a, i - 1)) % W
  <2> SUFFICES ASSUME NEW i \in recvs(a, n + 1) PROVE a[i].id = (idx + nrecvs(a, i - 1)) % W
    OBVIOUS
  <2>1. i \in 1 .. n + 1 /\ a[i].op = "recv"
    BY DEF recvs
  <2>2. CASE i = n + 1
    <3>1. i - 1 = n
      BY <1>1, <2>2
    <3>2. QED  BY <1>3, <1>7, <2>2, <3>1
  <2>3. CASE i # n + 1
    <3>1. i \in 1 .. n /\ i - 1 \in Nat /\ i - 1 <= n
      BY <1>1, <2>1, <2>3
    <3>2. a[i] = q[i] /\ nrecvs(a, i - 1) = nrecvs(q, i - 1)
      BY <1>1, <1>2, <3>1
    <3>3. i \in recvs(q, n)
      BY <2>1, <3>1, <3>2 DEF recvs
    <3>4. QED  BY <1>6, <3>2, <3>3
  <2>4. QED  BY <2>2, <2>3
<1>9. \A i \in 1 .. Len(srq) - 1 : Tail(srq)[i] = (idx + ((k + 1) + i - 1)) % W
  <2> SUFFICES ASSUME NEW i \in 1 .. Len(srq) - 1 PROVE Tail(srq)[i] = (idx + ((k + 1) + i - 1)) % W
    OBVIOUS
  <2>1. i + 1 \in 1 .. Len(srq) /\ (k + 1) + i - 1 = k + (i + 1) - 1
    BY <1>3, <1>5
  <2>2. srq[i + 1] = (idx + (k + (i + 1) - 1)) % W
    BY <1>6, <2>1
  <2>3. QED  BY <1>5, <2>1, <2>2
<1>10. (k + 1) + (Len(srq) - 1) = len
  BY <1>3, <1>5, <1>6
<1>11. Len(a) = n + 1
  BY <1>1
<1>12. QED  BY <1>4, <1>5, <1>8, <1>9, <1>10, <1>11 DEF Matches, a

(* A send completes. *)
LEMMA MatchesComplete ==
  ASSUME NEW q \in Seq(Wc), NEW srq \in Seq(Slot), NEW idx \in Slot, NEW len \in Nat,
         Matches(q, srq, idx, len), NEW e \in Wc, e.op = "send"
  PROVE  Matches(Append(q, e), srq, idx, len)
<1> DEFINE a == Append(q, e)
           n == Len(q)
<1>1. a \in Seq(Wc) /\ Len(a) = n + 1 /\ n \in Nat /\ a[n + 1] = e /\ \A i \in 1 .. n : a[i] = q[i]
  BY AppendIs
<1>2. \A i \in Nat : i <= n => nrecvs(a, i) = nrecvs(q, i) /\ recvs(a, i) = recvs(q, i)
  BY MatchesAppend
<1>3. nrecvs(a, n + 1) = nrecvs(q, n)
  <2>1. nrecvs(a, n) = nrecvs(q, n) /\ a[n + 1].op # "recv"
    BY <1>1, <1>2
  <2> HIDE DEF a, n
  <2>2. QED  BY <1>1, <2>1, CountSkip
<1>4. recvs(a, n + 1) = recvs(q, n)
  <2>1. recvs(a, n + 1) = recvs(a, n)
    BY <1>1 DEF recvs
  <2>2. QED  BY <1>1, <1>2, <2>1
<1>5. \A i \in recvs(q, n) : a[i] = q[i] /\ nrecvs(a, i - 1) = nrecvs(q, i - 1)
  <2> SUFFICES ASSUME NEW i \in recvs(q, n) PROVE a[i] = q[i] /\ nrecvs(a, i - 1) = nrecvs(q, i - 1)
    OBVIOUS
  <2>1. i \in 1 .. n /\ i - 1 \in Nat /\ i - 1 <= n
    BY <1>1 DEF recvs
  <2>2. QED  BY <1>1, <1>2, <2>1
<1> HIDE DEF a
<1>6. QED  BY <1>1, <1>3, <1>4, <1>5 DEF Matches, a

(* The first completion, of a send, is handled. *)
LEMMA MatchesSent ==
  ASSUME NEW q \in Seq(Wc), q # <<>>, q[1].op # "recv", NEW srq \in Seq(Slot), NEW idx \in Slot,
         NEW len \in Nat, Matches(q, srq, idx, len)
  PROVE  Matches(Tail(q), srq, idx, len)
<1> DEFINE a == Tail(q)
           n == Len(q) - 1
<1>1. Len(a) = n /\ n \in Nat /\ Len(q) = n + 1 /\ \A i \in 1 .. n : a[i] = q[i + 1]
  BY TailOf
<1>2. \A i \in Nat : i <= n => nrecvs(a, i) = nrecvs(q, i + 1)
  BY <1>1, CountTailSend
<1>3. nrecvs(a, n) = nrecvs(q, n + 1)
  BY <1>1, <1>2
<1> HIDE DEF a, n
<1>4. \A i \in recvs(a, n) : a[i].id = (idx + nrecvs(a, i - 1)) % W
  <2> SUFFICES ASSUME NEW i \in recvs(a, n) PROVE a[i].id = (idx + nrecvs(a, i - 1)) % W
    OBVIOUS
  <2>1. i \in 1 .. n /\ a[i].op = "recv" /\ i - 1 \in Nat /\ i - 1 <= n /\ (i - 1) + 1 = (i + 1) - 1 /\ i + 1 \in 1 .. n + 1
    BY <1>1 DEF recvs
  <2>2. a[i] = q[i + 1] /\ nrecvs(a, i - 1) = nrecvs(q, (i + 1) - 1)
    BY <1>1, <1>2, <2>1
  <2>3. i + 1 \in recvs(q, n + 1)
    BY <2>1, <2>2 DEF recvs
  <2>4. q[i + 1].id = (idx + nrecvs(q, (i + 1) - 1)) % W
    BY <1>1, <2>3 DEF Matches
  <2>5. QED  BY <2>2, <2>4
<1>5. QED  BY <1>1, <1>3, <1>4 DEF Matches, a

LEMMA SlotStep ==
  ASSUME NEW idx \in Slot, NEW k \in Nat, k < W
  PROVE  (((idx + 1) % W) + k) % W = (idx + (k + 1)) % W
<1>1. idx \in 0 .. W - 1 /\ W \in Nat /\ W >= 1
  BY WindowAssumption DEF Slot
<1>2. CASE idx + 1 < W
  <2>1. (idx + 1) % W = idx + 1
    BY <1>1, <1>2, ModLow
  <2>2. idx + (k + 1) = (idx + 1) + k
    BY <1>1
  <2>3. QED  BY <2>1, <2>2
<1>3. CASE idx + 1 = W
  <2>1. (idx + 1) % W = 0
    BY <1>1, <1>3, ModHigh
  <2>2. (0 + k) % W = k
    BY <1>1, ModLow
  <2>3. (idx + (k + 1)) % W = k
    BY <1>1, <1>3, ModHigh
  <2>4. QED  BY <2>1, <2>2, <2>3
<1>4. QED  BY <1>1, <1>2, <1>3

(* The first completion, of a receive, is handled: it is the one that is        *)
(* expected.                                                                    *)
LEMMA MatchesReceived ==
  ASSUME NEW q \in Seq(Wc), q # <<>>, q[1].op = "recv", NEW srq \in Seq(Slot), NEW idx \in Slot,
         NEW len \in 0 .. W, Matches(q, srq, idx, len)
  PROVE  q[1].id = idx /\ Matches(Tail(q), srq, (idx + 1) % W, len - 1)
<1> DEFINE a == Tail(q)
           n == Len(q) - 1
<1>1. Len(a) = n /\ n \in Nat /\ Len(q) = n + 1 /\ \A i \in 1 .. n : a[i] = q[i + 1]
  BY TailOf
<1>2. \A i \in Nat : i <= n => nrecvs(a, i) = nrecvs(q, i + 1) - 1 /\ nrecvs(a, i) \in Nat /\ nrecvs(q, i + 1) \in Nat
  BY <1>1, CountTailRecv, CountFinite
<1>3. /\ \A i \in Nat : i <= n => nrecvs(q, i + 1) = nrecvs(a, i) + 1 /\ nrecvs(a, i) \in Nat
      /\ nrecvs(q, n + 1) = nrecvs(a, n) + 1 /\ nrecvs(a, n) \in Nat
  BY <1>1, <1>2
<1> HIDE DEF a, n
<1>4. /\ \A i \in recvs(q, n + 1) : q[i].id = (idx + nrecvs(q, i - 1)) % W
      /\ \A i \in DOMAIN srq : srq[i] = (idx + (nrecvs(q, n + 1) + i - 1)) % W
      /\ nrecvs(q, n + 1) + Len(srq) = len /\ Len(srq) \in Nat /\ DOMAIN srq = 1 .. Len(srq)
  BY <1>1 DEF Matches
<1>5. W \in Nat /\ idx \in 0 .. W - 1
  BY WindowAssumption DEF Slot
<1>6. q[1].id = idx
  <2>1. 1 \in recvs(q, n + 1) /\ nrecvs(q, 1 - 1) = 0
    BY <1>1, CountNone DEF recvs
  <2>2. q[1].id = (idx + 0) % W
    BY <1>4, <2>1
  <2>3. idx + 0 = idx /\ idx % W = idx
    BY <1>5, ModLow
  <2>4. QED  BY <2>2, <2>3
<1>7. \A k \in Nat : k < W => (idx + (k + 1)) % W = (((idx + 1) % W) + k) % W
  BY SlotStep
<1>8. nrecvs(a, n) < W /\ nrecvs(a, n) + Len(srq) < W /\ nrecvs(a, n) + Len(srq) = len - 1
  <2> DEFINE b == nrecvs(a, n)
             e == Len(srq)
  <2>1. b \in Nat /\ e \in Nat /\ (b + 1) + e = len /\ len \in 0 .. W /\ W \in Nat
    BY <1>3, <1>4, <1>5
  <2> HIDE DEF b, e
  <2>2. b < W /\ b + e < W /\ b + e = len - 1
    BY <2>1
  <2>3. QED  BY <2>2 DEF b, e
<1>9. \A i \in recvs(a, n) : a[i].id = (((idx + 1) % W) + nrecvs(a, i - 1)) % W
  <2> SUFFICES ASSUME NEW i \in recvs(a, n) PROVE a[i].id = (((idx + 1) % W) + nrecvs(a, i - 1)) % W
    OBVIOUS
  <2>1. i \in 1 .. n /\ a[i].op = "recv" /\ i - 1 \in Nat /\ i - 1 <= n /\ (i - 1) + 1 = (i + 1) - 1 /\ i + 1 \in 1 .. n + 1
    BY <1>1 DEF recvs
  <2> DEFINE k == nrecvs(a, i - 1)
  <2>2. a[i] = q[i + 1] /\ nrecvs(q, (i + 1) - 1) = k + 1 /\ k \in Nat
    BY <1>1, <1>3, <2>1
  <2>3. i + 1 \in recvs(q, n + 1)
    BY <2>1, <2>2 DEF recvs
  <2>4. q[i + 1].id = (idx + (k + 1)) % W
    BY <1>4, <2>2, <2>3
  <2>5. k < W
    <3>1. recvs(a, i - 1) \in SUBSET recvs(a, n)
      BY <1>1, <2>1 DEF recvs
    <3>2. IsFiniteSet(recvs(a, n))
      BY <1>1, CountFinite
    <3>3. k <= nrecvs(a, n)
      BY <3>1, <3>2, FS_Subset DEF nrecvs
    <3>4. QED  BY <1>3, <1>5, <1>8, <2>2, <3>3
  <2> HIDE DEF k
  <2>6. QED  BY <1>7, <2>2, <2>4, <2>5 DEF k
<1>10. \A i \in 1 .. Len(srq) : srq[i] = (((idx + 1) % W) + (nrecvs(a, n) + i - 1)) % W
  <2> SUFFICES ASSUME NEW i \in 1 .. Len(srq) PROVE srq[i] = (((idx + 1) % W) + (nrecvs(a, n) + i - 1)) % W
    OBVIOUS
  <2> DEFINE k == nrecvs(a, n) + i - 1
  <2>1. k \in Nat /\ k < W /\ nrecvs(q, n + 1) + i - 1 = k + 1
    <3> DEFINE b == nrecvs(a, n)
               e == Len(srq)
    <3>1. b \in Nat /\ e \in Nat /\ b + e < W /\ nrecvs(q, n + 1) = b + 1 /\ i \in 1 .. e /\ W \in Nat
      BY <1>3, <1>4, <1>5, <1>8
    <3> HIDE DEF b, e
    <3>2. b + i - 1 \in Nat /\ b + i - 1 < W /\ (b + 1) + i - 1 = (b + i - 1) + 1
      BY <3>1
    <3>3. QED  BY <3>1, <3>2 DEF b
  <2>2. srq[i] = (idx + (k + 1)) % W
    BY <1>4, <2>1
  <2> HIDE DEF k
  <2>3. QED  BY <1>7, <2>1, <2>2 DEF k
<1>11. QED  BY <1>1, <1>4, <1>6, <1>8, <1>9, <1>10 DEF Matches, a

(* The buffers that were used are posted again. *)
LEMMA MatchesRefill ==
  ASSUME NEW q \in Seq(Wc), NEW srq \in Seq(Slot), NEW idx \in Slot, NEW len \in 0 .. W, Matches(q, srq, idx, len)
  PROVE  Matches(q, srq \o refill_ids(idx, len), idx, W)
<1> DEFINE l == refill_ids(idx, len)
           n == nrecvs(q, Len(q))
<1>1. /\ l \in Seq(Slot) /\ Len(l) = W - len
      /\ \A i \in 1 .. W - len : l[i] = (idx + len + i - 1) % W
  BY RefillType
<1>2. n \in Nat /\ Len(srq) \in Nat /\ n + Len(srq) = len /\ W \in Nat
  BY CountFinite, WindowAssumption DEF Matches
<1>3. \A i \in 1 .. Len(srq) : srq[i] = (idx + (n + i - 1)) % W
  BY DEF Matches
<1> HIDE DEF l, n
<1>4. /\ srq \o l \in Seq(Slot) /\ Len(srq \o l) = Len(srq) + Len(l)
      /\ \A i \in 1 .. Len(srq) + Len(l) : (srq \o l)[i] = IF i <= Len(srq) THEN srq[i] ELSE l[i - Len(srq)]
  BY <1>1, ConcatProperties
<1>5. \A i \in 1 .. Len(srq) + Len(l) : (srq \o l)[i] = (idx + (n + i - 1)) % W
  <2> SUFFICES ASSUME NEW i \in 1 .. Len(srq) + Len(l) PROVE (srq \o l)[i] = (idx + (n + i - 1)) % W
    OBVIOUS
  <2>1. CASE i <= Len(srq)
    BY <1>2, <1>3, <1>4, <2>1
  <2>2. CASE i > Len(srq)
    <3>1. i - Len(srq) \in 1 .. W - len /\ idx + len + (i - Len(srq)) - 1 = idx + (n + i - 1)
      <4> DEFINE e == Len(srq)
      <4>1. e \in Nat /\ i \in e + 1 .. e + (W - len) /\ n + e = len /\ idx \in Nat
        BY <1>1, <1>2, <2>2 DEF Slot
      <4> HIDE DEF e
      <4>2. i - e \in 1 .. W - len /\ idx + len + (i - e) - 1 = idx + (n + i - 1)
        BY <1>2, <4>1
      <4>3. QED  BY <4>2 DEF e
    <3>2. (srq \o l)[i] = l[i - Len(srq)]
      BY <1>2, <1>4, <2>2
    <3>3. QED  BY <1>1, <3>1, <3>2
  <2>3. QED  BY <1>2, <2>1, <2>2
<1>6. DOMAIN (srq \o l) = 1 .. Len(srq) + Len(l)
  BY <1>4
<1>7. n + (Len(srq) + Len(l)) = W
  <2> DEFINE e == Len(srq)
  <2>1. Len(l) = W - len /\ e \in Nat /\ n \in Nat /\ n + e = len /\ W \in Nat
    BY <1>1, <1>2
  <2> HIDE DEF e
  <2>2. n + (e + (W - len)) = W
    BY <2>1
  <2>3. QED  BY <2>1, <2>2 DEF e
<1>8. \A i \in recvs(q, Len(q)) : q[i].id = (idx + nrecvs(q, i - 1)) % W
  BY DEF Matches
<1>9. QED  BY <1>4, <1>5, <1>6, <1>7, <1>8 DEF Matches, l, n

(****************************************************************************)
(* The window tracks what is outstanding.                                    *)
(****************************************************************************)
Live(r) == ctx[r].pc # "failed" /\ r \notin stale
Tracked(r) == Matches(unhandled(r), dev[r].srq, ctx[r].idx, ctx[r].len)

LEMMA TracksIs == WindowTracks <=> \A r \in Rank : Live(r) => Tracked(r)
  BY DEF WindowTracks, Live, Tracked, Matches, slot

LEMMA UnhandledType ==
  ASSUME TypeInv, NEW r \in Rank
  PROVE  /\ unhandled(r) \in Seq(Wc) /\ dev[r].cq \in Seq(Wc) /\ dev[r].srq \in Seq(Slot)
         /\ ctx[r].todo \in Seq(Wc) /\ ctx[r].idx \in Slot /\ ctx[r].len \in 0 .. W /\ ctx[r].len \in Nat
<1>1. ctx[r] \in Context /\ dev[r] \in Device
  BY DEF TypeInv
<1>2. ctx[r].todo \in Seq(Wc) /\ dev[r].cq \in Seq(Wc) /\ dev[r].srq \in Seq(Slot)
      /\ ctx[r].idx \in Slot /\ ctx[r].len \in 0 .. W
  BY <1>1, Fields DEF Device
<1>3. unhandled(r) \in Seq(Wc)
  BY <1>2, ConcatProperties DEF unhandled
<1>4. QED  BY <1>2, <1>3

LEMMA TailConcat ==
  ASSUME NEW S, NEW a \in Seq(S), NEW b \in Seq(S), a # <<>>
  PROVE  a \o b # <<>> /\ (a \o b)[1] = Head(a) /\ Tail(a \o b) = Tail(a) \o b
<1>1. Len(a) \in Nat /\ Len(a) >= 1 /\ Len(b) \in Nat
  BY TailOf
<1>2. a \o b \in Seq(S) /\ Len(a \o b) = Len(a) + Len(b)
      /\ \A i \in 1 .. Len(a) + Len(b) : (a \o b)[i] = IF i <= Len(a) THEN a[i] ELSE b[i - Len(a)]
  BY ConcatProperties
<1>3. a \o b # <<>> /\ (a \o b)[1] = Head(a)
  <2>1. Len(a \o b) # 0 /\ Len(<<>>) = 0 /\ 1 \in 1 .. Len(a) + Len(b)
    BY <1>1, <1>2, EmptySeq
  <2>2. (a \o b)[1] = a[1] /\ Head(a) = a[1]
    BY <1>1, <1>2, <2>1
  <2>3. QED  BY <2>1, <2>2
<1>4. Tail(a \o b) = Tail(a) \o b
  <2>1. Tail(a) \in Seq(S) /\ Len(Tail(a)) = Len(a) - 1 /\ \A i \in 1 .. Len(a) - 1 : Tail(a)[i] = a[i + 1]
    BY TailOf
  <2>2. Tail(a) \o b \in Seq(S) /\ Len(Tail(a) \o b) = Len(Tail(a)) + Len(b)
        /\ \A i \in 1 .. Len(Tail(a)) + Len(b) : (Tail(a) \o b)[i] = IF i <= Len(Tail(a)) THEN Tail(a)[i] ELSE b[i - Len(Tail(a))]
    BY <2>1, ConcatProperties
  <2>3. Tail(a \o b) \in Seq(S) /\ Len(Tail(a \o b)) = Len(a \o b) - 1
        /\ \A i \in 1 .. Len(a \o b) - 1 : Tail(a \o b)[i] = (a \o b)[i + 1]
    BY <1>2, <1>3, TailOf
  <2> DEFINE m == Len(a)
             n == Len(b)
  <2>4. m \in Nat /\ m >= 1 /\ n \in Nat /\ Len(Tail(a)) = m - 1 /\ Len(a \o b) = m + n
    BY <1>1, <1>2, <2>1
  <2> HIDE DEF m, n
  <2>5. Len(Tail(a) \o b) = (m - 1) + n /\ Len(Tail(a \o b)) = (m + n) - 1
    BY <2>2, <2>3, <2>4 DEF n
  <2>6. \A i \in 1 .. (m + n) - 1 : Tail(a \o b)[i] = (Tail(a) \o b)[i]
    <3> SUFFICES ASSUME NEW i \in 1 .. (m + n) - 1 PROVE Tail(a \o b)[i] = (Tail(a) \o b)[i]
      OBVIOUS
    <3>1. i \in Nat /\ i >= 1 /\ i \in 1 .. (m - 1) + n /\ i + 1 \in 1 .. m + n /\ (i <= m - 1 \/ ~(i <= m - 1))
      BY <2>4
    <3>2. Tail(a \o b)[i] = (a \o b)[i + 1] /\ (Tail(a) \o b)[i] = IF i <= m - 1 THEN Tail(a)[i] ELSE b[i - (m - 1)]
      BY <2>2, <2>3, <2>4, <3>1 DEF n
    <3>3. (a \o b)[i + 1] = IF i + 1 <= m THEN a[i + 1] ELSE b[(i + 1) - m]
      BY <1>2, <3>1 DEF m, n
    <3>4. CASE i <= m - 1
      <4>1. i + 1 <= m /\ i \in 1 .. m - 1
        BY <2>4, <3>1, <3>4
      <4>2. Tail(a)[i] = a[i + 1]
        BY <2>1, <4>1 DEF m
      <4>3. QED  BY <3>2, <3>3, <3>4, <4>1, <4>2
    <3>5. CASE ~(i <= m - 1)
      <4>1. ~(i + 1 <= m) /\ (i + 1) - m = i - (m - 1)
        BY <2>4, <3>1, <3>5
      <4>2. QED  BY <3>2, <3>3, <3>5, <4>1
    <3>6. QED  BY <3>1, <3>4, <3>5
  <2>7. (m - 1) + n = (m + n) - 1
    BY <2>4
  <2>8. QED  BY <2>2, <2>3, <2>5, <2>6, <2>7, SeqEqual
<1>5. QED  BY <1>3, <1>4

(* A process handles the first of its completions. *)
LEMMA HandledUnhandled ==
  ASSUME TypeInv, NEW r \in Rank, ctx[r].pc = "handle", NEW c \in Context, c.todo = ctx[r].todo
  PROVE  /\ unhandled(r) # <<>> /\ unhandled(r)[1] = Head(ctx[r].todo)
         /\ (IF handled(c).pc = "handle" THEN handled(c).todo \o dev[r].cq ELSE dev[r].cq) = Tail(unhandled(r))
<1>1. ctx[r].todo \in Seq(Wc) /\ dev[r].cq \in Seq(Wc) /\ ctx[r].todo # <<>>
  BY UnhandledType DEF TypeInv, Sound
<1>2. unhandled(r) = ctx[r].todo \o dev[r].cq
  BY DEF unhandled
<1>3. /\ unhandled(r) # <<>> /\ unhandled(r)[1] = Head(ctx[r].todo)
      /\ Tail(unhandled(r)) = Tail(ctx[r].todo) \o dev[r].cq
  <2> DEFINE a == ctx[r].todo
             b == dev[r].cq
  <2>1. a \in Seq(Wc) /\ b \in Seq(Wc) /\ a # <<>>
    BY <1>1
  <2> HIDE DEF a, b
  <2>2. a \o b # <<>> /\ (a \o b)[1] = Head(a) /\ Tail(a \o b) = Tail(a) \o b
    BY <2>1, TailConcat
  <2>3. QED  BY <1>2, <2>2 DEF a, b
<1>4. /\ handled(c).todo = Tail(c.todo)
      /\ (handled(c).pc = "handle" /\ Tail(c.todo) # <<>>) \/ (handled(c).pc = "loop" /\ Tail(c.todo) = <<>>)
  BY <1>1, HandledSound
<1>5. CASE handled(c).pc = "handle"
  BY <1>3, <1>4, <1>5
<1>6. CASE handled(c).pc = "loop" /\ Tail(c.todo) = <<>>
  <2>1. <<>> \o dev[r].cq = dev[r].cq
    BY <1>1, ConcatEmptySeq
  <2>2. QED  BY <1>3, <1>6, <2>1
<1>7. QED  BY <1>3, <1>4, <1>5, <1>6

LEMMA ConcatAppend ==
  ASSUME NEW S, NEW a \in Seq(S), NEW b \in Seq(S), NEW e \in S
  PROVE  a \o Append(b, e) = Append(a \o b, e)
<1>1. <<e>> \in Seq(S) /\ a \o b \in Seq(S)
  BY ConcatProperties
<1>2. Append(b, e) = b \o <<e>> /\ Append(a \o b, e) = (a \o b) \o <<e>>
  BY <1>1, AppendIsConcat
<1>3. (a \o b) \o <<e>> = a \o (b \o <<e>>)
  BY <1>1, ConcatAssociative
<1>4. QED  BY <1>2, <1>3

(* What a rank that does not move, and whose queues do not, has outstanding.    *)
LEMMA TrackedFrame ==
  ASSUME WindowTracks, NEW s \in Rank, ctx'[s] = ctx[s], dev'[s] = dev[s], stale \subseteq stale'
  PROVE  Live(s)' => Tracked(s)'
<1>1. Live(s)' => Live(s)
  BY DEF Live
<1>2. Live(s) => Tracked(s)
  BY TracksIs
<1>3. unhandled(s)' = unhandled(s)
  BY DEF unhandled
<1>4. Tracked(s)' <=> Tracked(s)
  BY <1>3 DEF Tracked
<1>5. QED  BY <1>1, <1>2, <1>4

LEMMA TrackedNow ==
  ASSUME WindowTracks, NEW r \in Rank, Live(r)' => Live(r), Live(r)'
  PROVE  Matches(unhandled(r), dev[r].srq, ctx[r].idx, ctx[r].len)
BY TracksIs DEF Tracked

LEMMA TracksPrime ==
  ASSUME \A s \in Rank : Live(s)' => Tracked(s)'
  PROVE  WindowTracks'
BY DEF WindowTracks, Live, Tracked, Matches, slot

LEMMA TracksStep ==
  ASSUME TypeInv, WindowTracks, [Next]_vars
  PROVE  WindowTracks'
<1>1. \A s \in Rank : ctx[s] \in Context /\ Sound(ctx[s]) /\ dev[s] \in Device
  BY DEF TypeInv
<1>2. ASSUME NEW r \in Rank, NEW c, ctx' = [ctx EXCEPT ![r] = c], stale \subseteq stale',
             \A s \in Rank \ {r} : dev'[s] = dev[s],
             Live(r)' => Matches(IF c.pc = "handle" THEN c.todo \o dev'[r].cq ELSE dev'[r].cq, dev'[r].srq, c.idx, c.len)
      PROVE  WindowTracks'
  <2>1. ctx'[r] = c /\ \A s \in Rank \ {r} : ctx'[s] = ctx[s]
    BY <1>2 DEF TypeInv
  <2>2. \A s \in Rank \ {r} : Live(s)' => Tracked(s)'
    BY <1>2, <2>1, TrackedFrame
  <2>3. unhandled(r)' = IF c.pc = "handle" THEN c.todo \o dev'[r].cq ELSE dev'[r].cq
    BY <2>1 DEF unhandled
  <2>4. Tracked(r)' = Matches(unhandled(r)', dev'[r].srq, c.idx, c.len)
    BY <2>1 DEF Tracked
  <2>5. Live(r)' => Tracked(r)'
    BY <1>2, <2>3, <2>4
  <2>6. QED  BY <2>2, <2>5, TracksPrime
<1>3. ASSUME NEW r \in Rank, pp_post_send(r)
      PROVE  WindowTracks'
  <2> DEFINE c == [ctx[r] EXCEPT !.pc = "loop", !.scnt = 0, !.rcnt = 0]
  <2>1. ctx' = [ctx EXCEPT ![r] = c] /\ stale' = stale /\ \A s \in Rank : dev'[s].cq = dev[s].cq /\ dev'[s].srq = dev[s].srq
    BY <1>1, <1>3 DEF pp_post_send, TypeInv, Device
  <2>2. \A s \in Rank \ {r} : dev'[s] = dev[s]
    BY <1>3 DEF pp_post_send, TypeInv
  <2>3. c.pc = "loop" /\ c.idx = ctx[r].idx /\ c.len = ctx[r].len /\ ctx[r].pc = "post"
    BY <1>1, <1>3 DEF Context, pp_post_send
  <2> HIDE DEF c
  <2>4. unhandled(r) = dev[r].cq /\ (Live(r)' => Live(r))
    BY <2>1, <2>3 DEF unhandled, Live
  <2>5. QED  BY <1>2, <2>1, <2>2, <2>3, <2>4, TrackedNow
<1>4. ASSUME NEW r \in Rank, poll_cq(r)
      PROVE  WindowTracks'
  <2> DEFINE q == dev[r].cq
             n == IF Len(q) < Batch THEN Len(q) ELSE Batch
             c == [ctx[r] EXCEPT !.pc = "handle", !.todo = SubSeq(q, 1, n)]
  <2>1. q \in Seq(Wc) /\ q # <<>>
    BY <1>4, UnhandledType DEF poll_cq
  <2>2. Len(q) \in Nat /\ n \in Nat /\ n >= 1 /\ n <= Len(q)
    BY <2>1, TailOf, BatchAssumption
  <2>3. /\ ctx' = [ctx EXCEPT ![r] = c] /\ stale' = stale
        /\ dev' = [dev EXCEPT ![r].cq = SubSeq(q, n + 1, Len(q))]
    BY <1>4 DEF poll_cq
  <2> HIDE DEF q, n
  <2>4. /\ dev'[r].cq = SubSeq(q, n + 1, Len(q)) /\ dev'[r].srq = dev[r].srq
        /\ \A s \in Rank \ {r} : dev'[s] = dev[s]
    BY <1>1, <2>3 DEF TypeInv, Device
  <2>5. c.pc = "handle" /\ c.todo = SubSeq(q, 1, n) /\ c.idx = ctx[r].idx /\ c.len = ctx[r].len /\ ctx[r].pc = "loop"
    BY <1>1, <1>4 DEF Context, poll_cq
  <2> HIDE DEF c
  <2>6. SubSeq(q, 1, n) \o SubSeq(q, n + 1, Len(q)) = q
    <3>1. SubSeq(q, 1, n) \o SubSeq(q, n + 1, Len(q)) = SubSeq(q, 1, Len(q))
      BY <2>1, <2>2, ConcatAdjacentSubSeq
    <3>2. QED  BY <2>1, <3>1, SubSeqFull
  <2>7. unhandled(r) = q /\ (Live(r)' => Live(r))
    BY <2>3, <2>5 DEF unhandled, Live, q
  <2>8. QED  BY <1>2, <2>3, <2>4, <2>5, <2>6, <2>7, TrackedNow
<1>5. ASSUME NEW r \in Rank, on_send(r)
      PROVE  WindowTracks'
  <2> DEFINE h == handled(ctx[r])
             scnt == ctx[r].scnt + 1
             enters == ~benchmark(r) /\ scnt = num_sent(r)
             barriers == IF enters THEN ctx[r].barriers + 1 ELSE ctx[r].barriers
             c == [h EXCEPT !.scnt = scnt, !.barriers = barriers]
  <2>1. /\ ctx' = [ctx EXCEPT ![r] = c] /\ dev' = dev /\ stale' = stale
        /\ ctx[r].pc = "handle" /\ Head(ctx[r].todo).op = "send" /\ ctx[r].todo # <<>>
    BY <1>1, <1>5 DEF on_send, Sound
  <2>2. h \in Context /\ h = [ctx[r] EXCEPT !.pc = h.pc, !.todo = h.todo]
    BY <1>1, <2>1, HandledSound
  <2>3. /\ unhandled(r) # <<>> /\ unhandled(r)[1] = Head(ctx[r].todo)
        /\ (IF h.pc = "handle" THEN h.todo \o dev[r].cq ELSE dev[r].cq) = Tail(unhandled(r))
    BY <1>1, <2>1, HandledUnhandled
  <2> HIDE DEF h, scnt, barriers
  <2>4. c.pc = h.pc /\ c.todo = h.todo /\ c.idx = ctx[r].idx /\ c.len = ctx[r].len
    BY <1>1, <2>2 DEF Context
  <2> HIDE DEF c
  <2>5. Live(r)' => Live(r)
    BY <2>1 DEF Live
  <2>6. ASSUME Live(r)' PROVE Matches(Tail(unhandled(r)), dev[r].srq, ctx[r].idx, ctx[r].len)
    <3>1. Matches(unhandled(r), dev[r].srq, ctx[r].idx, ctx[r].len)
      BY <2>5, <2>6, TrackedNow
    <3>2. unhandled(r)[1].op # "recv"
      BY <2>1, <2>3
    <3>3. QED  BY <2>3, <3>1, <3>2, UnhandledType, MatchesSent
  <2>7. QED  BY <1>2, <2>1, <2>3, <2>4, <2>6
<1>6. ASSUME NEW r \in Rank, pp_on_recv(r)
      PROVE  WindowTracks'
  <2> DEFINE v == Received(ctx[r])
             f == Refilled(v)
             q == unhandled(r)
  <2>1. ctx[r].pc = "handle" /\ Head(ctx[r].todo).op = "recv" /\ ctx[r].todo # <<>> /\ stale' = stale
    BY <1>1, <1>6 DEF pp_on_recv, Sound
  <2>2. v \in Context /\ v = [ctx[r] EXCEPT !.idx = (ctx[r].idx + 1) % W, !.len = ctx[r].len - 1, !.rcnt = ctx[r].rcnt + 1]
    BY <1>1, ReceivedType DEF Sound
  <2> HIDE DEF v
  <2>3. v.todo = ctx[r].todo /\ v.idx = (ctx[r].idx + 1) % W /\ v.len = ctx[r].len - 1 /\ v.list = ctx[r].list
    BY <1>1, <2>2 DEF Context
  <2>4. q # <<>> /\ q[1] = Head(ctx[r].todo) /\ q \in Seq(Wc)
    BY <1>1, <2>1, HandledUnhandled, UnhandledType
  <2>5. Live(r)' => Live(r)
    BY <2>1 DEF Live
  <2>6. Live(r)' => q[1].id = ctx[r].idx /\ Matches(Tail(q), dev[r].srq, v.idx, v.len)
    <3> SUFFICES ASSUME Live(r)' PROVE q[1].id = ctx[r].idx /\ Matches(Tail(q), dev[r].srq, v.idx, v.len)
      OBVIOUS
    <3>1. Matches(q, dev[r].srq, ctx[r].idx, ctx[r].len)
      BY <2>5, TrackedNow
    <3>2. q[1].op = "recv"
      BY <2>1, <2>4
    <3> HIDE DEF q
    <3>3. q[1].id = ctx[r].idx /\ Matches(Tail(q), dev[r].srq, (ctx[r].idx + 1) % W, ctx[r].len - 1)
      BY <2>4, <3>1, <3>2, UnhandledType, MatchesReceived
    <3>4. QED  BY <2>3, <3>3
  <2> HIDE DEF q
  <2>7. CASE Head(ctx[r].todo).id # ctx[r].idx
    <3>1. ctx' = [ctx EXCEPT ![r] = [ctx[r] EXCEPT !.pc = "failed"]] /\ dev' = dev
      BY <1>6, <2>7 DEF pp_on_recv
    <3>2. ctx'[r].pc = "failed"
      BY <1>1, <3>1 DEF TypeInv, Context
    <3>3. ~Live(r)'
      BY <3>2 DEF Live
    <3>4. QED  BY <1>2, <2>1, <3>1, <3>3
  <2>8. CASE Head(ctx[r].todo).id = ctx[r].idx /\ v.len # 0
    <3> DEFINE h == handled(v)
    <3>1. ctx' = [ctx EXCEPT ![r] = h] /\ dev' = dev
      BY <1>6, <2>8 DEF pp_on_recv, v
    <3>2. h \in Context /\ h = [v EXCEPT !.pc = h.pc, !.todo = h.todo]
      BY <2>1, <2>2, <2>3, HandledSound
    <3>3. (IF h.pc = "handle" THEN h.todo \o dev[r].cq ELSE dev[r].cq) = Tail(q)
      BY <2>1, <2>2, <2>3, HandledUnhandled DEF q
    <3> HIDE DEF h
    <3>4. h.idx = v.idx /\ h.len = v.len
      BY <2>2, <3>2 DEF Context
    <3>5. QED  BY <1>2, <2>1, <2>6, <3>1, <3>3, <3>4
  <2>9. CASE Head(ctx[r].todo).id = ctx[r].idx /\ v.len = 0
    <3> DEFINE h == handled(f)
    <3>1. /\ ctx' = [ctx EXCEPT ![r] = h]
          /\ dev' = [dev EXCEPT ![r].srq = @ \o refill_ids(v.idx, 0)]
      BY <1>6, <2>9 DEF pp_on_recv, v
    <3>2. f \in Context /\ f = [v EXCEPT !.len = W, !.list = f.list]
      BY <1>1, <2>2, <2>3, RefilledSound DEF Sound
    <3> HIDE DEF f
    <3>3. f.todo = ctx[r].todo /\ f.idx = v.idx /\ f.len = W
      BY <2>2, <2>3, <3>2 DEF Context
    <3>4. h \in Context /\ h = [f EXCEPT !.pc = h.pc, !.todo = h.todo]
      BY <2>1, <3>2, <3>3, HandledSound
    <3>5. (IF h.pc = "handle" THEN h.todo \o dev[r].cq ELSE dev[r].cq) = Tail(q)
      BY <2>1, <3>2, <3>3, HandledUnhandled DEF q
    <3> HIDE DEF h
    <3>6. h.idx = v.idx /\ h.len = W
      BY <3>2, <3>3, <3>4 DEF Context
    <3>7. v.idx \in Slot /\ 0 \in 0 .. W /\ refill_ids(v.idx, 0) \in Seq(Slot)
      <4>1. v.idx \in Slot /\ 0 \in 0 .. W
        <5>1. v.idx \in Slot
          BY <2>2, Fields
        <5>2. QED  BY <5>1, WindowAssumption
      <4>2. QED  BY <4>1, RefillType
    <3>8. /\ dev'[r].srq = dev[r].srq \o refill_ids(v.idx, 0) /\ dev'[r].cq = dev[r].cq
          /\ \A s \in Rank \ {r} : dev'[s] = dev[s]
      BY <3>1, <3>7, SrqType DEF TypeInv
    <3>9. ASSUME Live(r)' PROVE Matches(Tail(q), dev[r].srq \o refill_ids(v.idx, 0), v.idx, W)
      <4>1. Matches(Tail(q), dev[r].srq, v.idx, 0)
        BY <2>6, <2>9, <3>9
      <4>2. Tail(q) \in Seq(Wc)
        BY <2>4, TailOf
      <4>3. QED  BY <3>7, <4>1, <4>2, UnhandledType, MatchesRefill
    <3>10. QED  BY <1>2, <2>1, <3>1, <3>5, <3>6, <3>8, <3>9
  <2>10. QED  BY <2>7, <2>8, <2>9
<1>7. ASSUME NEW r \in Rank, leave_loop(r)
      PROVE  WindowTracks'
  <2> DEFINE c == [ctx[r] EXCEPT !.pc = "flush"]
  <2>1. ctx' = [ctx EXCEPT ![r] = c] /\ UNCHANGED <<dev, stale>> /\ ctx[r].pc = "loop"
    BY <1>7 DEF leave_loop
  <2>2. c.pc = "flush" /\ c.idx = ctx[r].idx /\ c.len = ctx[r].len
    BY <1>1 DEF Context
  <2> HIDE DEF c
  <2>3. unhandled(r) = dev[r].cq /\ (Live(r)' => Live(r))
    BY <2>1 DEF unhandled, Live
  <2>4. QED  BY <1>2, <2>1, <2>2, <2>3, TrackedNow
<1>8. ASSUME NEW r \in Rank, pp_on_flush(r)
      PROVE  WindowTracks'
  <2> DEFINE f == Refilled(ctx[r])
             c == after_flush(r, f)
             l == refill_ids(ctx[r].idx, ctx[r].len)
  <2>1. ctx' = [ctx EXCEPT ![r] = c] /\ dev' = [dev EXCEPT ![r].srq = @ \o l] /\ stale' = stale /\ ctx[r].pc = "flush"
    BY <1>8 DEF pp_on_flush
  <2>2. f \in Context /\ f = [ctx[r] EXCEPT !.len = W, !.list = f.list] /\ Len(f.list) = W
    BY <1>1, RefilledSound DEF Sound
  <2> HIDE DEF f
  <2>3. f.len = W /\ f.round = ctx[r].round /\ f.idx = ctx[r].idx
    BY <1>1, <2>2 DEF Context
  <2>4. c.pc \in {"barrier", "post"} /\ c.idx = ctx[r].idx /\ c.len = W
    BY <2>2, <2>3, AfterFlushSound, WindowAssumption
  <2>5. l \in Seq(Slot)
    BY UnhandledType, RefillType
  <2> HIDE DEF c, l
  <2>6. /\ dev'[r].srq = dev[r].srq \o l /\ dev'[r].cq = dev[r].cq
        /\ \A s \in Rank \ {r} : dev'[s] = dev[s]
    BY <2>1, <2>5, SrqType DEF TypeInv
  <2>7. unhandled(r) = dev[r].cq /\ (Live(r)' => Live(r))
    BY <2>1 DEF unhandled, Live
  <2>8. ASSUME Live(r)' PROVE Matches(dev[r].cq, dev[r].srq \o l, ctx[r].idx, W)
    <3>1. Matches(dev[r].cq, dev[r].srq, ctx[r].idx, ctx[r].len)
      BY <2>7, <2>8, TrackedNow
    <3>2. QED  BY <3>1, UnhandledType, MatchesRefill DEF l
  <2>9. QED  BY <1>2, <2>1, <2>4, <2>6, <2>8
<1>9. ASSUME NEW r \in Rank, pp_on_flush_full(r)
      PROVE  WindowTracks'
  <2>1. CASE \E k \in 0 .. (IF stale = {} THEN Room ELSE 0) :
               /\ ctx' = [ctx EXCEPT ![r] = after_flush(r, @)]
               /\ dev' = [dev EXCEPT ![r].srq = @ \o SubSeq(ctx[r].list, 1, k)]
               /\ stale' = IF k = 0 THEN stale ELSE stale \cup {r}
    <3>1. PICK k \in 0 .. (IF stale = {} THEN Room ELSE 0) :
               /\ ctx' = [ctx EXCEPT ![r] = after_flush(r, @)]
               /\ dev' = [dev EXCEPT ![r].srq = @ \o SubSeq(ctx[r].list, 1, k)]
               /\ stale' = IF k = 0 THEN stale ELSE stale \cup {r}
      BY <2>1
    <3>2. SubSeq(ctx[r].list, 1, k) \in Seq(Slot) /\ (k = 0 => SubSeq(ctx[r].list, 1, k) = <<>>)
      <4>1. k \in 0 .. W
        BY RoomAssumption, WindowAssumption
      <4>2. ctx[r].list \in Seq(Slot) /\ Len(ctx[r].list) = W
        BY <1>1, Fields DEF Sound
      <4> DEFINE l == ctx[r].list
      <4>3. \A i \in 1 .. k : l[i] \in Slot
        <5>1. l \in Seq(Slot) /\ Len(l) = W
          BY <4>2
        <5> HIDE DEF l
        <5>2. \A i \in 1 .. k : i \in 1 .. Len(l)
          BY <4>1, <5>1, WindowAssumption
        <5>3. QED  BY <5>1, <5>2, ElementOfSeq
      <4>4. k \in Int /\ 1 \in Int /\ (k = 0 => k < 1)
        BY <4>1, WindowAssumption
      <4> HIDE DEF l
      <4>5. SubSeq(l, 1, k) \in Seq(Slot) /\ (k = 0 => SubSeq(l, 1, k) = <<>>)
        BY <4>3, <4>4, SubSeqProperties, SubSeqEmpty
      <4>6. QED  BY <4>5 DEF l
    <3>3. /\ dev'[r].srq = dev[r].srq \o SubSeq(ctx[r].list, 1, k) /\ dev'[r].cq = dev[r].cq
          /\ \A s \in Rank \ {r} : dev'[s] = dev[s]
      BY <3>1, <3>2, SrqType DEF TypeInv
    <3> DEFINE c == after_flush(r, ctx[r])
    <3>4. c.pc \in {"barrier", "post"} /\ c.idx = ctx[r].idx /\ c.len = ctx[r].len
      BY <1>1, AfterFlushSound DEF Sound
    <3>5. ctx' = [ctx EXCEPT ![r] = c] /\ stale \subseteq stale' /\ ctx[r].pc = "flush"
      BY <1>9, <3>1 DEF pp_on_flush_full
    <3> HIDE DEF c
    <3>6. unhandled(r) = dev[r].cq /\ (Live(r)' => Live(r) /\ k = 0)
      BY <3>1, <3>5 DEF unhandled, Live
    <3>7. ASSUME Live(r)' PROVE Matches(dev'[r].cq, dev'[r].srq, ctx[r].idx, ctx[r].len)
      <4>1. dev'[r].srq = dev[r].srq
        BY <3>2, <3>3, <3>6, <3>7, UnhandledType, ConcatEmptySeq
      <4>2. QED  BY <3>3, <3>6, <3>7, <4>1, TrackedNow
    <3>8. QED  BY <1>2, <3>3, <3>4, <3>5, <3>7
  <2>2. CASE /\ ctx' = [ctx EXCEPT ![r].pc = "failed"]
             /\ stale' = stale \cup {r}
             /\ UNCHANGED dev
    <3>1. ctx' = [ctx EXCEPT ![r] = [ctx[r] EXCEPT !.pc = "failed"]] /\ ~Live(r)'
      BY <2>2 DEF Live
    <3>2. QED  BY <1>2, <2>2, <3>1
  <2>3. QED  BY <1>9, <2>1, <2>2 DEF pp_on_flush_full
<1>10. ASSUME NEW r \in Rank, leave_barrier(r)
      PROVE  WindowTracks'
  <2> DEFINE label == IF benchmark(r) /\ ctx[r].round < rounds THEN "post" ELSE "done"
             round == IF benchmark(r) THEN ctx[r].round + 1 ELSE ctx[r].round
             c == [ctx[r] EXCEPT !.pc = label, !.round = round]
  <2>1. ctx' = [ctx EXCEPT ![r] = c] /\ UNCHANGED <<dev, stale>> /\ ctx[r].pc = "barrier"
    BY <1>10 DEF leave_barrier
  <2>2. label # "handle" /\ label # "failed"
    OBVIOUS
  <2> HIDE DEF label, round
  <2>3. c.pc = label /\ c.idx = ctx[r].idx /\ c.len = ctx[r].len
    BY <1>1 DEF Context
  <2> HIDE DEF c
  <2>4. unhandled(r) = dev[r].cq /\ (Live(r)' => Live(r))
    BY <2>1 DEF unhandled, Live
  <2>5. QED  BY <1>2, <2>1, <2>2, <2>3, <2>4, TrackedNow
<1>11. ASSUME NEW r \in Rank, hca_deliver(r)
      PROVE  WindowTracks'
  <2> DEFINE o == other(r)
             wc == [op |-> "recv", id |-> Head(dev[o].srq)]
  <2>1. o \in Rank /\ o # r /\ \A s \in Rank : s = r \/ s = o
    BY OtherRank DEF Rank, other
  <2>2. dev[o].srq \in Seq(Slot) /\ dev[o].srq # <<>> /\ dev[o].cq \in Seq(Wc) /\ ctx' = ctx /\ stale' = stale
    BY <1>11, <2>1, UnhandledType DEF hca_deliver
  <2>3. wc \in Wc /\ wc.op = "recv" /\ wc.id = Head(dev[o].srq)
    <3>1. Head(dev[o].srq) \in Slot
      BY <2>2
    <3>2. QED  BY <3>1 DEF Wc
  <2>4. dev' = [dev EXCEPT ![r].wire = @ - 1, ![r].acks = @ + 1,
                           ![o].srq = Tail(@), ![o].cq = Append(@, wc)]
    BY <1>11 DEF hca_deliver
  <2> HIDE DEF wc, o
  <2>5. /\ dev'[r].srq = dev[r].srq /\ dev'[r].cq = dev[r].cq
        /\ dev'[o].srq = Tail(dev[o].srq) /\ dev'[o].cq = Append(dev[o].cq, wc)
    BY <1>1, <2>1, <2>4 DEF TypeInv, Device
  <2>6. Live(r)' => Tracked(r)'
    <3>1. unhandled(r)' = unhandled(r)
      BY <2>2, <2>5 DEF unhandled
    <3>2. (Live(r)' => Live(r)) /\ (Tracked(r)' <=> Tracked(r))
      BY <2>2, <2>5, <3>1 DEF Live, Tracked
    <3>3. QED  BY <3>2, TracksIs
  <2>7. Live(o)' => Tracked(o)'
    <3>1. unhandled(o)' = Append(unhandled(o), wc)
      <4>1. CASE ctx[o].pc = "handle"
        <5>1. unhandled(o) = ctx[o].todo \o dev[o].cq /\ unhandled(o)' = ctx[o].todo \o Append(dev[o].cq, wc)
          BY <2>2, <2>5, <4>1 DEF unhandled
        <5>2. ctx[o].todo \in Seq(Wc)
          BY <2>1, UnhandledType
        <5>3. ctx[o].todo \o Append(dev[o].cq, wc) = Append(ctx[o].todo \o dev[o].cq, wc)
          <6> DEFINE a == ctx[o].todo
                     b == dev[o].cq
          <6>1. a \in Seq(Wc) /\ b \in Seq(Wc)
            BY <2>2, <2>3, <5>2
          <6> HIDE DEF a, b
          <6>2. a \o Append(b, wc) = Append(a \o b, wc)
            BY <2>3, <6>1, ConcatAppend
          <6>3. QED  BY <6>2 DEF a, b
        <5>4. QED  BY <5>1, <5>3
      <4>2. CASE ctx[o].pc # "handle"
        BY <2>2, <2>5, <4>2 DEF unhandled
      <4>3. QED  BY <4>1, <4>2
    <3>2. (Live(o)' => Live(o)) /\ (Tracked(o)' <=> Matches(unhandled(o)', Tail(dev[o].srq), ctx[o].idx, ctx[o].len))
      BY <2>2, <2>5 DEF Live, Tracked
    <3>3. ASSUME Live(o)' PROVE Matches(Append(unhandled(o), wc), Tail(dev[o].srq), ctx[o].idx, ctx[o].len)
      <4>1. Matches(unhandled(o), dev[o].srq, ctx[o].idx, ctx[o].len)
        BY <2>1, <3>2, <3>3, TrackedNow
      <4>2. QED  BY <2>1, <2>2, <2>3, <4>1, UnhandledType, MatchesDeliver
    <3>4. QED  BY <3>1, <3>2, <3>3
  <2>8. QED  BY <2>1, <2>6, <2>7, TracksPrime
<1>12. ASSUME NEW r \in Rank, hca_complete(r)
      PROVE  WindowTracks'
  <2> DEFINE wc == [op |-> "send"]
  <2>1. wc \in Wc /\ wc.op = "send"
    BY DEF Wc
  <2>2. dev' = [dev EXCEPT ![r].acks = @ - 1, ![r].cq = Append(@, wc)] /\ ctx' = ctx /\ stale' = stale
    BY <1>12 DEF hca_complete
  <2> HIDE DEF wc
  <2>3. dev'[r].srq = dev[r].srq /\ dev'[r].cq = Append(dev[r].cq, wc) /\ \A s \in Rank \ {r} : dev'[s] = dev[s]
    BY <1>1, <2>2 DEF TypeInv, Device
  <2>4. \A s \in Rank \ {r} : Live(s)' => Tracked(s)'
    BY <2>2, <2>3, TrackedFrame
  <2>5. Live(r)' => Tracked(r)'
    <3>1. unhandled(r)' = Append(unhandled(r), wc)
      <4>1. CASE ctx[r].pc = "handle"
        <5>1. unhandled(r) = ctx[r].todo \o dev[r].cq /\ unhandled(r)' = ctx[r].todo \o Append(dev[r].cq, wc)
          BY <2>2, <2>3, <4>1 DEF unhandled
        <5>2. ctx[r].todo \in Seq(Wc) /\ dev[r].cq \in Seq(Wc)
          BY UnhandledType
        <5>3. ctx[r].todo \o Append(dev[r].cq, wc) = Append(ctx[r].todo \o dev[r].cq, wc)
          <6> DEFINE a == ctx[r].todo
                     b == dev[r].cq
          <6>1. a \in Seq(Wc) /\ b \in Seq(Wc)
            BY <2>1, <5>2
          <6> HIDE DEF a, b
          <6>2. a \o Append(b, wc) = Append(a \o b, wc)
            BY <2>1, <6>1, ConcatAppend
          <6>3. QED  BY <6>2 DEF a, b
        <5>4. QED  BY <5>1, <5>3
      <4>2. CASE ctx[r].pc # "handle"
        BY <2>2, <2>3, <4>2 DEF unhandled
      <4>3. QED  BY <4>1, <4>2
    <3>2. (Live(r)' => Live(r)) /\ (Tracked(r)' <=> Matches(unhandled(r)', dev[r].srq, ctx[r].idx, ctx[r].len))
      BY <2>2, <2>3 DEF Live, Tracked
    <3>3. ASSUME Live(r)' PROVE Matches(Append(unhandled(r), wc), dev[r].srq, ctx[r].idx, ctx[r].len)
      <4>1. Matches(unhandled(r), dev[r].srq, ctx[r].idx, ctx[r].len)
        BY <3>2, <3>3, TrackedNow
      <4>2. QED  BY <2>1, <4>1, UnhandledType, MatchesComplete
    <3>4. QED  BY <3>1, <3>2, <3>3
  <2>6. QED  BY <2>4, <2>5, TracksPrime
<1>13. CASE UNCHANGED vars
  <2>1. \A s \in Rank : Live(s)' => Tracked(s)'
    BY <1>13, TrackedFrame DEF vars
  <2>2. QED  BY <2>1, TracksPrime
<1>14. QED  BY <1>3, <1>4, <1>5, <1>6, <1>7, <1>8, <1>9, <1>10, <1>11, <1>12, <1>13 DEF Next

LEMMA TracksInit == Init => WindowTracks
<1> SUFFICES ASSUME Init PROVE WindowTracks
  OBVIOUS
<1>1. W \in Nat /\ W >= 1
  BY WindowAssumption
<1> DEFINE l == [i \in 1 .. W |-> i - 1]
<1>2. \A r \in Rank : /\ unhandled(r) = <<>> /\ dev[r].srq = l /\ ctx[r].idx = 0 /\ ctx[r].len = W
  BY DEF Init, unhandled
<1>3. Len(<<>>) = 0 /\ recvs(<<>>, 0) = {} /\ nrecvs(<<>>, 0) = 0
  BY EmptySeq, CountNone DEF recvs
<1>4. Len(l) = W /\ DOMAIN l = 1 .. W
  <2>1. l \in Seq(Slot)
    BY <1>1 DEF Slot
  <2>2. QED  BY <1>1, <2>1
<1>5. \A i \in 1 .. W : l[i] = (0 + (0 + i - 1)) % W
  <2> SUFFICES ASSUME NEW i \in 1 .. W PROVE l[i] = (0 + (0 + i - 1)) % W
    OBVIOUS
  <2>1. 0 + (0 + i - 1) = i - 1 /\ i - 1 \in 0 .. W - 1
    BY <1>1
  <2>2. (i - 1) % W = i - 1
    BY <2>1, ModLow
  <2>3. QED  BY <2>1, <2>2
<1> HIDE DEF l
<1>6. 0 + W = W
  BY <1>1
<1>7. Matches(<<>>, l, 0, W)
  BY <1>3, <1>4, <1>5, <1>6 DEF Matches
<1>8. QED  BY <1>2, <1>7, TracksIs DEF Tracked

(* A rank that fails in pp_on_recv got a buffer that was not next in the window. *)
LEMMA FailsStep ==
  ASSUME TypeInv, WindowTracks, FailsOnlyAfterFullFlush, [Next]_vars
  PROVE  FailsOnlyAfterFullFlush'
<1>1. \A s \in Rank : ctx[s] \in Context /\ Sound(ctx[s])
  BY DEF TypeInv
<1>2. SUFFICES ASSUME NEW s \in Rank, ctx'[s].pc = "failed" PROVE s \in stale'
  BY DEF FailsOnlyAfterFullFlush
<1>3. ASSUME NEW r \in Rank, NEW c, ctx' = [ctx EXCEPT ![r] = c], stale \subseteq stale',
             c.pc = "failed" => r \in stale'
      PROVE  s \in stale'
  <2>1. ctx'[r] = c /\ \A u \in Rank \ {r} : ctx'[u] = ctx[u]
    BY <1>3 DEF TypeInv
  <2>2. QED  BY <1>2, <1>3, <2>1 DEF FailsOnlyAfterFullFlush
<1>4. ASSUME NEW r \in Rank, pp_post_send(r) PROVE s \in stale'
  <2> DEFINE c == [ctx[r] EXCEPT !.pc = "loop", !.scnt = 0, !.rcnt = 0]
  <2>1. ctx' = [ctx EXCEPT ![r] = c] /\ stale' = stale /\ c.pc = "loop"
    BY <1>1, <1>4 DEF pp_post_send, Context
  <2>2. QED  BY <1>3, <2>1
<1>5. ASSUME NEW r \in Rank, poll_cq(r) PROVE s \in stale'
  <2> DEFINE ne == IF Len(dev[r].cq) < Batch THEN Len(dev[r].cq) ELSE Batch
             c == [ctx[r] EXCEPT !.pc = "handle", !.todo = SubSeq(dev[r].cq, 1, ne)]
  <2>1. ctx' = [ctx EXCEPT ![r] = c] /\ stale' = stale /\ c.pc = "handle"
    BY <1>1, <1>5 DEF poll_cq, Context
  <2>2. QED  BY <1>3, <2>1
<1>6. ASSUME NEW r \in Rank, on_send(r) PROVE s \in stale'
  <2> DEFINE h == handled(ctx[r])
             scnt == ctx[r].scnt + 1
             enters == ~benchmark(r) /\ scnt = num_sent(r)
             barriers == IF enters THEN ctx[r].barriers + 1 ELSE ctx[r].barriers
             c == [h EXCEPT !.scnt = scnt, !.barriers = barriers]
  <2>1. ctx' = [ctx EXCEPT ![r] = c] /\ stale' = stale /\ ctx[r].todo # <<>>
    BY <1>1, <1>6 DEF on_send, Sound
  <2>2. h \in Context /\ h.pc \in {"handle", "loop"}
    BY <1>1, <2>1, HandledSound
  <2> HIDE DEF h, scnt, barriers
  <2>3. c.pc = h.pc
    BY <2>2 DEF Context
  <2>4. QED  BY <1>3, <2>1, <2>2, <2>3
<1>7. ASSUME NEW r \in Rank, pp_on_recv(r) PROVE s \in stale'
  <2> DEFINE v == Received(ctx[r])
             f == Refilled(v)
  <2>1. ctx[r].pc = "handle" /\ Head(ctx[r].todo).op = "recv" /\ ctx[r].todo # <<>> /\ stale' = stale
    BY <1>1, <1>7 DEF pp_on_recv, Sound
  <2>2. v \in Context /\ v = [ctx[r] EXCEPT !.idx = (ctx[r].idx + 1) % W, !.len = ctx[r].len - 1, !.rcnt = ctx[r].rcnt + 1]
    BY <1>1, ReceivedType DEF Sound
  <2>3. CASE Head(ctx[r].todo).id # ctx[r].idx
    <3>1. ctx' = [ctx EXCEPT ![r] = [ctx[r] EXCEPT !.pc = "failed"]]
      BY <1>7, <2>3 DEF pp_on_recv
    <3>2. r \in stale
      <4> SUFFICES ASSUME r \notin stale PROVE FALSE
        OBVIOUS
      <4>1. Matches(unhandled(r), dev[r].srq, ctx[r].idx, ctx[r].len)
        BY <2>1, TracksIs DEF Live, Tracked
      <4>2. unhandled(r) # <<>> /\ unhandled(r)[1] = Head(ctx[r].todo)
        BY <1>1, <2>1, HandledUnhandled
      <4>3. unhandled(r)[1].id = ctx[r].idx
        BY <2>1, <4>1, <4>2, UnhandledType, MatchesReceived
      <4>4. QED  BY <2>3, <4>2, <4>3
    <3>3. QED  BY <1>3, <2>1, <3>1, <3>2
  <2> HIDE DEF v
  <2>4. v.list = ctx[r].list /\ v.todo = ctx[r].todo
    BY <1>1, <2>2 DEF Context
  <2>5. CASE Head(ctx[r].todo).id = ctx[r].idx /\ v.len # 0
    <3>1. ctx' = [ctx EXCEPT ![r] = handled(v)]
      BY <1>7, <2>5 DEF pp_on_recv, v
    <3>2. handled(v).pc \in {"handle", "loop"}
      BY <2>1, <2>2, <2>4, HandledSound
    <3>3. QED  BY <1>3, <2>1, <3>1, <3>2
  <2>6. CASE Head(ctx[r].todo).id = ctx[r].idx /\ v.len = 0
    <3>1. ctx' = [ctx EXCEPT ![r] = handled(f)]
      BY <1>7, <2>6 DEF pp_on_recv, v
    <3>2. f \in Context /\ f = [v EXCEPT !.len = W, !.list = f.list]
      BY <1>1, <2>2, <2>4, RefilledSound DEF Sound
    <3> HIDE DEF f
    <3>3. f.todo = ctx[r].todo
      BY <2>2, <2>4, <3>2 DEF Context
    <3>4. handled(f).pc \in {"handle", "loop"}
      BY <2>1, <3>2, <3>3, HandledSound
    <3>5. QED  BY <1>3, <2>1, <3>1, <3>4
  <2>7. QED  BY <2>3, <2>5, <2>6
<1>8. ASSUME NEW r \in Rank, leave_loop(r) PROVE s \in stale'
  <2> DEFINE c == [ctx[r] EXCEPT !.pc = "flush"]
  <2>1. ctx' = [ctx EXCEPT ![r] = c] /\ stale' = stale /\ c.pc = "flush"
    BY <1>1, <1>8 DEF leave_loop, Context
  <2>2. QED  BY <1>3, <2>1
<1>9. ASSUME NEW r \in Rank, pp_on_flush(r) PROVE s \in stale'
  <2> DEFINE f == Refilled(ctx[r])
  <2>1. ctx' = [ctx EXCEPT ![r] = after_flush(r, f)] /\ stale' = stale
    BY <1>9 DEF pp_on_flush
  <2>2. f \in Context /\ f = [ctx[r] EXCEPT !.len = W, !.list = f.list] /\ Len(f.list) = W
    BY <1>1, RefilledSound DEF Sound
  <2> HIDE DEF f
  <2>3. f.len = W /\ f.round = ctx[r].round
    BY <1>1, <2>2 DEF Context
  <2>4. after_flush(r, f).pc \in {"barrier", "post"}
    BY <2>2, <2>3, AfterFlushSound, WindowAssumption
  <2>5. QED  BY <1>3, <2>1, <2>4
<1>10. ASSUME NEW r \in Rank, pp_on_flush_full(r) PROVE s \in stale'
  <2>1. CASE \E k \in 0 .. (IF stale = {} THEN Room ELSE 0) :
               /\ ctx' = [ctx EXCEPT ![r] = after_flush(r, @)]
               /\ dev' = [dev EXCEPT ![r].srq = @ \o SubSeq(ctx[r].list, 1, k)]
               /\ stale' = IF k = 0 THEN stale ELSE stale \cup {r}
    <3>1. ctx' = [ctx EXCEPT ![r] = after_flush(r, ctx[r])] /\ stale \subseteq stale'
      BY <2>1
    <3>2. after_flush(r, ctx[r]).pc \in {"barrier", "post"}
      BY <1>1, AfterFlushSound DEF Sound
    <3>3. QED  BY <1>3, <3>1, <3>2
  <2>2. CASE ctx' = [ctx EXCEPT ![r].pc = "failed"] /\ stale' = stale \cup {r}
    <3>1. ctx' = [ctx EXCEPT ![r] = [ctx[r] EXCEPT !.pc = "failed"]]
      BY <2>2
    <3>2. QED  BY <1>3, <2>2, <3>1
  <2>3. QED  BY <1>10, <2>1, <2>2 DEF pp_on_flush_full
<1>11. ASSUME NEW r \in Rank, leave_barrier(r) PROVE s \in stale'
  <2> DEFINE label == IF benchmark(r) /\ ctx[r].round < rounds THEN "post" ELSE "done"
             round == IF benchmark(r) THEN ctx[r].round + 1 ELSE ctx[r].round
             c == [ctx[r] EXCEPT !.pc = label, !.round = round]
  <2>1. ctx' = [ctx EXCEPT ![r] = c] /\ stale' = stale /\ label # "failed"
    BY <1>11 DEF leave_barrier
  <2> HIDE DEF label, round
  <2>2. c.pc = label
    BY <1>1 DEF Context
  <2>3. QED  BY <1>3, <2>1, <2>2
<1>12. ASSUME NEW r \in Rank, hca_deliver(r) \/ hca_complete(r) PROVE s \in stale'
  BY <1>2, <1>12 DEF hca_deliver, hca_complete, FailsOnlyAfterFullFlush
<1>13. CASE UNCHANGED vars
  BY <1>2, <1>13 DEF vars, FailsOnlyAfterFullFlush
<1>14. QED  BY <1>4, <1>5, <1>6, <1>7, <1>8, <1>9, <1>10, <1>11, <1>12, <1>13 DEF Next

(* rx_win describes what the HCA holds in every reachable state, whatever the   *)
(* size of the window.                                                          *)
THEOREM WindowCorrect == Spec => []WindowTracks
BY TypeInit, TypeStep, TracksInit, TracksStep, PTL DEF Spec

(* The assertion of pp_on_recv fails in no rank but one that flushed a full     *)
(* window.                                                                      *)
THEOREM AssertionHolds == Spec => []FailsOnlyAfterFullFlush
<1>1. Init => FailsOnlyAfterFullFlush
  BY DEF Init, FailsOnlyAfterFullFlush
<1>2. QED  BY <1>1, TypeInit, TypeStep, TracksInit, TracksStep, FailsStep, PTL DEF Spec

(****************************************************************************)
(* Who waits for whom: the messages that a rank has not handled, counted     *)
(* round by round. Nothing is claimed once old entries were posted.          *)
(****************************************************************************)
half == W \div 2
tests == Len(Counts)

(* The messages of a round, and how many of its own round a rank has sent.      *)
msgs(k) == IF k <= tests THEN Counts[k] ELSE IF k <= rounds THEN half ELSE 0
posted(r) == IF ctx[r].pc = "post" THEN 0 ELSE msgs(ctx[r].round)

(* What the other rank has sent in the round of o and since.                    *)
Sent(o) ==
  LET r == other(o)
  IN IF ctx[r].round < ctx[o].round THEN 0
     ELSE IF ctx[r].round = ctx[o].round THEN posted(r)
     ELSE msgs(ctx[o].round) + posted(r)

(* Unhandled completions of receives and of sends, and all messages to o that   *)
(* it has not handled.                                                          *)
Recvd(o) == nrecvs(unhandled(o), Len(unhandled(o)))
Done(o) == Len(unhandled(o)) - Recvd(o)
Due(o) == Recvd(o) + dev[other(o)].wire

Busy(o) == ctx[o].pc \in {"loop", "handle", "flush"}

(* o has entered the barrier that ends its round.                               *)
Ended(o) ==
  \/ ctx[o].pc \in {"barrier", "done"}
  \/ ctx[o].round > tests /\ Busy(o) /\ ctx[o].scnt = msgs(ctx[o].round)

(* No more than b receives of q are behind any send of it.                      *)
Late(q, b) ==
  \A i \in 1 .. Len(q) : q[i].op = "send" => nrecvs(q, Len(q)) - nrecvs(q, i) <= b

PhaseInv(o) ==
  /\ ctx[o].pc # "failed"
  /\ ctx[o].pc = "post" \/ Busy(o) => ctx[o].round <= rounds
  /\ ctx[o].pc = "barrier" => ctx[o].round <= tests \/ ctx[o].round = rounds + 1
  /\ ctx[o].pc = "done" => ctx[o].round = rounds + 1

(* A barrier for each round, and one at the end: a rank is at most one round    *)
(* ahead of the barriers of the other.                                          *)
BarrierInv(o) ==
  /\ Ended(o) => ctx[o].barriers = ctx[o].round
  /\ ~Ended(o) => ctx[o].barriers = ctx[o].round - 1
  /\ ctx[other(o)].barriers >= ctx[o].round - 1
  /\ ctx[o].round > tests /\ ctx[o].pc = "flush" => ctx[other(o)].barriers >= ctx[o].round

(* Sends of the round: counted, completed, acknowledged, on the wire.           *)
SendInv(o) ==
  /\ Busy(o) => ctx[o].scnt + Done(o) + dev[o].acks + dev[o].wire = msgs(ctx[o].round)
  /\ ctx[o].pc = "flush" => ctx[o].scnt = msgs(ctx[o].round)
  /\ ~Busy(o) => Done(o) = 0 /\ dev[o].acks = 0 /\ dev[o].wire = 0

(* In the benchmark every message is handled in its round.                      *)
TestInv(o) == ctx[o].round <= tests =>
  /\ ctx[o].pc = "post" => Due(o) = Sent(o) /\ ctx[o].len = W
  /\ Busy(o) => ctx[o].rcnt + Due(o) = Sent(o) /\ ctx[o].rcnt + ctx[o].len = W
  /\ ctx[o].pc = "flush" => ctx[o].rcnt = msgs(ctx[o].round)
  /\ ctx[o].pc = "barrier" => msgs(ctx[o].round) + Due(o) = Sent(o) /\ ctx[o].len = W

(* In the main loop those of the round before are handled before any send of    *)
(* this round is, so that one round's messages at most are left over.           *)
MainInv(o) == ctx[o].round > tests /\ ctx[o].round <= rounds =>
  /\ Due(o) <= half + Sent(o)
  /\ Busy(o) /\ ctx[o].scnt >= 1 => Due(o) <= Sent(o)
  /\ ctx[o].pc \in {"loop", "handle"} => Late(unhandled(o), Sent(o) - dev[other(o)].wire)

(* The window has room for all that a sender in this round, or an earlier one,  *)
(* has sent and has yet to send.                                                *)
RoomInv(o) ==
  ctx[o].round > tests /\ ctx[other(o)].round <= ctx[o].round =>
    Due(o) + msgs(ctx[o].round) - Sent(o) <= ctx[o].len

Side(o) == /\ PhaseInv(o) /\ BarrierInv(o) /\ SendInv(o)
           /\ TestInv(o) /\ MainInv(o) /\ RoomInv(o)

WaitInv == stale = {} => \A o \in Rank : Side(o)

LEMMA HalfPositive == half \in Nat /\ half >= 1 /\ half + half <= W /\ W \in Nat
  BY WindowAssumption DEF half

LEMMA MsgsType ==
  ASSUME NEW k \in Nat, k >= 1
  PROVE  /\ msgs(k) \in Nat /\ msgs(k) <= half
         /\ k <= tests => msgs(k) >= 1
         /\ k > tests /\ k <= rounds => msgs(k) = half
         /\ k = rounds + 1 => msgs(k) = 0
<1>1. tests \in Nat /\ rounds \in Nat /\ rounds > tests
  BY CountsAssumption, ItersAssumption DEF tests, rounds
<1>2. CASE k <= tests
  <2>1. k \in 1 .. Len(Counts)
    BY <1>2, CountsAssumption DEF tests
  <2>2. Counts[k] \in 1 .. half
    BY <2>1, CountsAssumption, ElementOfSeq DEF half
  <2>3. QED  BY <1>1, <1>2, <2>2, HalfPositive DEF msgs
<1>3. CASE ~(k <= tests)
  BY <1>1, <1>3, HalfPositive DEF msgs
<1>4. QED  BY <1>2, <1>3

LEMMA TestsType == tests \in Nat /\ rounds \in Nat /\ rounds > tests /\ \A r : benchmark(r) <=> ctx[r].round <= tests
  BY CountsAssumption, ItersAssumption DEF tests, rounds, benchmark

LEMMA NumSentMsgs ==
  ASSUME TypeInv, NEW r \in Rank, ctx[r].round <= rounds
  PROVE  num_sent(r) = msgs(ctx[r].round)
BY TestsType DEF num_sent, msgs, tests, half, benchmark

(* Of a queue. *)
LEMMA CountBound ==
  ASSUME NEW q \in Seq(Wc)
  PROVE  /\ nrecvs(q, Len(q)) \in Nat /\ Len(q) - nrecvs(q, Len(q)) \in Nat
         /\ Len(q) - nrecvs(q, Len(q)) = 0 => \A i \in 1 .. Len(q) : q[i].op # "send"
<1>1. Len(q) \in Nat /\ IsFiniteSet(1 .. Len(q)) /\ Cardinality(1 .. Len(q)) = Len(q)
  <2> DEFINE n == Len(q)
  <2>1. n \in Nat /\ n \in Int /\ 1 \in Int
    OBVIOUS
  <2> HIDE DEF n
  <2>2. IsFiniteSet(1 .. n) /\ Cardinality(1 .. n) = IF 1 > n THEN 0 ELSE n - 1 + 1
    BY <2>1, FS_Interval
  <2>3. Cardinality(1 .. n) = n
    BY <2>1, <2>2
  <2>4. QED  BY <2>1, <2>2, <2>3 DEF n
<1>2. recvs(q, Len(q)) \in SUBSET (1 .. Len(q))
  BY DEF recvs
<1>3. nrecvs(q, Len(q)) \in Nat /\ nrecvs(q, Len(q)) <= Len(q)
  <2>1. Cardinality(recvs(q, Len(q))) <= Cardinality(1 .. Len(q))
    BY <1>1, <1>2, FS_Subset, Zenon
  <2>2. nrecvs(q, Len(q)) \in Nat
    BY <1>1, CountFinite, Zenon
  <2>3. QED  BY <1>1, <2>1, <2>2, Zenon DEF nrecvs
<1>4. ASSUME NEW i \in 1 .. Len(q), q[i].op = "send"
      PROVE  nrecvs(q, Len(q)) < Len(q)
  <2>1. recvs(q, Len(q)) \in SUBSET ((1 .. Len(q)) \ {i})
    BY <1>4 DEF recvs
  <2>2. IsFiniteSet((1 .. Len(q)) \ {i}) /\ Cardinality((1 .. Len(q)) \ {i}) = Len(q) - 1
    BY <1>1, FS_RemoveElement
  <2>3. nrecvs(q, Len(q)) <= Len(q) - 1
    BY <2>1, <2>2, FS_Subset DEF nrecvs
  <2>4. QED  BY <1>1, <1>3, <2>3
<1>5. QED  BY <1>1, <1>3, <1>4

LEMMA AppendRecvCounts ==
  ASSUME NEW q \in Seq(Wc), NEW e \in Wc, e.op = "recv", NEW b \in Int
  PROVE  /\ nrecvs(Append(q, e), Len(Append(q, e))) = nrecvs(q, Len(q)) + 1
         /\ Len(Append(q, e)) = Len(q) + 1
         /\ Late(q, b) => Late(Append(q, e), b + 1)
<1> DEFINE a == Append(q, e)
           n == Len(q)
<1>1. a \in Seq(Wc) /\ Len(a) = n + 1 /\ n \in Nat /\ a[n + 1] = e /\ \A i \in 1 .. n : a[i] = q[i]
  BY AppendIs
<1>2. \A i \in Nat : i <= n => nrecvs(a, i) = nrecvs(q, i) /\ nrecvs(q, i) \in Nat
  BY MatchesAppend, CountFinite
<1> HIDE DEF a
<1>3. nrecvs(a, n + 1) = nrecvs(q, n) + 1 /\ nrecvs(q, n) \in Nat
  <2>1. nrecvs(a, n) = nrecvs(q, n) /\ nrecvs(q, n) \in Nat /\ a[n + 1].op = "recv"
    BY <1>1, <1>2
  <2> HIDE DEF n
  <2>2. QED  BY <1>1, <2>1, CountMore
<1>4. ASSUME Late(q, b) PROVE Late(a, b + 1)
  <2> SUFFICES ASSUME NEW i \in 1 .. n + 1, a[i].op = "send" PROVE nrecvs(a, n + 1) - nrecvs(a, i) <= b + 1
    BY <1>1 DEF Late
  <2>1. i # n + 1
    BY <1>1
  <2>2. i \in 1 .. n /\ i \in Nat /\ i <= n
    BY <1>1, <2>1
  <2>3. a[i] = q[i] /\ nrecvs(a, i) = nrecvs(q, i) /\ nrecvs(q, i) \in Nat
    BY <1>1, <1>2, <2>2
  <2>4. nrecvs(q, n) - nrecvs(q, i) <= b
    BY <1>4, <2>2, <2>3 DEF Late
  <2> HIDE DEF n
  <2>5. QED  BY <1>3, <2>3, <2>4
<1>5. QED  BY <1>1, <1>3, <1>4 DEF a

LEMMA AppendSendCounts ==
  ASSUME NEW q \in Seq(Wc), NEW e \in Wc, e.op = "send", NEW b \in Nat
  PROVE  /\ nrecvs(Append(q, e), Len(Append(q, e))) = nrecvs(q, Len(q))
         /\ Len(Append(q, e)) = Len(q) + 1
         /\ Late(q, b) => Late(Append(q, e), b)
<1> DEFINE a == Append(q, e)
           n == Len(q)
<1>1. a \in Seq(Wc) /\ Len(a) = n + 1 /\ n \in Nat /\ a[n + 1] = e /\ \A i \in 1 .. n : a[i] = q[i]
  BY AppendIs
<1>2. \A i \in Nat : i <= n => nrecvs(a, i) = nrecvs(q, i) /\ nrecvs(q, i) \in Nat
  BY MatchesAppend, CountFinite
<1> HIDE DEF a
<1>3. nrecvs(a, n + 1) = nrecvs(q, n) /\ nrecvs(q, n) \in Nat
  <2>1. nrecvs(a, n) = nrecvs(q, n) /\ nrecvs(q, n) \in Nat /\ a[n + 1].op # "recv"
    BY <1>1, <1>2
  <2> HIDE DEF n
  <2>2. QED  BY <1>1, <2>1, CountSkip
<1>4. ASSUME Late(q, b) PROVE Late(a, b)
  <2> SUFFICES ASSUME NEW i \in 1 .. n + 1, a[i].op = "send" PROVE nrecvs(a, n + 1) - nrecvs(a, i) <= b
    BY <1>1 DEF Late
  <2>1. CASE i = n + 1
    BY <1>3, <2>1
  <2>2. CASE i # n + 1
    <3>1. i \in 1 .. n /\ i \in Nat /\ i <= n
      BY <1>1, <2>2
    <3>2. a[i] = q[i] /\ nrecvs(a, i) = nrecvs(q, i)
      BY <1>1, <1>2, <3>1
    <3>3. nrecvs(q, n) - nrecvs(q, i) <= b
      BY <1>4, <3>1, <3>2 DEF Late
    <3>4. QED  BY <1>3, <3>2, <3>3
  <2>3. QED  BY <2>1, <2>2
<1>5. QED  BY <1>1, <1>3, <1>4 DEF a

LEMMA TailCounts ==
  ASSUME NEW q \in Seq(Wc), q # <<>>, NEW b \in Int
  PROVE  /\ Len(Tail(q)) = Len(q) - 1
         /\ q[1].op = "recv" => nrecvs(Tail(q), Len(Tail(q))) = nrecvs(q, Len(q)) - 1
         /\ q[1].op # "recv" => nrecvs(Tail(q), Len(Tail(q))) = nrecvs(q, Len(q))
         /\ Late(q, b) => Late(Tail(q), b)
         /\ Late(q, b) /\ q[1].op = "send" => nrecvs(q, Len(q)) <= b
<1> DEFINE a == Tail(q)
           n == Len(q) - 1
<1>1. Len(a) = n /\ n \in Nat /\ Len(q) = n + 1 /\ \A i \in 1 .. n : a[i] = q[i + 1]
  BY TailOf
<1>2. /\ \A i \in Nat : i <= n /\ q[1].op = "recv" => nrecvs(a, i) = nrecvs(q, i + 1) - 1
      /\ \A i \in Nat : i <= n /\ q[1].op # "recv" => nrecvs(a, i) = nrecvs(q, i + 1)
      /\ \A i \in Nat : nrecvs(q, i + 1) \in Nat /\ nrecvs(q, i) \in Nat /\ nrecvs(a, i) \in Nat
  BY <1>1, CountTailRecv, CountTailSend, CountFinite
<1> HIDE DEF a, n
<1>3. /\ q[1].op = "recv" => nrecvs(a, n) = nrecvs(q, n + 1) - 1
      /\ q[1].op # "recv" => nrecvs(a, n) = nrecvs(q, n + 1)
  <2>1. n \in Nat /\ n <= n
    BY <1>1
  <2>2. QED  BY <1>2, <2>1
<1>4. ASSUME Late(q, b) PROVE Late(a, b)
  <2> SUFFICES ASSUME NEW i \in 1 .. n, a[i].op = "send" PROVE nrecvs(a, n) - nrecvs(a, i) <= b
    BY <1>1 DEF Late
  <2>1. i \in Nat /\ i <= n /\ i + 1 \in 1 .. n + 1 /\ q[i + 1].op = "send"
    BY <1>1
  <2>2. nrecvs(q, n + 1) - nrecvs(q, i + 1) <= b
    BY <1>1, <1>4, <2>1 DEF Late
  <2>3. nrecvs(q, n + 1) \in Nat /\ nrecvs(q, i + 1) \in Nat
    BY <1>1, <1>2, <2>1
  <2>4. CASE q[1].op = "recv"
    <3>1. nrecvs(a, n) = nrecvs(q, n + 1) - 1 /\ nrecvs(a, i) = nrecvs(q, i + 1) - 1
      BY <1>2, <1>3, <2>1, <2>4
    <3>2. QED  BY <2>2, <2>3, <3>1
  <2>5. CASE q[1].op # "recv"
    <3>1. nrecvs(a, n) = nrecvs(q, n + 1) /\ nrecvs(a, i) = nrecvs(q, i + 1)
      BY <1>2, <1>3, <2>1, <2>5
    <3>2. QED  BY <2>2, <2>3, <3>1
  <2>6. QED  BY <2>4, <2>5
<1>5. ASSUME Late(q, b), q[1].op = "send" PROVE nrecvs(q, n + 1) <= b
  <2>1. 1 \in 1 .. n + 1 /\ 1 = 0 + 1
    BY <1>1
  <2>2. nrecvs(q, n + 1) - nrecvs(q, 1) <= b
    BY <1>1, <1>5, <2>1 DEF Late
  <2>3. nrecvs(q, 1) = 0
    <3>1. nrecvs(q, 0 + 1) = nrecvs(q, 0)
      BY <1>5, <2>1, CountSkip
    <3>2. QED  BY <2>1, <3>1, CountNone
  <2>4. nrecvs(q, n + 1) \in Nat
    BY <1>1, <1>2
  <2>5. QED  BY <2>2, <2>3, <2>4
<1>6. QED  BY <1>1, <1>3, <1>4, <1>5 DEF a

(****************************************************************************)
(* What the two sides say of each other.                                     *)
(****************************************************************************)
LEMMA Quantities ==
  ASSUME TypeInv, NEW o \in Rank
  PROVE  /\ ctx[o].round \in Nat /\ ctx[o].round >= 1 /\ ctx[o].scnt \in Nat /\ ctx[o].rcnt \in Nat
         /\ ctx[o].len \in Nat /\ ctx[o].len >= 1 /\ ctx[o].len <= W /\ ctx[o].barriers \in Nat
         /\ dev[o].wire \in Nat /\ dev[o].acks \in Nat
         /\ Recvd(o) \in Nat /\ Done(o) \in Nat
         /\ msgs(ctx[o].round) \in Nat /\ msgs(ctx[o].round) <= half
         /\ posted(o) \in Nat /\ posted(o) <= msgs(ctx[o].round)
<1>1. ctx[o] \in Context /\ Sound(ctx[o]) /\ dev[o] \in Device /\ unhandled(o) \in Seq(Wc)
  BY UnhandledType DEF TypeInv
<1>2. dev[o].wire \in Nat /\ dev[o].acks \in Nat
  BY <1>1 DEF Device
<1>3. ctx[o].round \in Nat /\ ctx[o].round >= 1 /\ ctx[o].scnt \in Nat /\ ctx[o].rcnt \in Nat
      /\ ctx[o].len \in 0 .. W /\ ctx[o].len >= 1 /\ ctx[o].barriers \in Nat
  BY <1>1, Fields DEF Sound
<1>4. msgs(ctx[o].round) \in Nat /\ msgs(ctx[o].round) <= half
  BY <1>3, MsgsType
<1>5. Recvd(o) \in Nat /\ Done(o) \in Nat
  <2> DEFINE u == unhandled(o)
  <2>1. u \in Seq(Wc)
    BY <1>1
  <2> HIDE DEF u
  <2>2. nrecvs(u, Len(u)) \in Nat /\ Len(u) - nrecvs(u, Len(u)) \in Nat
    BY <2>1, CountBound
  <2>3. QED  BY <2>2 DEF Recvd, Done, u
<1>6. posted(o) \in Nat /\ posted(o) <= msgs(ctx[o].round)
  BY <1>4 DEF posted
<1>7. ctx[o].len \in Nat /\ ctx[o].len <= W
  BY <1>3, HalfPositive
<1>8. QED  BY <1>2, <1>3, <1>4, <1>5, <1>6, <1>7

LEMMA EndedSent ==
  ASSUME TypeInv, NEW o \in Rank, SendInv(o), Ended(o)
  PROVE  /\ dev[o].wire = 0 /\ ctx[o].pc # "post"
         /\ Busy(o) => ctx[o].round > tests /\ ctx[o].scnt = msgs(ctx[o].round)
<1>1. CASE ctx[o].pc \in {"barrier", "done"}
  BY <1>1 DEF SendInv, Busy
<1>2. CASE ctx[o].round > tests /\ Busy(o) /\ ctx[o].scnt = msgs(ctx[o].round)
  <2>1. ctx[o].scnt + Done(o) + dev[o].acks + dev[o].wire = msgs(ctx[o].round)
    BY <1>2 DEF SendInv
  <2>2. dev[o].wire = 0
    BY <1>2, <2>1, Quantities
  <2>3. QED  BY <1>2, <2>2 DEF Busy
<1>3. QED  BY <1>1, <1>2 DEF Ended

LEMMA Sync ==
  ASSUME TypeInv, NEW p \in Rank, NEW q \in Rank, other(p) = q, other(q) = p, Side(p), Side(q)
  PROVE  /\ ctx[q].round + 1 >= ctx[p].round /\ ctx[p].round + 1 >= ctx[q].round
         /\ ctx[q].round < ctx[p].round => Ended(q)
         /\ ctx[p].round < ctx[q].round => Ended(p)
         /\ Sent(p) \in Nat /\ dev[q].wire <= Sent(p)
         /\ ~Ended(p) => Sent(p) <= half
         /\ ctx[p].round < ctx[q].round => Sent(p) = msgs(ctx[p].round) + posted(q)
         /\ ctx[p].round = ctx[q].round => Sent(p) = posted(q)
<1>1. /\ ctx[p].round \in Nat /\ ctx[q].round \in Nat /\ ctx[p].barriers \in Nat /\ ctx[q].barriers \in Nat
      /\ posted(q) \in Nat /\ posted(q) <= msgs(ctx[q].round) /\ msgs(ctx[q].round) <= half
      /\ msgs(ctx[q].round) \in Nat /\ msgs(ctx[p].round) \in Nat /\ half \in Nat /\ dev[q].wire \in Nat
  BY Quantities, HalfPositive
<1>2. /\ ctx[q].barriers >= ctx[p].round - 1 /\ ctx[p].barriers >= ctx[q].round - 1
      /\ Ended(q) => ctx[q].barriers = ctx[q].round
      /\ ~Ended(q) => ctx[q].barriers = ctx[q].round - 1
      /\ Ended(p) => ctx[p].barriers = ctx[p].round
      /\ ~Ended(p) => ctx[p].barriers = ctx[p].round - 1
  BY DEF Side, BarrierInv
<1>3. /\ ctx[q].round + 1 >= ctx[p].round /\ ctx[p].round + 1 >= ctx[q].round
      /\ ctx[q].round < ctx[p].round => Ended(q)
      /\ ctx[p].round < ctx[q].round => Ended(p)
  BY <1>1, <1>2
<1>4. /\ ctx[q].round < ctx[p].round => Sent(p) = 0
      /\ ctx[p].round < ctx[q].round => Sent(p) = msgs(ctx[p].round) + posted(q)
      /\ ctx[p].round = ctx[q].round => Sent(p) = posted(q)
  BY <1>1 DEF Sent
<1>5. Ended(q) => dev[q].wire = 0
  BY EndedSent DEF Side
<1>6. dev[q].wire <= posted(q)
  <2>1. CASE Busy(q)
    <3>1. ctx[q].scnt + Done(q) + dev[q].acks + dev[q].wire = msgs(ctx[q].round)
      BY <2>1 DEF Side, SendInv
    <3>2. dev[q].wire <= msgs(ctx[q].round)
      BY <3>1, Quantities
    <3>3. posted(q) = msgs(ctx[q].round)
      BY <2>1 DEF posted, Busy
    <3>4. QED  BY <3>2, <3>3
  <2>2. CASE ~Busy(q)
    BY <1>1, <2>2 DEF Side, SendInv
  <2>3. QED  BY <2>1, <2>2
<1>7. QED  BY <1>1, <1>3, <1>4, <1>5, <1>6

(* The rank that does not move: the other one may send, enter a barrier or       *)
(* start a round.                                                               *)
LEMMA SideFrame ==
  ASSUME TypeInv, NEW p \in Rank, NEW q \in Rank, other(q) = p, Side(q),
         ctx'[q] = ctx[q], dev'[q] = dev[q],
         ctx'[p].round \in Nat, ctx'[p].round >= ctx[p].round,
         ctx'[p].barriers \in Nat, ctx'[p].barriers >= ctx[p].barriers,
         dev'[p].wire \in Nat, Sent(q) \in Nat, Sent(q)' \in Nat,
         Sent(q)' - dev'[p].wire = Sent(q) - dev[p].wire
  PROVE  Side(q)'
<1>1. /\ ctx[p].round \in Nat /\ ctx[q].round \in Nat /\ ctx[p].barriers \in Nat /\ dev[p].wire \in Nat
      /\ Recvd(q) \in Nat /\ msgs(ctx[q].round) \in Nat /\ ctx[q].rcnt \in Nat /\ ctx[q].len \in Nat
      /\ half \in Nat
  BY Quantities, HalfPositive
<1>2. unhandled(q)' = unhandled(q)
  BY DEF unhandled
<1>3. Recvd(q)' = Recvd(q) /\ Done(q)' = Done(q)
  BY <1>2 DEF Recvd, Done
<1>4. (Busy(q)' <=> Busy(q)) /\ (Ended(q)' <=> Ended(q))
  BY DEF Busy, Ended
<1>5. Due(q) = Recvd(q) + dev[p].wire /\ Due(q)' = Recvd(q) + dev'[p].wire
  BY <1>3 DEF Due
<1>6. PhaseInv(q)'
  BY <1>4 DEF Side, PhaseInv
<1>7. BarrierInv(q)'
  BY <1>1, <1>4 DEF Side, BarrierInv
<1>8. SendInv(q)'
  BY <1>3, <1>4 DEF Side, SendInv
<1>9. TestInv(q)'
  BY <1>1, <1>4, <1>5 DEF Side, TestInv
<1>10. MainInv(q)'
  <2>1. Due(q) <= half + Sent(q) => Due(q)' <= half + Sent(q)'
    BY <1>1, <1>5
  <2>2. Due(q) <= Sent(q) => Due(q)' <= Sent(q)'
    BY <1>1, <1>5
  <2>3. Late(unhandled(q), Sent(q) - dev[p].wire) => Late(unhandled(q)', Sent(q)' - dev'[p].wire)
    BY <1>2
  <2>4. QED  BY <1>4, <2>1, <2>2, <2>3 DEF Side, MainInv
<1>11. RoomInv(q)'
  <2>1. Due(q) + msgs(ctx[q].round) - Sent(q) = Due(q)' + msgs(ctx[q].round) - Sent(q)'
    BY <1>1, <1>5
  <2>2. QED  BY <1>1, <2>1 DEF Side, RoomInv
<1>12. QED  BY <1>6, <1>7, <1>8, <1>9, <1>10, <1>11 DEF Side

LEMMA SentKept ==
  ASSUME NEW o \in Rank, NEW r \in Rank, other(o) = r,
         ctx'[o].round = ctx[o].round, ctx'[r].round = ctx[r].round,
         ctx'[r].pc = "post" <=> ctx[r].pc = "post"
  PROVE  Sent(o)' = Sent(o)
<1>1. posted(r)' = posted(r)
  BY DEF posted
<1>2. QED  BY <1>1 DEF Sent

(* The same when the other rank neither sends nor changes its round. *)
LEMMA QuietFrame ==
  ASSUME TypeInv, NEW p \in Rank, NEW q \in Rank, other(p) = q, other(q) = p, Side(p), Side(q),
         ctx'[q] = ctx[q], dev'[q] = dev[q],
         ctx'[p].round = ctx[p].round, ctx'[p].barriers \in {ctx[p].barriers, ctx[p].barriers + 1},
         ctx[p].pc # "post", ctx'[p].pc # "post", dev'[p].wire = dev[p].wire
  PROVE  Sent(p)' = Sent(p) /\ Sent(p) \in Nat /\ Side(q)'
<1>1. Sent(p)' = Sent(p) /\ Sent(q)' = Sent(q)
  BY SentKept
<1>2. Sent(p) \in Nat /\ Sent(q) \in Nat
  BY Sync
<1>3. ctx[p].round \in Nat /\ ctx[p].barriers \in Nat /\ dev[p].wire \in Nat
  BY Quantities
<1>4. ctx'[p].round >= ctx[p].round /\ ctx'[p].barriers \in Nat /\ ctx'[p].barriers >= ctx[p].barriers
  BY <1>3
<1>5. Sent(q)' - dev'[p].wire = Sent(q) - dev[p].wire
  BY <1>1
<1>6. QED  BY <1>1, <1>2, <1>3, <1>4, <1>5, SideFrame

(****************************************************************************)
(* Each step of a rank p; q is the other one.                                *)
(****************************************************************************)
LEMMA PostSendSide ==
  ASSUME TypeInv, NEW p \in Rank, NEW q \in Rank, p # q, other(p) = q, other(q) = p, Side(p), Side(q), pp_post_send(p)
  PROVE  Side(p)' /\ Side(q)'
<1> DEFINE m == msgs(ctx[p].round)
<1>1. ctx[p] \in Context /\ dev[p] \in Device /\ ctx[p].pc = "post" /\ ctx[p].round <= rounds
  BY DEF TypeInv, pp_post_send, Side, PhaseInv
<1>2. /\ ctx'[p] = [ctx[p] EXCEPT !.pc = "loop", !.scnt = 0, !.rcnt = 0] /\ ctx'[q] = ctx[q]
      /\ dev'[p] = [dev[p] EXCEPT !.wire = @ + m] /\ dev'[q] = dev[q]
  BY <1>1, NumSentMsgs DEF TypeInv, pp_post_send
<1>3. /\ ctx'[p].pc = "loop" /\ ctx'[p].scnt = 0 /\ ctx'[p].rcnt = 0 /\ ctx'[p].round = ctx[p].round
      /\ ctx'[p].len = ctx[p].len /\ ctx'[p].barriers = ctx[p].barriers
      /\ dev'[p].wire = dev[p].wire + m /\ dev'[p].acks = dev[p].acks /\ dev'[p].cq = dev[p].cq
  BY <1>1, <1>2 DEF Context, Device
<1>4. /\ m \in Nat /\ m >= 1 /\ Recvd(p) \in Nat /\ ctx[p].round \in Nat /\ tests \in Nat
      /\ ctx[p].barriers \in Nat /\ dev[q].wire \in Nat /\ ctx[p].len \in Nat
  <2>1. ctx[p].round \in Nat /\ ctx[p].round >= 1
    BY Quantities
  <2>2. m \in Nat /\ m >= 1
    BY <1>1, <2>1, MsgsType, HalfPositive, TestsType
  <2>3. QED  BY <2>1, <2>2, Quantities, TestsType
<1>5. ~Busy(p) /\ ~Ended(p) /\ posted(p) = 0 /\ Done(p) = 0 /\ dev[p].acks = 0 /\ dev[p].wire = 0
  BY <1>1 DEF Busy, Ended, posted, Side, SendInv
<1>6. unhandled(p)' = unhandled(p)
  BY <1>1, <1>3 DEF unhandled
<1>7. Recvd(p)' = Recvd(p) /\ Done(p)' = Done(p) /\ Due(p)' = Due(p)
  BY <1>2, <1>6 DEF Recvd, Done, Due
<1>8. Sent(p)' = Sent(p) /\ Sent(p) \in Nat /\ Sent(q) \in Nat
  BY <1>2, <1>3, SentKept, Sync
<1>9. Sent(q)' = Sent(q) + m
  <2>1. posted(p)' = m
    BY <1>3 DEF posted
  <2>2. ~(ctx[p].round < ctx[q].round)
    BY <1>5, Sync
  <2>3. ctx[p].round = ctx[q].round => Sent(q) = 0 /\ Sent(q)' = m
    BY <1>2, <1>3, <1>4, <1>5, <2>1 DEF Sent
  <2>4. ctx[p].round # ctx[q].round => Sent(q) = msgs(ctx[q].round) + 0 /\ Sent(q)' = msgs(ctx[q].round) + m
    BY <1>2, <1>3, <1>5, <2>1, <2>2 DEF Sent
  <2>5. msgs(ctx[q].round) \in Nat
    BY Quantities
  <2>6. QED  BY <1>4, <2>3, <2>4, <2>5
<1> HIDE DEF m
<1>10. Side(q)'
  <2>1. Sent(q)' - dev'[p].wire = Sent(q) - dev[p].wire /\ Sent(q)' \in Nat /\ dev'[p].wire \in Nat
    BY <1>3, <1>4, <1>5, <1>8, <1>9
  <2>2. /\ ctx'[p].round \in Nat /\ ctx'[p].round >= ctx[p].round
        /\ ctx'[p].barriers \in Nat /\ ctx'[p].barriers >= ctx[p].barriers
    BY <1>3, <1>4
  <2>3. QED  BY <1>2, <1>8, <2>1, <2>2, SideFrame
<1>11. Busy(p)' /\ ~Ended(p)'
  BY <1>3, <1>4 DEF Busy, Ended, m
<1>12. PhaseInv(p)'
  BY <1>1, <1>3 DEF PhaseInv
<1>13. BarrierInv(p)'
  BY <1>2, <1>3, <1>5, <1>11 DEF Side, BarrierInv
<1>14. SendInv(p)'
  BY <1>3, <1>4, <1>5, <1>7, <1>11 DEF SendInv, m
<1>15. TestInv(p)'
  <2>1. ctx[p].round <= tests => Due(p) = Sent(p) /\ ctx[p].len = W
    BY <1>1 DEF Side, TestInv
  <2>2. QED  BY <1>3, <1>4, <1>7, <1>8, <2>1 DEF TestInv
<1>16. MainInv(p)'
  <2>1. ctx[p].round > tests => Due(p) <= half + Sent(p)
    BY <1>1 DEF Side, MainInv
  <2>2. Late(unhandled(p), Sent(p) - dev[q].wire)
    <3>1. unhandled(p) \in Seq(Wc)
      BY UnhandledType
    <3>2. \A i \in 1 .. Len(unhandled(p)) : unhandled(p)[i].op # "send"
      BY <1>5, <3>1, CountBound DEF Done, Recvd
    <3>3. QED  BY <3>2 DEF Late
  <2>3. Late(unhandled(p)', Sent(p)' - dev'[q].wire)
    BY <1>2, <1>6, <1>8, <2>2
  <2>4. QED  BY <1>3, <1>7, <1>8, <2>1, <2>3 DEF MainInv
<1>17. RoomInv(p)'
  BY <1>2, <1>3, <1>7, <1>8 DEF Side, RoomInv
<1>18. QED  BY <1>10, <1>12, <1>13, <1>14, <1>15, <1>16, <1>17 DEF Side

LEMMA PollSide ==
  ASSUME TypeInv, NEW p \in Rank, NEW q \in Rank, p # q, other(p) = q, other(q) = p, Side(p), Side(q), poll_cq(p)
  PROVE  Side(p)' /\ Side(q)'
<1> DEFINE l == dev[p].cq
           n == IF Len(l) < Batch THEN Len(l) ELSE Batch
<1>1. ctx[p] \in Context /\ dev[p] \in Device /\ ctx[p].pc = "loop" /\ l \in Seq(Wc) /\ l # <<>>
  BY UnhandledType DEF TypeInv, poll_cq
<1>2. Len(l) \in Nat /\ n \in Nat /\ n >= 1 /\ n <= Len(l)
  BY <1>1, TailOf, BatchAssumption
<1>3. /\ ctx'[p] = [ctx[p] EXCEPT !.pc = "handle", !.todo = SubSeq(l, 1, n)] /\ ctx'[q] = ctx[q]
      /\ dev'[p] = [dev[p] EXCEPT !.cq = SubSeq(l, n + 1, Len(l))] /\ dev'[q] = dev[q]
  BY DEF TypeInv, poll_cq
<1> HIDE DEF n
<1>4. /\ ctx'[p].pc = "handle" /\ ctx'[p].scnt = ctx[p].scnt /\ ctx'[p].rcnt = ctx[p].rcnt
      /\ ctx'[p].round = ctx[p].round /\ ctx'[p].len = ctx[p].len /\ ctx'[p].barriers = ctx[p].barriers
      /\ ctx'[p].todo = SubSeq(l, 1, n)
      /\ dev'[p].wire = dev[p].wire /\ dev'[p].acks = dev[p].acks /\ dev'[p].cq = SubSeq(l, n + 1, Len(l))
  BY <1>1, <1>3 DEF Context, Device
<1>5. unhandled(p)' = unhandled(p)
  <2>1. SubSeq(l, 1, n) \o SubSeq(l, n + 1, Len(l)) = SubSeq(l, 1, Len(l))
    <3> HIDE DEF l
    <3>1. QED  BY <1>1, <1>2, ConcatAdjacentSubSeq
  <2>2. SubSeq(l, 1, Len(l)) = l
    BY <1>1, SubSeqFull
  <2>3. QED  BY <1>1, <1>4, <2>1, <2>2 DEF unhandled
<1> HIDE DEF l
<1>6. Recvd(p)' = Recvd(p) /\ Done(p)' = Done(p) /\ Due(p)' = Due(p)
  BY <1>3, <1>5 DEF Recvd, Done, Due
<1>7. Sent(p)' = Sent(p) /\ Sent(p) \in Nat /\ Side(q)'
  BY <1>1, <1>3, <1>4, QuietFrame
<1>9. Busy(p) /\ Busy(p)' /\ (Ended(p)' <=> Ended(p))
  BY <1>1, <1>4 DEF Busy, Ended
<1>10. PhaseInv(p)'
  BY <1>4, <1>9 DEF Side, PhaseInv
<1>11. BarrierInv(p)'
  BY <1>3, <1>4, <1>9 DEF Side, BarrierInv
<1>12. SendInv(p)'
  BY <1>4, <1>6, <1>9 DEF Side, SendInv
<1>13. TestInv(p)'
  BY <1>4, <1>6, <1>7, <1>9 DEF Side, TestInv
<1>14. MainInv(p)'
  <2>1. ctx[p].round > tests /\ ctx[p].round <= rounds => Late(unhandled(p), Sent(p) - dev[q].wire)
    BY <1>1 DEF Side, MainInv
  <2>2. ctx[p].round > tests /\ ctx[p].round <= rounds => Late(unhandled(p)', Sent(p)' - dev'[q].wire)
    BY <1>3, <1>5, <1>7, <2>1
  <2>3. QED  BY <1>4, <1>6, <1>7, <1>9, <2>2 DEF Side, MainInv
<1>15. RoomInv(p)'
  BY <1>3, <1>4, <1>6, <1>7 DEF Side, RoomInv
<1>16. QED  BY <1>7, <1>10, <1>11, <1>12, <1>13, <1>14, <1>15 DEF Side

(* The first completion is handled. *)
LEMMA HandledCounts ==
  ASSUME TypeInv, NEW p \in Rank, ctx[p].pc = "handle", unhandled(p)' = Tail(unhandled(p))
  PROVE  /\ Head(ctx[p].todo).op = "send" => Recvd(p)' = Recvd(p) /\ Done(p)' = Done(p) - 1
         /\ Head(ctx[p].todo).op = "recv" => Recvd(p)' = Recvd(p) - 1 /\ Done(p)' = Done(p)
         /\ \A b \in Int : Late(unhandled(p), b) => Late(unhandled(p)', b)
         /\ \A b \in Int : Late(unhandled(p), b) /\ Head(ctx[p].todo).op = "send" => Recvd(p) <= b
<1>1. unhandled(p) \in Seq(Wc) /\ unhandled(p) # <<>> /\ unhandled(p)[1] = Head(ctx[p].todo)
  BY UnhandledType, HandledUnhandled DEF TypeInv
<1> DEFINE u == unhandled(p)
           t == Tail(u)
<1>2. Recvd(p) = nrecvs(u, Len(u)) /\ Done(p) = Len(u) - nrecvs(u, Len(u))
  BY DEF Recvd, Done
<1>3. Recvd(p)' = nrecvs(t, Len(t)) /\ Done(p)' = Len(t) - nrecvs(t, Len(t))
  BY DEF Recvd, Done
<1>4. u \in Seq(Wc) /\ u # <<>> /\ u[1] = Head(ctx[p].todo) /\ unhandled(p)' = t /\ unhandled(p) = u
  BY <1>1
<1> HIDE DEF u
<1>5. /\ Len(t) = Len(u) - 1
      /\ u[1].op = "recv" => nrecvs(t, Len(t)) = nrecvs(u, Len(u)) - 1
      /\ u[1].op # "recv" => nrecvs(t, Len(t)) = nrecvs(u, Len(u))
      /\ \A b \in Int : Late(u, b) => Late(t, b)
      /\ \A b \in Int : Late(u, b) /\ u[1].op = "send" => nrecvs(u, Len(u)) <= b
  <2>1. 0 \in Int
    OBVIOUS
  <2>2. QED  BY <1>4, <2>1, TailCounts
<1>6. Len(u) \in Nat /\ nrecvs(u, Len(u)) \in Nat
  <2>1. Len(u) \in Nat
    BY <1>4
  <2>2. QED  BY <2>1, CountFinite
<1> DEFINE k == Len(u)
           j == nrecvs(u, Len(u))
           l == Len(t)
           i == nrecvs(t, Len(t))
<1>7. /\ k \in Nat /\ j \in Nat /\ l = k - 1 /\ Recvd(p) = j /\ Done(p) = k - j /\ Recvd(p)' = i /\ Done(p)' = l - i
      /\ Head(ctx[p].todo).op = "recv" => i = j - 1
      /\ Head(ctx[p].todo).op = "send" => i = j
  BY <1>2, <1>3, <1>4, <1>5, <1>6
<1> HIDE DEF k, j, l, i
<1>8. /\ Head(ctx[p].todo).op = "send" => Recvd(p)' = Recvd(p) /\ Done(p)' = Done(p) - 1
      /\ Head(ctx[p].todo).op = "recv" => Recvd(p)' = Recvd(p) - 1 /\ Done(p)' = Done(p)
  BY <1>7
<1>9. QED  BY <1>2, <1>4, <1>5, <1>8

LEMMA OnSendSide ==
  ASSUME TypeInv, NEW p \in Rank, NEW q \in Rank, p # q, other(p) = q, other(q) = p, Side(p), Side(q), on_send(p)
  PROVE  Side(p)' /\ Side(q)'
<1> DEFINE h == handled(ctx[p])
           scnt == ctx[p].scnt + 1
           enters == ~benchmark(p) /\ scnt = num_sent(p)
           barriers == IF enters THEN ctx[p].barriers + 1 ELSE ctx[p].barriers
           m == msgs(ctx[p].round)
<1>1. ctx[p] \in Context /\ ctx[p].todo # <<>> /\ ctx[p].pc = "handle" /\ Head(ctx[p].todo).op = "send"
  BY DEF TypeInv, Sound, on_send
<1>2. /\ ctx'[p] = [h EXCEPT !.scnt = scnt, !.barriers = barriers] /\ ctx'[q] = ctx[q]
      /\ dev' = dev
  BY DEF TypeInv, on_send
<1>3. h \in Context /\ h = [ctx[p] EXCEPT !.pc = h.pc, !.todo = h.todo] /\ h.pc \in {"handle", "loop"}
  BY <1>1, HandledSound
<1>4. (IF h.pc = "handle" THEN h.todo \o dev[p].cq ELSE dev[p].cq) = Tail(unhandled(p))
  BY <1>1, HandledUnhandled
<1>5. ctx[p].round \in Nat /\ ctx[p].scnt \in Nat /\ ctx[p].barriers \in Nat /\ ctx[p].round <= rounds /\ m \in Nat
  BY <1>1, Quantities DEF Side, PhaseInv, Busy
<1>6. enters <=> ctx[p].round > tests /\ scnt = m
  BY <1>5, NumSentMsgs, TestsType
<1> HIDE DEF h, scnt, barriers, enters, m
<1>7. /\ ctx'[p].pc = h.pc /\ ctx'[p].scnt = scnt /\ ctx'[p].rcnt = ctx[p].rcnt /\ ctx'[p].todo = h.todo
      /\ ctx'[p].round = ctx[p].round /\ ctx'[p].len = ctx[p].len /\ ctx'[p].barriers = barriers
  BY <1>1, <1>2, <1>3 DEF Context
<1>8. unhandled(p)' = Tail(unhandled(p))
  BY <1>2, <1>4, <1>7 DEF unhandled
<1>9. Recvd(p)' = Recvd(p) /\ Done(p)' = Done(p) - 1 /\ Due(p)' = Due(p)
  BY <1>1, <1>2, <1>8, HandledCounts DEF Due
<1>10. barriers \in {ctx[p].barriers, ctx[p].barriers + 1}
  BY DEF barriers
<1>11. Sent(p)' = Sent(p) /\ Sent(p) \in Nat /\ Side(q)'
  BY <1>1, <1>2, <1>3, <1>7, <1>10, QuietFrame
<1>12. Busy(p) /\ Busy(p)'
  BY <1>1, <1>3, <1>7 DEF Busy
<1>13. scnt + Done(p)' + dev[p].acks + dev[p].wire = m /\ scnt <= m /\ ~(ctx[p].scnt = m)
  <2>1. ctx[p].scnt + Done(p) + dev[p].acks + dev[p].wire = m
    BY <1>12 DEF Side, SendInv, m
  <2>2. Done(p)' \in Nat
    <3>1. unhandled(p)' \in Seq(Wc)
      BY <1>1, <1>8, UnhandledType, HandledUnhandled, TailOf DEF TypeInv
    <3> DEFINE t == unhandled(p)'
    <3>2. t \in Seq(Wc) /\ Done(p)' = Len(t) - nrecvs(t, Len(t))
      BY <3>1 DEF Done, Recvd
    <3> HIDE DEF t
    <3>3. QED  BY <3>2, CountBound
  <2>3. QED  BY <1>5, <1>9, <2>1, <2>2, Quantities DEF scnt
<1>14. ~Ended(p) /\ (Ended(p)' <=> enters)
  BY <1>1, <1>3, <1>6, <1>7, <1>12, <1>13 DEF Ended, m
<1>15. PhaseInv(p)'
  BY <1>3, <1>5, <1>7 DEF PhaseInv
<1>16. BarrierInv(p)'
  <2>1. ctx[p].barriers = ctx[p].round - 1 /\ ctx[q].barriers >= ctx[p].round - 1
    BY <1>14 DEF Side, BarrierInv
  <2>2. /\ enters => barriers = ctx[p].round
        /\ ~enters => barriers = ctx[p].round - 1
    BY <1>5, <2>1 DEF barriers
  <2>3. QED  BY <1>2, <1>3, <1>7, <1>14, <2>1, <2>2 DEF BarrierInv
<1>17. SendInv(p)'
  BY <1>2, <1>3, <1>7, <1>12, <1>13 DEF SendInv, m
<1>18. TestInv(p)'
  BY <1>3, <1>7, <1>9, <1>11, <1>12 DEF Side, TestInv
<1>19. MainInv(p)'
  <2>1. ctx[p].round > tests /\ ctx[p].round <= rounds => Late(unhandled(p), Sent(p) - dev[q].wire) /\ Due(p) <= half + Sent(p)
    BY <1>1 DEF Side, MainInv
  <2>2. Sent(p) - dev[q].wire \in Int /\ dev[q].wire \in Nat
    BY <1>11, Quantities
  <2>3. ctx[p].round > tests /\ ctx[p].round <= rounds => Recvd(p) <= Sent(p) - dev[q].wire /\ Late(unhandled(p)', Sent(p) - dev[q].wire)
    BY <1>1, <1>8, <2>1, <2>2, HandledCounts
  <2>4. ctx[p].round > tests /\ ctx[p].round <= rounds => Due(p) <= Sent(p)
    BY <1>11, <2>2, <2>3, Quantities DEF Due
  <2>5. ctx[p].round > tests /\ ctx[p].round <= rounds => Late(unhandled(p)', Sent(p)' - dev'[q].wire)
    BY <1>2, <1>11, <2>3
  <2>6. QED  BY <1>7, <1>9, <1>11, <2>1, <2>4, <2>5 DEF MainInv
<1>20. RoomInv(p)'
  BY <1>2, <1>7, <1>9, <1>11 DEF Side, RoomInv
<1>21. QED  BY <1>11, <1>15, <1>16, <1>17, <1>18, <1>19, <1>20 DEF Side

LEMMA OnRecvSide ==
  ASSUME TypeInv, NEW p \in Rank, NEW q \in Rank, p # q, other(p) = q, other(q) = p, Side(p), Side(q), pp_on_recv(p),
         ctx'[p].pc # "failed"
  PROVE  Side(p)' /\ Side(q)'
<1> DEFINE v == Received(ctx[p])
<1>1. ctx[p] \in Context /\ dev[p] \in Device /\ ctx[p].todo # <<>> /\ ctx[p].pc = "handle" /\ Head(ctx[p].todo).op = "recv"
      /\ ctx[p].len >= 1 /\ Len(ctx[p].list) = W
  BY DEF TypeInv, Sound, pp_on_recv
<1>2. v \in Context /\ v = [ctx[p] EXCEPT !.idx = (ctx[p].idx + 1) % W, !.len = ctx[p].len - 1, !.rcnt = ctx[p].rcnt + 1]
  BY <1>1, ReceivedType
<1> DEFINE i == (ctx[p].idx + 1) % W
<1> HIDE DEF v, i
<1>3. v.todo = ctx[p].todo /\ v.len = ctx[p].len - 1 /\ v.rcnt = ctx[p].rcnt + 1 /\ v.list = ctx[p].list
      /\ v.round = ctx[p].round /\ v.scnt = ctx[p].scnt /\ v.barriers = ctx[p].barriers /\ v.idx \in Slot
  BY <1>1, <1>2 DEF Context, i
<1>4. /\ ctx'[p].pc \in {"handle", "loop"} /\ ctx'[p].scnt = ctx[p].scnt /\ ctx'[p].rcnt = ctx[p].rcnt + 1
      /\ ctx'[p].round = ctx[p].round /\ ctx'[p].barriers = ctx[p].barriers
      /\ ctx'[p].len = (IF ctx[p].len - 1 = 0 THEN W ELSE ctx[p].len - 1)
      /\ ctx'[q] = ctx[q] /\ dev'[q] = dev[q]
      /\ dev'[p].wire = dev[p].wire /\ dev'[p].acks = dev[p].acks /\ dev'[p].cq = dev[p].cq
      /\ (IF ctx'[p].pc = "handle" THEN ctx'[p].todo \o dev'[p].cq ELSE dev'[p].cq) = Tail(unhandled(p))
  <2>1. CASE Head(ctx[p].todo).id # ctx[p].idx
    <3>1. ctx'[p] = [ctx[p] EXCEPT !.pc = "failed"]
      BY <2>1 DEF pp_on_recv, TypeInv
    <3>2. ctx'[p].pc = "failed"
      BY <1>1, <3>1 DEF Context
    <3>3. QED  BY <3>2
  <2>2. CASE Head(ctx[p].todo).id = ctx[p].idx /\ v.len # 0
    <3> DEFINE h == handled(v)
    <3>1. ctx'[p] = h /\ ctx'[q] = ctx[q] /\ dev' = dev
      BY <2>2 DEF pp_on_recv, v, TypeInv
    <3>2. h \in Context /\ h = [v EXCEPT !.pc = h.pc, !.todo = h.todo] /\ h.pc \in {"handle", "loop"}
      BY <1>1, <1>2, <1>3, HandledSound
    <3>3. (IF h.pc = "handle" THEN h.todo \o dev[p].cq ELSE dev[p].cq) = Tail(unhandled(p))
      BY <1>1, <1>2, <1>3, HandledUnhandled
    <3> HIDE DEF h
    <3>4. h.len = v.len /\ h.rcnt = v.rcnt /\ h.scnt = v.scnt /\ h.round = v.round /\ h.barriers = v.barriers
      BY <1>2, <3>2 DEF Context
    <3>5. QED  BY <1>3, <2>2, <3>1, <3>2, <3>3, <3>4
  <2>3. CASE Head(ctx[p].todo).id = ctx[p].idx /\ v.len = 0
    <3> DEFINE f == Refilled(v)
               h == handled(f)
               l == refill_ids(v.idx, 0)
    <3>1. ctx'[p] = h /\ ctx'[q] = ctx[q] /\ dev' = [dev EXCEPT ![p].srq = @ \o l]
      BY <2>3 DEF pp_on_recv, v, TypeInv
    <3>2. f \in Context /\ f = [v EXCEPT !.len = W, !.list = f.list]
      BY <1>1, <1>2, <1>3, RefilledSound
    <3> HIDE DEF f
    <3>3. f.todo = ctx[p].todo /\ f.len = W /\ f.rcnt = v.rcnt /\ f.scnt = v.scnt /\ f.round = v.round /\ f.barriers = v.barriers
      BY <1>2, <1>3, <3>2 DEF Context
    <3>4. h \in Context /\ h = [f EXCEPT !.pc = h.pc, !.todo = h.todo] /\ h.pc \in {"handle", "loop"}
      BY <1>1, <3>2, <3>3, HandledSound
    <3>5. (IF h.pc = "handle" THEN h.todo \o dev[p].cq ELSE dev[p].cq) = Tail(unhandled(p))
      BY <1>1, <3>2, <3>3, HandledUnhandled
    <3> HIDE DEF h
    <3>6. h.len = f.len /\ h.rcnt = f.rcnt /\ h.scnt = f.scnt /\ h.round = f.round /\ h.barriers = f.barriers
      BY <3>2, <3>4 DEF Context
    <3> HIDE DEF l
    <3>7. dev'[q] = dev[q] /\ dev'[p].wire = dev[p].wire /\ dev'[p].acks = dev[p].acks /\ dev'[p].cq = dev[p].cq
      BY <1>1, <3>1 DEF Device, TypeInv
    <3>8. QED  BY <1>3, <2>3, <3>1, <3>3, <3>4, <3>5, <3>6, <3>7
  <2>4. QED  BY <2>1, <2>2, <2>3
<1>5. unhandled(p)' = Tail(unhandled(p))
  BY <1>4 DEF unhandled
<1>6. Recvd(p)' = Recvd(p) - 1 /\ Done(p)' = Done(p) /\ Due(p)' = Due(p) - 1
  <2>1. Recvd(p)' = Recvd(p) - 1 /\ Done(p)' = Done(p)
    BY <1>1, <1>5, HandledCounts
  <2>2. Due(p) = Recvd(p) + dev[q].wire /\ Due(p)' = Recvd(p)' + dev[q].wire
    BY <1>4 DEF Due
  <2>3. QED  BY <2>1, <2>2, Quantities
<1>7. Sent(p)' = Sent(p) /\ Sent(p) \in Nat /\ Side(q)'
  BY <1>1, <1>4, QuietFrame
<1>8. Busy(p) /\ Busy(p)' /\ (Ended(p)' <=> Ended(p))
  BY <1>1, <1>4 DEF Busy, Ended
<1>9. PhaseInv(p)'
  BY <1>4, <1>8 DEF Side, PhaseInv
<1>10. BarrierInv(p)'
  BY <1>4, <1>8 DEF Side, BarrierInv
<1>11. SendInv(p)'
  BY <1>4, <1>6, <1>8 DEF Side, SendInv
<1>12. /\ Due(p) \in Nat /\ Due(p) >= 1 /\ ctx[p].rcnt \in Nat /\ ctx[p].len \in Nat /\ ctx[p].len >= 1
       /\ msgs(ctx[p].round) \in Nat /\ msgs(ctx[p].round) <= half /\ half \in Nat /\ half < W /\ W \in Nat
  <2>1. Recvd(p)' \in Nat
    <3>1. unhandled(p)' \in Seq(Wc)
      BY <1>1, <1>5, UnhandledType, HandledUnhandled, TailOf DEF TypeInv
    <3> DEFINE t == unhandled(p)'
    <3>2. t \in Seq(Wc) /\ Recvd(p)' = nrecvs(t, Len(t))
      BY <3>1 DEF Recvd
    <3> HIDE DEF t
    <3>3. QED  BY <3>2, CountBound
  <2>2. Recvd(p) \in Nat /\ dev[q].wire \in Nat /\ Due(p) = Recvd(p) + dev[q].wire
    BY Quantities DEF Due
  <2>3. Due(p) \in Nat /\ Due(p) >= 1
    BY <1>6, <2>1, <2>2
  <2>4. half < W
    BY HalfPositive
  <2>5. QED  BY <2>3, <2>4, HalfPositive, Quantities
<1>13. TestInv(p)'
  <2>1. ASSUME ctx[p].round <= tests
        PROVE  ctx[p].rcnt + 1 + Due(p)' = Sent(p) /\ ctx[p].rcnt + 1 + ctx'[p].len = W
    <3>1. ctx[p].rcnt + Due(p) = Sent(p) /\ ctx[p].rcnt + ctx[p].len = W
      BY <1>8, <2>1 DEF Side, TestInv
    <3>2. ~Ended(p)
      <4>1. ctx[p].round \in Nat /\ tests \in Nat
        BY Quantities, TestsType
      <4>2. QED  BY <1>1, <2>1, <4>1 DEF Ended
    <3>3. Sent(p) <= half
      BY <3>2, Sync
    <3>4. ctx[p].len - 1 # 0
      <4> DEFINE s == Sent(p)
                 d == Due(p)
                 c == ctx[p].rcnt
                 n == ctx[p].len
      <4>1. s <= half /\ c + d = s /\ c + n = W /\ c \in Nat /\ d \in Nat /\ d >= 1 /\ n \in Nat /\ s \in Nat
        BY <1>7, <1>12, <3>1, <3>3
      <4> HIDE DEF s, d, c, n
      <4>2. n - 1 # 0
        BY <1>12, <4>1
      <4>3. QED  BY <4>2 DEF n
    <3>5. ctx'[p].len = ctx[p].len - 1
      BY <1>4, <3>4
    <3>6. ctx[p].rcnt + 1 + ctx'[p].len = W
      BY <1>12, <3>1, <3>5
    <3>7. ctx[p].rcnt + 1 + (Due(p) - 1) = Sent(p)
      BY <1>12, <3>1
    <3>8. QED  BY <1>6, <3>6, <3>7
  <2>2. QED  BY <1>4, <1>7, <2>1 DEF TestInv
<1>14. MainInv(p)'
  <2>1. ctx[p].round > tests /\ ctx[p].round <= rounds => Late(unhandled(p), Sent(p) - dev[q].wire) /\ Due(p) <= half + Sent(p)
    BY <1>1 DEF Side, MainInv
  <2>2. Sent(p) - dev[q].wire \in Int
    BY <1>7, Quantities
  <2>3. ctx[p].round > tests /\ ctx[p].round <= rounds => Late(unhandled(p)', Sent(p)' - dev'[q].wire)
    BY <1>1, <1>4, <1>5, <1>7, <2>1, <2>2, HandledCounts
  <2>4. ctx[p].round > tests /\ ctx[p].round <= rounds => Due(p)' <= half + Sent(p)
    BY <1>6, <1>7, <1>12, <2>1
  <2>5. ctx[p].round > tests /\ ctx[p].round <= rounds /\ ctx[p].scnt >= 1 => Due(p)' <= Sent(p)
    BY <1>6, <1>7, <1>8, <1>12 DEF Side, MainInv
  <2>6. QED  BY <1>4, <1>7, <2>3, <2>4, <2>5 DEF MainInv
<1>15. RoomInv(p)'
  <2>1. ctx[p].round > tests /\ ctx[q].round <= ctx[p].round => Due(p) + msgs(ctx[p].round) - Sent(p) <= ctx[p].len
    BY DEF Side, RoomInv
  <2>2. ctx[p].round > tests /\ ctx[q].round <= ctx[p].round => Due(p)' + msgs(ctx[p].round) - Sent(p) <= ctx'[p].len
    BY <1>4, <1>6, <1>7, <1>12, <2>1
  <2>3. QED  BY <1>4, <1>7, <2>2 DEF RoomInv
<1>16. QED  BY <1>7, <1>9, <1>10, <1>11, <1>13, <1>14, <1>15 DEF Side

LEMMA LeaveLoopSide ==
  ASSUME TypeInv, NEW p \in Rank, NEW q \in Rank, p # q, other(p) = q, other(q) = p, Side(p), Side(q), leave_loop(p)
  PROVE  Side(p)' /\ Side(q)'
<1> DEFINE m == msgs(ctx[p].round)
<1>1. ctx[p] \in Context /\ ctx[p].pc = "loop" /\ dev' = dev
  BY DEF TypeInv, leave_loop
<1>2. ctx'[p] = [ctx[p] EXCEPT !.pc = "flush"] /\ ctx'[q] = ctx[q]
  BY DEF TypeInv, leave_loop
<1>3. /\ ctx'[p].pc = "flush" /\ ctx'[p].scnt = ctx[p].scnt /\ ctx'[p].rcnt = ctx[p].rcnt
      /\ ctx'[p].round = ctx[p].round /\ ctx'[p].len = ctx[p].len /\ ctx'[p].barriers = ctx[p].barriers
  BY <1>1, <1>2 DEF Context
<1>4. ctx[p].round \in Nat /\ ctx[p].round <= rounds /\ ctx[p].barriers \in Nat /\ ctx[q].barriers \in Nat
  BY <1>1, Quantities DEF Side, PhaseInv, Busy
<1>5. /\ ctx[p].scnt = m
      /\ ctx[p].round <= tests => ctx[p].rcnt = m
      /\ ctx[p].round > tests => ctx[q].barriers >= ctx[p].barriers
  <2>1. num_sent(p) = m /\ (benchmark(p) <=> ctx[p].round <= tests)
    BY <1>4, NumSentMsgs, TestsType
  <2>2. CASE all_counted(p)
    BY <1>4, <2>1, <2>2, TestsType DEF all_counted
  <2>3. CASE ~benchmark(p) /\ ctx[p].scnt = num_sent(p) /\ ctx[other(p)].barriers >= ctx[p].barriers
    BY <2>1, <2>3
  <2>4. QED  BY <2>2, <2>3 DEF leave_loop
<1> HIDE DEF m
<1>6. unhandled(p)' = unhandled(p)
  BY <1>1, <1>3 DEF unhandled
<1>7. Recvd(p)' = Recvd(p) /\ Done(p)' = Done(p) /\ Due(p)' = Due(p)
  BY <1>1, <1>6 DEF Recvd, Done, Due
<1>8. Sent(p)' = Sent(p) /\ Sent(p) \in Nat /\ Side(q)'
  BY <1>1, <1>2, <1>3, QuietFrame
<1>9. Busy(p) /\ Busy(p)' /\ (Ended(p)' <=> Ended(p)) /\ (ctx[p].round > tests => Ended(p))
  BY <1>1, <1>3, <1>5 DEF Busy, Ended, m
<1>10. PhaseInv(p)'
  BY <1>3, <1>4 DEF PhaseInv
<1>11. BarrierInv(p)'
  BY <1>2, <1>3, <1>5, <1>9 DEF Side, BarrierInv
<1>12. SendInv(p)'
  BY <1>1, <1>3, <1>5, <1>7, <1>9 DEF Side, SendInv, m
<1>13. TestInv(p)'
  BY <1>3, <1>5, <1>7, <1>8, <1>9 DEF Side, TestInv, m
<1>14. MainInv(p)'
  BY <1>3, <1>7, <1>8, <1>9 DEF Side, MainInv
<1>15. RoomInv(p)'
  BY <1>2, <1>3, <1>7, <1>8 DEF Side, RoomInv
<1>16. QED  BY <1>8, <1>10, <1>11, <1>12, <1>13, <1>14, <1>15 DEF Side

(* A completion joins what p has to handle. *)
LEMMA JoinsCounts ==
  ASSUME TypeInv, NEW o \in Rank, NEW e \in Wc, ctx'[o] = ctx[o], dev'[o].cq = Append(dev[o].cq, e)
  PROVE  /\ e.op = "recv" => Recvd(o)' = Recvd(o) + 1 /\ Done(o)' = Done(o)
         /\ e.op = "send" => Recvd(o)' = Recvd(o) /\ Done(o)' = Done(o) + 1
         /\ \A b \in Int : e.op = "recv" /\ Late(unhandled(o), b) => Late(unhandled(o)', b + 1)
         /\ \A b \in Nat : e.op = "send" /\ Late(unhandled(o), b) => Late(unhandled(o)', b)
<1>1. ctx[o].todo \in Seq(Wc) /\ dev[o].cq \in Seq(Wc) /\ unhandled(o) \in Seq(Wc)
  BY UnhandledType
<1>2. unhandled(o)' = Append(unhandled(o), e)
  <2>1. CASE ctx[o].pc = "handle"
    <3> DEFINE a == ctx[o].todo
               b == dev[o].cq
    <3>1. unhandled(o) = a \o b /\ unhandled(o)' = a \o Append(b, e) /\ a \in Seq(Wc) /\ b \in Seq(Wc)
      BY <1>1, <2>1 DEF unhandled
    <3> HIDE DEF a, b
    <3>2. a \o Append(b, e) = Append(a \o b, e)
      BY <3>1, ConcatAppend
    <3>3. QED  BY <3>1, <3>2
  <2>2. CASE ctx[o].pc # "handle"
    BY <2>2 DEF unhandled
  <2>3. QED  BY <2>1, <2>2
<1> DEFINE u == unhandled(o)
           t == Append(u, e)
<1>3. /\ Recvd(o) = nrecvs(u, Len(u)) /\ Done(o) = Len(u) - nrecvs(u, Len(u)) /\ unhandled(o)' = t /\ u \in Seq(Wc)
      /\ Recvd(o)' = nrecvs(t, Len(t)) /\ Done(o)' = Len(t) - nrecvs(t, Len(t)) /\ unhandled(o) = u
  BY <1>1, <1>2 DEF Recvd, Done
<1> HIDE DEF u
<1>4. /\ Len(t) = Len(u) + 1 /\ Len(u) \in Nat /\ nrecvs(u, Len(u)) \in Nat
      /\ e.op = "recv" => nrecvs(t, Len(t)) = nrecvs(u, Len(u)) + 1
      /\ e.op = "send" => nrecvs(t, Len(t)) = nrecvs(u, Len(u))
      /\ \A b \in Int : e.op = "recv" /\ Late(u, b) => Late(t, b + 1)
      /\ \A b \in Nat : e.op = "send" /\ Late(u, b) => Late(t, b)
  <2>1. 0 \in Int /\ 0 \in Nat
    OBVIOUS
  <2>2. Len(t) = Len(u) + 1 /\ Len(u) \in Nat
    BY <1>3, AppendIs
  <2>3. nrecvs(u, Len(u)) \in Nat
    BY <2>2, CountFinite
  <2>4. e.op = "recv" => nrecvs(t, Len(t)) = nrecvs(u, Len(u)) + 1 /\ \A b \in Int : Late(u, b) => Late(t, b + 1)
    BY <1>3, <2>1, AppendRecvCounts
  <2>5. e.op = "send" => nrecvs(t, Len(t)) = nrecvs(u, Len(u)) /\ \A b \in Nat : Late(u, b) => Late(t, b)
    BY <1>3, <2>1, AppendSendCounts
  <2>6. QED  BY <2>2, <2>3, <2>4, <2>5
<1> DEFINE k == Len(u)
           j == nrecvs(u, Len(u))
           l == Len(t)
           i == nrecvs(t, Len(t))
<1>5. /\ k \in Nat /\ j \in Nat /\ l = k + 1 /\ Recvd(o) = j /\ Done(o) = k - j /\ Recvd(o)' = i /\ Done(o)' = l - i
      /\ e.op = "recv" => i = j + 1
      /\ e.op = "send" => i = j
  BY <1>3, <1>4
<1> HIDE DEF k, j, l, i
<1>6. /\ e.op = "recv" => Recvd(o)' = Recvd(o) + 1 /\ Done(o)' = Done(o)
      /\ e.op = "send" => Recvd(o)' = Recvd(o) /\ Done(o)' = Done(o) + 1
  BY <1>5
<1>7. QED  BY <1>3, <1>4, <1>6

LEMMA DeliverSide ==
  ASSUME TypeInv, NEW p \in Rank, NEW q \in Rank, p # q, other(p) = q, other(q) = p, Side(p), Side(q), hca_deliver(p)
  PROVE  Side(p)' /\ Side(q)'
<1> DEFINE wc == [op |-> "recv", id |-> Head(dev[q].srq)]
<1>1. dev[p] \in Device /\ dev[q] \in Device /\ dev[p].wire > 0 /\ dev[p].wire \in Nat /\ dev[p].acks \in Nat
      /\ dev[q].srq \in Seq(Slot) /\ dev[q].srq # <<>> /\ dev[q].wire \in Nat
  BY UnhandledType, Quantities DEF TypeInv, hca_deliver
<1>2. wc \in Wc /\ wc.op = "recv"
  <2>1. Head(dev[q].srq) \in Slot
    BY <1>1
  <2>2. QED  BY <2>1 DEF Wc
<1>3. /\ ctx' = ctx
      /\ dev'[p] = [dev[p] EXCEPT !.wire = @ - 1, !.acks = @ + 1]
      /\ dev'[q] = [dev[q] EXCEPT !.srq = Tail(@), !.cq = Append(@, wc)]
  BY DEF TypeInv, hca_deliver
<1> HIDE DEF wc
<1>4. /\ dev'[p].wire = dev[p].wire - 1 /\ dev'[p].acks = dev[p].acks + 1 /\ dev'[p].cq = dev[p].cq
      /\ dev'[q].wire = dev[q].wire /\ dev'[q].acks = dev[q].acks /\ dev'[q].cq = Append(dev[q].cq, wc)
  BY <1>1, <1>3 DEF Device
<1>5. unhandled(p)' = unhandled(p)
  BY <1>3, <1>4 DEF unhandled
<1>6. Recvd(p)' = Recvd(p) /\ Done(p)' = Done(p) /\ Due(p)' = Due(p)
  BY <1>3, <1>4, <1>5 DEF Recvd, Done, Due
<1>7. /\ Recvd(q)' = Recvd(q) + 1 /\ Done(q)' = Done(q)
      /\ \A b \in Int : Late(unhandled(q), b) => Late(unhandled(q)', b + 1)
  BY <1>2, <1>3, <1>4, JoinsCounts
<1>8. Due(q)' = Due(q)
  <2>1. Due(q) = Recvd(q) + dev[p].wire /\ Due(q)' = Recvd(q)' + dev'[p].wire
    BY DEF Due
  <2>2. Due(q)' = (Recvd(q) + 1) + (dev[p].wire - 1) /\ Recvd(q) \in Nat
    BY <1>4, <1>7, <2>1, Quantities
  <2>3. \A a, b \in Nat : (a + 1) + (b - 1) = a + b
    OBVIOUS
  <2>4. QED  BY <1>1, <2>1, <2>2, <2>3
<1>9. \A o \in Rank : Sent(o)' = Sent(o) /\ (Busy(o)' <=> Busy(o)) /\ (Ended(o)' <=> Ended(o))
  BY <1>3 DEF Sent, posted, Busy, Ended
<1>10. Sent(p) \in Nat /\ Sent(q) \in Nat
  BY Sync
<1>11. \A o \in Rank : PhaseInv(o)' /\ BarrierInv(o)'
  <2>1. \A o \in Rank : o = p \/ o = q
    BY DEF Rank
  <2>2. QED  BY <1>3, <1>9, <2>1 DEF Side, PhaseInv, BarrierInv
<1>12. SendInv(p)'
  <2>1. Done(p) \in Nat /\ ctx[p].scnt \in Nat
    BY Quantities
  <2>2. Busy(p)
    BY <1>1 DEF Side, SendInv
  <2>3. ctx[p].scnt + Done(p) + dev[p].acks + dev[p].wire = msgs(ctx[p].round)
    BY <2>2 DEF Side, SendInv
  <2>4. ctx[p].scnt + Done(p) + (dev[p].acks + 1) + (dev[p].wire - 1) = msgs(ctx[p].round)
    <3> DEFINE a == dev[p].acks
               w == dev[p].wire
               d == Done(p)
               s == ctx[p].scnt
    <3>1. s + d + a + w = msgs(ctx[p].round) /\ s \in Nat /\ d \in Nat /\ a \in Nat /\ w \in Nat
      BY <1>1, <2>1, <2>3
    <3> HIDE DEF a, w, d, s
    <3>2. s + d + (a + 1) + (w - 1) = msgs(ctx[p].round)
      BY <3>1
    <3>3. QED  BY <3>2 DEF a, w, d, s
  <2>5. QED  BY <1>3, <1>4, <1>6, <1>9, <2>2, <2>4 DEF Side, SendInv
<1>13. SendInv(q)'
  BY <1>3, <1>4, <1>7, <1>9 DEF Side, SendInv
<1>14. TestInv(p)' /\ TestInv(q)'
  BY <1>3, <1>6, <1>8, <1>9 DEF Side, TestInv
<1>15. MainInv(p)'
  <2>1. Late(unhandled(p), Sent(p) - dev[q].wire) => Late(unhandled(p)', Sent(p)' - dev'[q].wire)
    BY <1>4, <1>5, <1>9
  <2>2. QED  BY <1>3, <1>6, <1>9, <2>1 DEF Side, MainInv
<1>16. MainInv(q)'
  <2>1. Late(unhandled(q), Sent(q) - dev[p].wire) => Late(unhandled(q)', Sent(q)' - dev'[p].wire)
    <3>1. Sent(q) - dev[p].wire \in Int /\ (Sent(q) - dev[p].wire) + 1 = Sent(q)' - dev'[p].wire
      BY <1>1, <1>4, <1>9, <1>10
    <3>2. Late(unhandled(q), Sent(q) - dev[p].wire) => Late(unhandled(q)', (Sent(q) - dev[p].wire) + 1)
      BY <1>7, <3>1
    <3>3. QED  BY <3>1, <3>2
  <2>2. QED  BY <1>3, <1>8, <1>9, <2>1 DEF Side, MainInv
<1>17. RoomInv(p)' /\ RoomInv(q)'
  BY <1>3, <1>6, <1>8, <1>9 DEF Side, RoomInv
<1>18. QED  BY <1>11, <1>12, <1>13, <1>14, <1>15, <1>16, <1>17 DEF Side

LEMMA CompleteSide ==
  ASSUME TypeInv, NEW p \in Rank, NEW q \in Rank, p # q, other(p) = q, other(q) = p, Side(p), Side(q), hca_complete(p)
  PROVE  Side(p)' /\ Side(q)'
<1> DEFINE wc == [op |-> "send"]
<1>1. dev[p] \in Device /\ dev[p].acks > 0 /\ dev[p].wire \in Nat /\ dev[p].acks \in Nat /\ dev[q].wire \in Nat
  BY Quantities DEF TypeInv, hca_complete
<1>2. wc \in Wc /\ wc.op = "send"
  BY DEF Wc
<1>3. /\ ctx' = ctx /\ dev'[q] = dev[q]
      /\ dev'[p] = [dev[p] EXCEPT !.acks = @ - 1, !.cq = Append(@, wc)]
  BY DEF TypeInv, hca_complete
<1> HIDE DEF wc
<1>4. dev'[p].wire = dev[p].wire /\ dev'[p].acks = dev[p].acks - 1 /\ dev'[p].cq = Append(dev[p].cq, wc)
  BY <1>1, <1>3 DEF Device
<1>5. /\ Recvd(p)' = Recvd(p) /\ Done(p)' = Done(p) + 1
      /\ \A b \in Nat : Late(unhandled(p), b) => Late(unhandled(p)', b)
  BY <1>2, <1>3, <1>4, JoinsCounts
<1>6. Due(p)' = Due(p)
  BY <1>3, <1>5 DEF Due
<1>7. Busy(p)
  BY <1>1 DEF Side, SendInv
<1>8. Sent(p)' = Sent(p) /\ Sent(p) \in Nat /\ Side(q)'
  <2>1. ctx[p].pc # "post"
    BY <1>7 DEF Busy
  <2>2. QED  BY <1>3, <1>4, <2>1, QuietFrame
<1>9. (Busy(p)' <=> Busy(p)) /\ (Ended(p)' <=> Ended(p))
  BY <1>3 DEF Busy, Ended
<1>10. PhaseInv(p)' /\ BarrierInv(p)'
  BY <1>3, <1>9 DEF Side, PhaseInv, BarrierInv
<1>11. SendInv(p)'
  <2>1. ctx[p].scnt + Done(p) + dev[p].acks + dev[p].wire = msgs(ctx[p].round) /\ Done(p) \in Nat /\ ctx[p].scnt \in Nat
    BY <1>7, Quantities DEF Side, SendInv
  <2>2. ctx[p].scnt + (Done(p) + 1) + (dev[p].acks - 1) + dev[p].wire = msgs(ctx[p].round)
    BY <1>1, <2>1
  <2>3. QED  BY <1>3, <1>4, <1>5, <1>7, <1>9, <2>2 DEF Side, SendInv
<1>12. TestInv(p)'
  BY <1>3, <1>6, <1>8, <1>9 DEF Side, TestInv
<1>13. MainInv(p)'
  <2>1. Sent(p) - dev[q].wire \in Nat
    BY <1>1, <1>8, Sync
  <2>2. Late(unhandled(p), Sent(p) - dev[q].wire) => Late(unhandled(p)', Sent(p)' - dev'[q].wire)
    BY <1>3, <1>5, <1>8, <2>1
  <2>3. QED  BY <1>3, <1>6, <1>8, <1>9, <2>2 DEF Side, MainInv
<1>14. RoomInv(p)'
  BY <1>3, <1>6, <1>8 DEF Side, RoomInv
<1>15. QED  BY <1>8, <1>10, <1>11, <1>12, <1>13, <1>14 DEF Side

(* A rank that starts a round: the other one is in the barrier of the last, or  *)
(* left it.                                                                     *)
LEMMA NextRound ==
  ASSUME TypeInv, NEW p \in Rank, NEW q \in Rank, p # q, other(p) = q, other(q) = p, Side(p), Side(q),
         ctx[q].barriers >= ctx[p].round, ctx[p].pc # "post",
         ctx'[q] = ctx[q], dev'[q] = dev[q], ctx'[p].round = ctx[p].round + 1, posted(p)' = 0,
         ctx'[p].barriers \in {ctx[p].barriers, ctx[p].barriers + 1}, dev'[p].wire = dev[p].wire
  PROVE  /\ Sent(p) \in Nat /\ Sent(p) >= msgs(ctx[p].round) /\ Sent(p)' = Sent(p) - msgs(ctx[p].round)
         /\ Side(q)'
<1> DEFINE m == msgs(ctx[p].round)
<1>1. /\ ctx[p].round \in Nat /\ ctx[q].round \in Nat /\ ctx[q].barriers \in Nat /\ ctx[p].barriers \in Nat
      /\ m \in Nat /\ posted(q) \in Nat /\ posted(p) = m /\ dev[p].wire \in Nat
  BY Quantities DEF posted
<1>2. posted(q)' = posted(q)
  BY DEF posted
<1>3. ctx[q].round = ctx[p].round \/ ctx[q].round = ctx[p].round + 1
  <2>1. ctx[q].round + 1 >= ctx[p].round /\ ctx[p].round + 1 >= ctx[q].round /\ (ctx[q].round < ctx[p].round => Ended(q))
    BY Sync
  <2>2. ctx[q].round < ctx[p].round => ctx[q].barriers = ctx[q].round
    BY <2>1 DEF Side, BarrierInv
  <2>3. QED  BY <1>1, <2>1, <2>2
<1>4. ctx[q].round = ctx[p].round => posted(q) = m
  <2> SUFFICES ASSUME ctx[q].round = ctx[p].round PROVE posted(q) = m
    OBVIOUS
  <2>1. ~Ended(q) => ctx[q].barriers = ctx[q].round - 1
    BY DEF Side, BarrierInv
  <2>2. Ended(q)
    BY <1>1, <2>1
  <2>3. ctx[q].pc # "post"
    BY <2>2, EndedSent DEF Side
  <2>4. QED  BY <2>3 DEF posted
<1> HIDE DEF m
<1>5. Sent(p) \in Nat /\ Sent(p) >= m /\ Sent(p)' = Sent(p) - m
  <2>1. CASE ctx[q].round = ctx[p].round
    <3>1. Sent(p) = m
      BY <1>1, <1>4, <2>1 DEF Sent
    <3>2. Sent(p)' = 0
      BY <1>1, <2>1 DEF Sent
    <3>3. QED  BY <1>1, <3>1, <3>2
  <2>2. CASE ctx[q].round = ctx[p].round + 1
    <3>1. Sent(p) = m + posted(q)
      BY <1>1, <2>2 DEF Sent, m
    <3>2. Sent(p)' = posted(q)
      BY <1>1, <1>2, <2>2 DEF Sent
    <3>3. QED  BY <1>1, <3>1, <3>2
  <2>3. QED  BY <1>3, <2>1, <2>2
<1>6. Sent(q)' = Sent(q) /\ Sent(q) \in Nat
  <2>1. CASE ctx[q].round = ctx[p].round
    <3>1. Sent(q) = m
      BY <1>1, <2>1 DEF Sent
    <3>2. Sent(q)' = m + 0
      BY <1>1, <2>1 DEF Sent, m
    <3>3. QED  BY <1>1, <3>1, <3>2
  <2>2. CASE ctx[q].round = ctx[p].round + 1
    <3>1. Sent(q) = 0
      BY <1>1, <2>2 DEF Sent
    <3>2. Sent(q)' = 0
      BY <1>1, <2>2 DEF Sent
    <3>3. QED  BY <3>1, <3>2
  <2>3. QED  BY <1>3, <2>1, <2>2
<1>7. Side(q)'
  <2>1. ctx'[p].round \in Nat /\ ctx'[p].round >= ctx[p].round /\ ctx'[p].barriers \in Nat /\ ctx'[p].barriers >= ctx[p].barriers
    BY <1>1
  <2>2. Sent(q)' - dev'[p].wire = Sent(q) - dev[p].wire
    BY <1>6
  <2>3. QED  BY <1>1, <1>6, <2>1, <2>2, SideFrame
<1>8. QED  BY <1>5, <1>7 DEF m

LEMMA AfterFlushIs ==
  ASSUME TypeInv, NEW r \in Rank, NEW c \in Context, c.round = ctx[r].round
  PROVE  LET d == after_flush(r, c)
         IN /\ d.len = c.len /\ d.scnt = c.scnt /\ d.rcnt = c.rcnt
            /\ c.round <= tests => d.pc = "barrier" /\ d.barriers = c.barriers + 1 /\ d.round = c.round
            /\ c.round > tests /\ c.round = rounds => d.pc = "barrier" /\ d.barriers = c.barriers + 1 /\ d.round = c.round + 1
            /\ c.round > tests /\ c.round # rounds => d.pc = "post" /\ d.barriers = c.barriers /\ d.round = c.round + 1
<1> DEFINE d == after_flush(r, c)
<1>1. (benchmark(r) <=> c.round <= tests) /\ c.round \in Nat /\ tests \in Nat
  BY TestsType, Fields
<1>2. CASE benchmark(r)
  <2>1. d = [c EXCEPT !.pc = "barrier", !.barriers = c.barriers + 1]
    BY <1>2 DEF after_flush
  <2> HIDE DEF d
  <2>2. d.len = c.len /\ d.scnt = c.scnt /\ d.rcnt = c.rcnt /\ d.pc = "barrier" /\ d.barriers = c.barriers + 1 /\ d.round = c.round
    BY <2>1 DEF Context
  <2>3. QED  BY <1>1, <1>2, <2>2 DEF d
<1>3. CASE ~benchmark(r) /\ c.round = rounds
  <2>1. d = [c EXCEPT !.pc = "barrier", !.barriers = c.barriers + 1, !.round = c.round + 1]
    BY <1>3 DEF after_flush
  <2> HIDE DEF d
  <2>2. d.len = c.len /\ d.scnt = c.scnt /\ d.rcnt = c.rcnt /\ d.pc = "barrier" /\ d.barriers = c.barriers + 1 /\ d.round = c.round + 1
    BY <2>1 DEF Context
  <2>3. QED  BY <1>1, <1>3, <2>2 DEF d
<1>4. CASE ~benchmark(r) /\ c.round # rounds
  <2>1. d = [c EXCEPT !.pc = "post", !.round = c.round + 1]
    BY <1>4 DEF after_flush
  <2> HIDE DEF d
  <2>2. d.len = c.len /\ d.scnt = c.scnt /\ d.rcnt = c.rcnt /\ d.pc = "post" /\ d.barriers = c.barriers /\ d.round = c.round + 1
    BY <2>1 DEF Context
  <2>3. QED  BY <1>1, <1>4, <2>2 DEF d
<1>5. QED  BY <1>2, <1>3, <1>4

(* A flush that leaves the window full, whatever it posted. *)
LEMMA FlushSide ==
  ASSUME TypeInv, NEW p \in Rank, NEW q \in Rank, p # q, other(p) = q, other(q) = p, Side(p), Side(q),
         ctx[p].pc = "flush", NEW c \in Context, c.len = W, c.round = ctx[p].round, c.barriers = ctx[p].barriers,
         c.scnt = ctx[p].scnt, c.rcnt = ctx[p].rcnt,
         ctx'[p] = after_flush(p, c), ctx'[q] = ctx[q], dev'[q] = dev[q],
         dev'[p].wire = dev[p].wire, dev'[p].acks = dev[p].acks, dev'[p].cq = dev[p].cq
  PROVE  Side(p)' /\ Side(q)'
<1> DEFINE R == ctx[p].round
           m == msgs(R)
           d == after_flush(p, c)
<1>1. /\ R \in Nat /\ R >= 1 /\ R <= rounds /\ tests \in Nat /\ rounds \in Nat /\ rounds > tests /\ m \in Nat
      /\ ctx[p].barriers \in Nat /\ ctx[q].barriers \in Nat /\ half \in Nat /\ half >= 1 /\ half + half <= W /\ W \in Nat
      /\ ctx[q].round \in Nat
  BY Quantities, TestsType, HalfPositive DEF Side, PhaseInv, Busy
<1>2. /\ d.len = W /\ d.scnt = ctx[p].scnt /\ d.rcnt = ctx[p].rcnt
      /\ R <= tests => d.pc = "barrier" /\ d.barriers = ctx[p].barriers + 1 /\ d.round = R
      /\ R > tests /\ R = rounds => d.pc = "barrier" /\ d.barriers = ctx[p].barriers + 1 /\ d.round = R + 1
      /\ R > tests /\ R # rounds => d.pc = "post" /\ d.barriers = ctx[p].barriers /\ d.round = R + 1
  BY AfterFlushIs
<1> HIDE DEF R, m, d
<1>3. /\ d.pc \in {"barrier", "post"} /\ ctx'[p] = d
      /\ ctx[p].scnt = m /\ Done(p) = 0 /\ dev[p].acks = 0 /\ dev[p].wire = 0
  <2>1. d.pc \in {"barrier", "post"}
    BY <1>1, <1>2
  <2>2. ctx[p].scnt = m /\ ctx[p].scnt + Done(p) + dev[p].acks + dev[p].wire = m
    BY DEF Side, SendInv, Busy, m, R
  <2>3. Done(p) = 0 /\ dev[p].acks = 0 /\ dev[p].wire = 0
    BY <1>1, <2>2, Quantities
  <2>4. QED  BY <2>1, <2>2, <2>3 DEF d
<1>4. unhandled(p)' = unhandled(p)
  BY <1>3 DEF unhandled
<1>5. Recvd(p)' = Recvd(p) /\ Done(p)' = 0 /\ Due(p)' = Due(p) /\ Due(p) \in Nat
  <2>1. Recvd(p)' = Recvd(p) /\ Done(p)' = Done(p)
    BY <1>4 DEF Recvd, Done
  <2>2. Due(p) = Recvd(p) + dev[q].wire /\ Due(p)' = Recvd(p)' + dev'[q].wire
    BY DEF Due
  <2>3. QED  BY <1>3, <2>1, <2>2, Quantities
<1>6. Busy(p) /\ ~Busy(p)'
  BY <1>3 DEF Busy
<1>7. SendInv(p)'
  BY <1>3, <1>5, <1>6 DEF SendInv
<1>8. CASE R <= tests
  <2>1. d.pc = "barrier" /\ d.barriers = ctx[p].barriers + 1 /\ d.round = R
    BY <1>2, <1>8
  <2>2. Sent(p)' = Sent(p) /\ Sent(p) \in Nat /\ Side(q)'
    BY <1>3, <2>1, QuietFrame DEF R
  <2>3. ~Ended(p) /\ Ended(p)'
    BY <1>1, <1>3, <1>8, <2>1 DEF Ended, R
  <2>4. PhaseInv(p)'
    BY <1>1, <1>3, <1>6, <1>8, <2>1 DEF PhaseInv
  <2>5. BarrierInv(p)'
    <3>1. ctx[p].barriers = R - 1 /\ ctx[q].barriers >= R - 1
      BY <2>3 DEF Side, BarrierInv, R
    <3>2. d.barriers = R
      BY <1>1, <2>1, <3>1
    <3>3. QED  BY <1>3, <2>1, <2>3, <3>1, <3>2 DEF BarrierInv
  <2>6. TestInv(p)'
    <3>1. ctx[p].rcnt + Due(p) = Sent(p) /\ ctx[p].rcnt = m
      BY <1>6, <1>8 DEF Side, TestInv, R, m
    <3>2. QED  BY <1>2, <1>3, <1>5, <1>6, <2>1, <2>2, <3>1 DEF TestInv, m
  <2>7. MainInv(p)'
    BY <1>1, <1>3, <1>8, <2>1 DEF MainInv
  <2>8. RoomInv(p)'
    BY <1>1, <1>3, <1>8, <2>1 DEF RoomInv
  <2>9. QED  BY <1>7, <2>2, <2>4, <2>5, <2>6, <2>7, <2>8 DEF Side
<1>9. CASE R > tests
  <2>1. d.round = R + 1 /\ msgs(R + 1) \in Nat /\ msgs(R + 1) <= half /\ m = half
    <3>1. d.round = R + 1
      BY <1>2, <1>9
    <3>2. R + 1 \in Nat /\ R + 1 >= 1
      BY <1>1
    <3>3. m = half
      BY <1>1, <1>9, MsgsType DEF m
    <3>4. QED  BY <3>1, <3>2, <3>3, MsgsType
  <2>2. Ended(p) /\ ctx[p].barriers = R /\ ctx[q].barriers >= R
    <3>1. Ended(p)
      BY <1>3, <1>6, <1>9 DEF Ended, R, m
    <3>2. QED  BY <1>9, <3>1 DEF Side, BarrierInv, R
  <2>3. posted(p)' = 0
    <3>1. d.pc = "post" \/ d.round = rounds + 1
      BY <1>2, <1>9
    <3>2. msgs(rounds + 1) = 0
      BY <1>1, MsgsType
    <3>3. QED  BY <1>3, <3>1, <3>2 DEF posted
  <2>4. /\ Sent(p) \in Nat /\ Sent(p) >= m /\ Sent(p)' = Sent(p) - m
        /\ Side(q)'
    <3>1. d.barriers \in {ctx[p].barriers, ctx[p].barriers + 1}
      BY <1>2, <1>9
    <3>2. QED  BY <1>3, <2>1, <2>2, <2>3, <3>1, NextRound DEF R, m
  <2>5. PhaseInv(p)'
    <3>1. d.pc = "post" => R # rounds
      BY <1>2, <1>9
    <3>2. d.pc = "post" => R + 1 <= rounds
      BY <1>1, <3>1
    <3>3. d.pc = "barrier" => R + 1 = rounds + 1
      BY <1>2, <1>9
    <3>4. QED  BY <1>3, <1>6, <2>1, <3>2, <3>3 DEF PhaseInv
  <2>6. BarrierInv(p)'
    <3>1. /\ Ended(p)' => d.barriers = R + 1
          /\ ~Ended(p)' => d.barriers = R
      <4>1. Ended(p)' <=> d.pc = "barrier"
        BY <1>3, <1>6 DEF Ended
      <4>2. QED  BY <1>2, <1>9, <2>2, <4>1
    <3>2. (R + 1) - 1 = R
      BY <1>1
    <3>3. QED  BY <1>3, <2>1, <2>2, <3>1, <3>2 DEF BarrierInv
  <2>7. TestInv(p)'
    <3>1. ~(R + 1 <= tests)
      BY <1>1, <1>9
    <3>2. QED  BY <1>3, <2>1, <3>1 DEF TestInv
  <2>8. Due(p) <= Sent(p)
    <3>1. ctx[p].scnt >= 1
      BY <1>1, <1>3, <2>1
    <3>2. QED  BY <1>1, <1>6, <1>9, <3>1 DEF Side, MainInv, R
  <2>9. Due(p) <= half + Sent(p)'
    BY <1>1, <1>5, <2>1, <2>4, <2>8
  <2>10. MainInv(p)'
    BY <1>3, <1>5, <1>6, <2>9 DEF MainInv
  <2>11. Due(p) + msgs(R + 1) - Sent(p)' <= W
    BY <1>1, <1>5, <2>1, <2>4, <2>8
  <2>12. RoomInv(p)'
    BY <1>2, <1>3, <1>5, <2>1, <2>11 DEF RoomInv
  <2>13. QED  BY <1>7, <2>4, <2>5, <2>6, <2>7, <2>10, <2>12 DEF Side
<1>10. QED  BY <1>1, <1>8, <1>9

LEMMA OnFlushSide ==
  ASSUME TypeInv, NEW p \in Rank, NEW q \in Rank, p # q, other(p) = q, other(q) = p, Side(p), Side(q), pp_on_flush(p)
  PROVE  Side(p)' /\ Side(q)'
<1> DEFINE f == Refilled(ctx[p])
           l == refill_ids(ctx[p].idx, ctx[p].len)
<1>1. ctx[p] \in Context /\ dev[p] \in Device /\ Len(ctx[p].list) = W /\ ctx[p].pc = "flush"
  BY DEF TypeInv, Sound, pp_on_flush
<1>2. ctx'[p] = after_flush(p, f) /\ ctx'[q] = ctx[q] /\ dev' = [dev EXCEPT ![p].srq = @ \o l]
  BY DEF pp_on_flush, TypeInv
<1>3. f \in Context /\ f = [ctx[p] EXCEPT !.len = W, !.list = f.list]
  BY <1>1, RefilledSound
<1> HIDE DEF f, l
<1>4. f.len = W /\ f.round = ctx[p].round /\ f.barriers = ctx[p].barriers /\ f.scnt = ctx[p].scnt /\ f.rcnt = ctx[p].rcnt
  BY <1>1, <1>3 DEF Context
<1>5. dev'[q] = dev[q] /\ dev'[p].wire = dev[p].wire /\ dev'[p].acks = dev[p].acks /\ dev'[p].cq = dev[p].cq
  BY <1>1, <1>2 DEF Device, TypeInv
<1>6. QED  BY <1>1, <1>2, <1>3, <1>4, <1>5, FlushSide

(* With a full window nothing is posted, or old entries are. *)
LEMMA FullFlushSide ==
  ASSUME TypeInv, NEW p \in Rank, NEW q \in Rank, p # q, other(p) = q, other(q) = p, Side(p), Side(q), pp_on_flush_full(p),
         stale' = {}
  PROVE  Side(p)' /\ Side(q)'
<1>1. ctx[p] \in Context /\ dev[p] \in Device /\ ctx[p].pc = "flush" /\ ctx[p].len = W
  BY DEF TypeInv, pp_on_flush_full
<1>2. PICK k \in 0 .. (IF stale = {} THEN Room ELSE 0) :
        /\ ctx' = [ctx EXCEPT ![p] = after_flush(p, @)]
        /\ dev' = [dev EXCEPT ![p].srq = @ \o SubSeq(ctx[p].list, 1, k)]
  BY DEF pp_on_flush_full
<1> DEFINE l == SubSeq(ctx[p].list, 1, k)
<1>3. ctx'[p] = after_flush(p, ctx[p]) /\ ctx'[q] = ctx[q]
  BY <1>2 DEF TypeInv
<1> HIDE DEF l
<1>4. dev'[q] = dev[q] /\ dev'[p].wire = dev[p].wire /\ dev'[p].acks = dev[p].acks /\ dev'[p].cq = dev[p].cq
  <2>1. dev' = [dev EXCEPT ![p].srq = @ \o l]
    BY <1>2 DEF l
  <2>2. QED  BY <1>1, <2>1 DEF Device, TypeInv
<1>5. QED  BY <1>1, <1>3, <1>4, FlushSide

LEMMA LeaveBarrierSide ==
  ASSUME TypeInv, NEW p \in Rank, NEW q \in Rank, p # q, other(p) = q, other(q) = p, Side(p), Side(q), leave_barrier(p)
  PROVE  Side(p)' /\ Side(q)'
<1> DEFINE R == ctx[p].round
           label == IF benchmark(p) /\ R < rounds THEN "post" ELSE "done"
           round == IF benchmark(p) THEN R + 1 ELSE R
           m == msgs(R)
<1>1. ctx[p] \in Context /\ ctx[p].pc = "barrier" /\ ctx[q].barriers >= ctx[p].barriers /\ dev' = dev
  BY DEF TypeInv, leave_barrier
<1>2. ctx'[p] = [ctx[p] EXCEPT !.pc = label, !.round = round] /\ ctx'[q] = ctx[q]
  BY DEF TypeInv, leave_barrier
<1>3. /\ R \in Nat /\ R >= 1 /\ tests \in Nat /\ rounds \in Nat /\ rounds > tests /\ m \in Nat
      /\ half \in Nat /\ half + half <= W /\ W \in Nat /\ (benchmark(p) <=> R <= tests)
      /\ ctx[p].barriers \in Nat /\ ctx[q].barriers \in Nat
      /\ Recvd(p) \in Nat /\ dev[q].wire \in Nat
  BY Quantities, TestsType, HalfPositive
<1>4. /\ R <= tests => label = "post" /\ round = R + 1
      /\ R > tests => label = "done" /\ round = R
  BY <1>3
<1> HIDE DEF R, label, round, m
<1>5. /\ ctx'[p].pc = label /\ ctx'[p].scnt = ctx[p].scnt /\ ctx'[p].rcnt = ctx[p].rcnt
      /\ ctx'[p].round = round /\ ctx'[p].len = ctx[p].len /\ ctx'[p].barriers = ctx[p].barriers
  BY <1>1, <1>2 DEF Context
<1>6. label \in {"post", "done"}
  BY <1>3, <1>4
<1>7. unhandled(p)' = unhandled(p)
  BY <1>1, <1>5, <1>6 DEF unhandled
<1>8. Recvd(p)' = Recvd(p) /\ Done(p)' = Done(p) /\ Due(p)' = Due(p) /\ Due(p) \in Nat
  BY <1>1, <1>3, <1>7 DEF Recvd, Done, Due
<1>9. ~Busy(p) /\ ~Busy(p)' /\ Ended(p) /\ ctx[p].barriers = R
  <2>1. Ended(p) /\ ~Busy(p) /\ ~Busy(p)'
    BY <1>1, <1>5, <1>6 DEF Busy, Ended
  <2>2. QED  BY <2>1 DEF Side, BarrierInv, R
<1>10. SendInv(p)'
  BY <1>1, <1>5, <1>6, <1>8, <1>9 DEF Side, SendInv
<1>11. CASE R <= tests
  <2>1. label = "post" /\ round = R + 1 /\ R + 1 <= rounds
    BY <1>3, <1>4, <1>11
  <2>2. posted(p)' = 0
    BY <1>5, <2>1 DEF posted
  <2>3. Sent(p) \in Nat /\ Sent(p) >= m /\ Sent(p)' = Sent(p) - m /\ Side(q)'
    BY <1>1, <1>2, <1>5, <1>9, <2>1, <2>2, NextRound DEF R, m
  <2>4. Due(p) = Sent(p)' /\ ctx[p].len = W
    <3>1. m + Due(p) = Sent(p) /\ ctx[p].len = W
      BY <1>1, <1>11 DEF Side, TestInv, R, m
    <3>2. QED  BY <1>3, <1>8, <2>3, <3>1
  <2>5. PhaseInv(p)'
    BY <1>5, <2>1 DEF PhaseInv
  <2>6. BarrierInv(p)'
    <3>1. ~Ended(p)'
      BY <1>5, <1>9, <2>1 DEF Ended
    <3>2. (R + 1) - 1 = R /\ ctx[q].barriers >= R
      BY <1>1, <1>3, <1>9
    <3>3. QED  BY <1>2, <1>5, <1>9, <2>1, <3>1, <3>2 DEF BarrierInv
  <2>7. TestInv(p)'
    BY <1>5, <1>8, <1>9, <2>1, <2>4 DEF TestInv
  <2>8. MainInv(p)'
    <3>1. Due(p) <= half + Sent(p)'
      BY <1>3, <1>8, <2>4
    <3>2. QED  BY <1>5, <1>8, <1>9, <2>1, <3>1 DEF MainInv
  <2>9. RoomInv(p)'
    <3>1. msgs(R + 1) \in Nat /\ msgs(R + 1) <= half
      <4>1. R + 1 \in Nat /\ R + 1 >= 1
        BY <1>3
      <4>2. QED  BY <4>1, MsgsType
    <3>2. Due(p) + msgs(R + 1) - Sent(p)' <= W
      BY <1>3, <1>8, <2>4, <3>1
    <3>3. QED  BY <1>5, <1>8, <2>1, <2>4, <3>2 DEF RoomInv
  <2>10. QED  BY <1>10, <2>3, <2>5, <2>6, <2>7, <2>8, <2>9 DEF Side
<1>12. CASE R > tests
  <2>1. label = "done" /\ round = R /\ R = rounds + 1
    <3>1. R <= tests \/ R = rounds + 1
      BY <1>1 DEF Side, PhaseInv, R
    <3>2. QED  BY <1>3, <1>4, <1>12, <3>1
  <2>2. Sent(p)' = Sent(p) /\ Side(q)'
    BY <1>1, <1>2, <1>5, <2>1, QuietFrame DEF R
  <2>3. Ended(p)'
    BY <1>5, <2>1 DEF Ended
  <2>4. PhaseInv(p)'
    BY <1>5, <1>9, <2>1 DEF PhaseInv
  <2>5. BarrierInv(p)'
    BY <1>1, <1>2, <1>5, <1>9, <2>1, <2>3 DEF Side, BarrierInv, R
  <2>6. TestInv(p)' /\ MainInv(p)'
    <3>1. ~(R <= tests) /\ ~(R <= rounds)
      BY <1>3, <2>1
    <3>2. QED  BY <1>5, <2>1, <3>1 DEF TestInv, MainInv
  <2>7. RoomInv(p)'
    BY <1>2, <1>5, <1>8, <2>1, <2>2 DEF Side, RoomInv, R
  <2>8. QED  BY <1>10, <2>2, <2>4, <2>5, <2>6, <2>7 DEF Side
<1>13. QED  BY <1>3, <1>11, <1>12

(****************************************************************************)
(* The theorem.                                                              *)
(****************************************************************************)
LEMMA WaitInit == Init => WaitInv
<1> SUFFICES ASSUME Init, NEW o \in Rank PROVE Side(o)
  BY DEF WaitInv
<1>1. TypeInv
  BY TypeInit
<1>2. \A r \in Rank : /\ ctx[r].pc = "post" /\ ctx[r].len = W /\ ctx[r].round = 1 /\ ctx[r].barriers = 0
                      /\ dev[r].wire = 0 /\ dev[r].acks = 0 /\ dev[r].cq = <<>>
  BY DEF Init
<1>3. other(o) \in Rank /\ unhandled(o) = <<>>
  BY <1>2, OtherRank DEF unhandled
<1>4. Recvd(o) = 0 /\ Done(o) = 0 /\ Due(o) = 0
  <2>1. Recvd(o) = nrecvs(<<>>, 0) /\ Done(o) = 0 - Recvd(o)
    BY <1>3 DEF Recvd, Done
  <2>2. nrecvs(<<>>, 0) = 0
    BY CountNone
  <2>3. QED  BY <1>2, <1>3, <2>1, <2>2 DEF Due
<1>5. Sent(o) = 0 /\ ~Busy(o) /\ ~Ended(o)
  BY <1>2, <1>3 DEF Sent, posted, Busy, Ended
<1>6. tests \in Nat /\ rounds \in Nat /\ rounds > tests /\ 1 <= rounds
  BY TestsType
<1>7. msgs(1) \in Nat /\ msgs(1) <= half /\ half \in Nat /\ half <= W /\ W \in Nat
  BY MsgsType, HalfPositive
<1>8. PhaseInv(o) /\ BarrierInv(o) /\ SendInv(o) /\ TestInv(o)
  BY <1>2, <1>3, <1>4, <1>5, <1>6 DEF PhaseInv, BarrierInv, SendInv, TestInv
<1>9. MainInv(o) /\ RoomInv(o)
  BY <1>2, <1>4, <1>5, <1>6, <1>7 DEF MainInv, RoomInv
<1>10. QED  BY <1>8, <1>9 DEF Side

LEMMA WaitStep ==
  ASSUME TypeInv, WaitInv, FailsOnlyAfterFullFlush', [Next]_vars
  PROVE  WaitInv'
<1> SUFFICES ASSUME stale' = {} PROVE \A o \in Rank : Side(o)'
  BY Zenon DEF WaitInv
<1>1. stale = {}
  BY Zenon DEF Next, vars, pp_post_send, poll_cq, on_send, pp_on_recv, leave_loop, pp_on_flush, pp_on_flush_full, leave_barrier,
         hca_deliver, hca_complete
<1>2. \A o \in Rank : Side(o)
  BY <1>1 DEF WaitInv
<1>3. \A o \in Rank : ctx'[o].pc # "failed"
  BY DEF FailsOnlyAfterFullFlush
<1>4. ASSUME NEW r \in Rank,
             \/ pp_post_send(r) \/ poll_cq(r) \/ on_send(r) \/ pp_on_recv(r) \/ leave_loop(r)
             \/ pp_on_flush(r) \/ pp_on_flush_full(r) \/ leave_barrier(r)
             \/ hca_deliver(r) \/ hca_complete(r)
      PROVE  \A o \in Rank : Side(o)'
  <2> DEFINE q == other(r)
  <2>1. q \in Rank /\ q # r /\ other(q) = r /\ \A o \in Rank : o = r \/ o = q
    BY OtherRank DEF Rank
  <2>2. Side(r) /\ Side(q) /\ ctx'[r].pc # "failed"
    BY <1>2, <1>3, <2>1
  <2>3. other(r) = q
    OBVIOUS
  <2> HIDE DEF q
  <2>4. pp_post_send(r) => Side(r)' /\ Side(q)'
    BY <2>1, <2>2, <2>3, PostSendSide
  <2>5. poll_cq(r) => Side(r)' /\ Side(q)'
    BY <2>1, <2>2, <2>3, PollSide
  <2>6. on_send(r) => Side(r)' /\ Side(q)'
    BY <2>1, <2>2, <2>3, OnSendSide
  <2>7. pp_on_recv(r) => Side(r)' /\ Side(q)'
    BY <2>1, <2>2, <2>3, OnRecvSide
  <2>8. leave_loop(r) => Side(r)' /\ Side(q)'
    BY <2>1, <2>2, <2>3, LeaveLoopSide
  <2>9. pp_on_flush(r) => Side(r)' /\ Side(q)'
    BY <2>1, <2>2, <2>3, OnFlushSide
  <2>10. pp_on_flush_full(r) => Side(r)' /\ Side(q)'
    BY <2>1, <2>2, <2>3, FullFlushSide
  <2>11. leave_barrier(r) => Side(r)' /\ Side(q)'
    BY <2>1, <2>2, <2>3, LeaveBarrierSide
  <2>12. hca_deliver(r) => Side(r)' /\ Side(q)'
    BY <2>1, <2>2, <2>3, DeliverSide
  <2>13. hca_complete(r) => Side(r)' /\ Side(q)'
    BY <2>1, <2>2, <2>3, CompleteSide
  <2>14. Side(r)' /\ Side(q)'
    BY <1>4, <2>4, <2>5, <2>6, <2>7, <2>8, <2>9, <2>10, <2>11, <2>12, <2>13
  <2>15. QED  BY <2>1, <2>14
<1>5. ASSUME UNCHANGED vars PROVE \A o \in Rank : Side(o)'
  <2>1. ctx' = ctx /\ dev' = dev
    BY <1>5 DEF vars
  <2>2. \A o \in Rank : Side(o)' <=> Side(o)
    BY <2>1 DEF Side, PhaseInv, BarrierInv, SendInv, TestInv, MainInv, RoomInv, Late, Due, Done, Recvd, Sent, posted,
                Busy, Ended, unhandled
  <2>3. QED  BY <1>2, <2>2
<1>6. QED  BY <1>4, <1>5 DEF Next

(* Messages that find no receive at a rank in the same round, or ahead, would   *)
(* be more than the window has room for.                                        *)
LEMMA WaitHolds ==
  ASSUME TypeInv, WindowTracks, WaitInv
  PROVE  WaitsOnlyAtLaggard
<1> SUFFICES ASSUME NEW r \in Rank, NEW o \in Rank, other(r) = o, other(o) = r, stale = {},
                    dev[r].wire > 0, dev[o].srq = <<>>, ~(ctx[o].round < ctx[r].round)
             PROVE  FALSE
  BY OtherRank DEF WaitsOnlyAtLaggard
<1>1. Side(r) /\ Side(o)
  BY DEF WaitInv
<1>2. /\ ctx[o].round \in Nat /\ ctx[o].round >= 1 /\ ctx[r].round \in Nat /\ dev[r].wire \in Nat /\ Recvd(o) \in Nat
      /\ ctx[o].len \in Nat /\ ctx[o].rcnt \in Nat /\ msgs(ctx[o].round) \in Nat /\ msgs(ctx[o].round) <= half
      /\ half \in Nat /\ half >= 1 /\ half + half <= W /\ W \in Nat /\ tests \in Nat /\ rounds \in Nat /\ rounds > tests
  BY Quantities, HalfPositive, TestsType
<1>3. Busy(r) /\ ~Ended(r) /\ ctx[r].round <= rounds
  <2>1. Busy(r) /\ ~Ended(r)
    BY <1>1, <1>2, EndedSent DEF Side, SendInv
  <2>2. QED  BY <1>1, <2>1 DEF Side, PhaseInv
<1>4. ctx[r].round = ctx[o].round
  BY <1>1, <1>2, <1>3, Sync
<1>5. Sent(o) = msgs(ctx[o].round)
  <2>1. posted(r) = msgs(ctx[r].round)
    BY <1>3 DEF posted, Busy
  <2>2. QED  BY <1>1, <1>4, <2>1, Sync
<1>6. Recvd(o) = ctx[o].len
  <2>1. Matches(unhandled(o), dev[o].srq, ctx[o].idx, ctx[o].len)
    BY <1>1, TracksIs DEF Live, Tracked, Side, PhaseInv
  <2>2. Recvd(o) + Len(<<>>) = ctx[o].len
    BY <2>1 DEF Matches, Recvd
  <2>3. Len(<<>>) = 0
    OBVIOUS
  <2>4. QED  BY <1>2, <2>2, <2>3
<1>7. Due(o) = ctx[o].len + dev[r].wire
  BY <1>6 DEF Due
<1> DEFINE n == ctx[o].len
           w == dev[r].wire
           c == ctx[o].rcnt
           m == msgs(ctx[o].round)
<1>8. n \in Nat /\ w \in Nat /\ w > 0 /\ c \in Nat /\ m \in Nat /\ m <= half /\ Due(o) = n + w /\ Sent(o) = m
  BY <1>2, <1>5, <1>7
<1>9. CASE ctx[o].round > tests
  <2>1. Due(o) + m - Sent(o) <= n
    BY <1>1, <1>2, <1>4, <1>9 DEF Side, RoomInv
  <2> HIDE DEF n, w, c, m
  <2>2. n + w + m - m <= n
    BY <1>8, <2>1
  <2>3. QED  BY <1>8, <2>2
<1>10. CASE ctx[o].round <= tests
  <2>1. \/ ctx[o].pc = "post" \/ Busy(o) \/ ctx[o].pc = "barrier"
    <3>1. ctx[o].pc # "failed" /\ ctx[o].pc # "done"
      BY <1>1, <1>2, <1>10 DEF Side, PhaseInv
    <3>2. ctx[o].pc \in {"post", "loop", "handle", "flush", "barrier", "done", "failed"}
      BY DEF TypeInv, Context
    <3>3. QED  BY <3>1, <3>2 DEF Busy
  <2>2. /\ ctx[o].pc = "post" => n + w = m /\ n = W
        /\ Busy(o) => c + (n + w) = m /\ c + n = W
        /\ ctx[o].pc = "barrier" => m + (n + w) = m /\ n = W
    BY <1>1, <1>8, <1>10 DEF Side, TestInv
  <2> HIDE DEF n, w, c, m
  <2>3. QED  BY <1>2, <1>8, <2>1, <2>2
<1>11. QED  BY <1>2, <1>9, <1>10

(* A message waits for a receive only at a rank that is a round behind its      *)
(* sender, for every size of the window: two ranks never wait for each other.   *)
THEOREM NoMutualWait == Spec => []WaitsOnlyAtLaggard
<1>1. TypeInv /\ WindowTracks /\ FailsOnlyAfterFullFlush /\ WaitInv /\ [Next]_vars
      => (TypeInv /\ WindowTracks /\ FailsOnlyAfterFullFlush /\ WaitInv)'
  BY TypeStep, TracksStep, FailsStep, WaitStep
<1>2. Init => TypeInv /\ WindowTracks /\ FailsOnlyAfterFullFlush /\ WaitInv
  BY TypeInit, TracksInit, WaitInit DEF Init, FailsOnlyAfterFullFlush
<1>3. TypeInv /\ WindowTracks /\ WaitInv => WaitsOnlyAtLaggard
  BY WaitHolds
<1>4. QED  BY <1>1, <1>2, <1>3, PTL DEF Spec
=============================================================================
