--------------------------- MODULE YmpiChannelProofs ---------------------------
(***************************************************************************)
(* Theorems about the messages of module Ympi: each one sent is waiting or *)
(* was returned, and every ordered pair of ranks has the FIFO channel of   *)
(* module ZChannel.  The inductive invariant is FlowInv: the messages from *)
(* p to q are numbered 1, 2, 3, ... through what was returned, what is     *)
(* pending, what is in the CQ of q, and what is in the send queue of p,    *)
(* and each vbuf on the way holds the message of its place in that order.  *)
(* The programs of module YmpiApp inherit these theorems and those of      *)
(* module YmpiProofs: what they run is the core.                           *)
(* A program whose calls match (AppInv) also ends with all received.       *)
(***************************************************************************)
EXTENDS YmpiProofs, YmpiApp

Numbered(src, n) == [src |-> src, n |-> n]

\* g: what was returned of the messages of src.
ReturnedOK(src, g) == \A i \in 1 .. Len(g) : g[i] = Channel!Message(src, i)

\* pending: the vbufs with the messages that follow number n.
PendingOK(src, n, pending, bytes, len) ==
  \A i \in 1 .. Len(pending) : /\ bytes[pending[i]] = Numbered(src, n + i)
                               /\ len[pending[i]] = Numbered(src, n + i)

\* cq: the completions of the messages that follow number n.
CqOK(src, n, cq, bytes) ==
  \A i \in 1 .. Len(cq) : /\ cq[i].msg = Numbered(src, n + i)
                          /\ bytes[cq[i].id] = Numbered(src, n + i)

\* s: a send queue whose first d WRs are done; the sends behind them have the
\* numbers n + 1, ..., last, in this order.
SendsOK(s, d, n, last) ==
  /\ n <= last
  /\ \A i \in d + 1 .. Len(s) : s[i].kind = "send" => s[i].n \in n + 1 .. last
  /\ \A i, j \in d + 1 .. Len(s) :
       s[i].kind = "send" /\ s[j].kind = "send" /\ i < j => s[i].n < s[j].n
  /\ \A k \in n + 1 .. last : \E i \in d + 1 .. Len(s) : s[i].kind = "send" /\ s[i].n = k

FlowOK(src, g, pending, cq, bytes, len, s, d, last) ==
  /\ ReturnedOK(src, g)
  /\ PendingOK(src, Len(g), pending, bytes, len)
  /\ CqOK(src, Len(g) + Len(pending), cq, bytes)
  /\ SendsOK(s, d, Len(g) + Len(pending) + Len(cq), last)

Flow(p, q) == FlowOK(p, got[q][p], pending_recv_queue[q][p], rcq[q][p], data[q], buf_bytes[q],
                     sq[p][q], done[p][q], sent[p][q])

FlowInv == \A p, q \in Proc : Flow(p, q)

--------------------------------------------------------------------------------
(* The send queue. *)

LEMMA SendsAppend ==
  ASSUME NEW s \in Seq(WR), NEW d \in Nat, d <= Len(s), NEW n \in Nat, NEW last \in Nat,
         SendsOK(s, d, n, last), NEW wr \in WR
  PROVE  /\ wr.kind # "send" => SendsOK(Append(s, wr), d, n, last)
         /\ wr.kind = "send" /\ wr.n = last + 1 => SendsOK(Append(s, wr), d, n, last + 1)
<1> DEFINE t == Append(s, wr)
<1>1. Len(t) = Len(s) + 1 /\ Len(s) \in Nat
  OBVIOUS
<1>2. \A i \in 1 .. Len(s) + 1 : t[i] = IF i = Len(s) + 1 THEN wr ELSE s[i]
  OBVIOUS
<1> HIDE DEF t
<1>3. /\ t[Len(s) + 1] = wr /\ Len(s) + 1 \in d + 1 .. Len(t)
      /\ \A i \in d + 1 .. Len(s) : t[i] = s[i] /\ i \in d + 1 .. Len(t)
      /\ \A i \in d + 1 .. Len(t) : i = Len(s) + 1 \/ i \in d + 1 .. Len(s)
  BY <1>1, <1>2
<1>4. CASE wr.kind # "send"
  BY <1>3, <1>4 DEF SendsOK, t
<1>5. ASSUME wr.kind = "send", wr.n = last + 1 PROVE SendsOK(t, d, n, last + 1)
  <2>1. n <= last + 1
    BY DEF SendsOK
  <2>2. ASSUME NEW i \in d + 1 .. Len(t), t[i].kind = "send" PROVE t[i].n \in n + 1 .. last + 1
    <3>1. CASE i = Len(s) + 1
      BY <1>3, <1>5, <3>1 DEF SendsOK
    <3>2. CASE i \in d + 1 .. Len(s)
      BY <1>3, <2>2, <3>2 DEF SendsOK
    <3>3. QED  BY <1>3, <3>1, <3>2
  <2>3. ASSUME NEW i \in d + 1 .. Len(t), NEW j \in d + 1 .. Len(t),
               t[i].kind = "send", t[j].kind = "send", i < j
        PROVE  t[i].n < t[j].n
    <3>1. i \in d + 1 .. Len(s)
      BY <1>1, <2>3
    <3>2. t[i].n \in n + 1 .. last
      BY <1>3, <2>3, <3>1 DEF SendsOK
    <3>3. CASE j = Len(s) + 1
      BY <1>3, <1>5, <3>2, <3>3
    <3>4. CASE j \in d + 1 .. Len(s)
      BY <1>3, <2>3, <3>1, <3>4 DEF SendsOK
    <3>5. QED  BY <1>3, <3>3, <3>4
  <2>4. ASSUME NEW k \in n + 1 .. last + 1
        PROVE  \E i \in d + 1 .. Len(t) : t[i].kind = "send" /\ t[i].n = k
    <3>1. CASE k = last + 1
      BY <1>3, <1>5, <3>1
    <3>2. CASE k \in n + 1 .. last
      <4>1. PICK i \in d + 1 .. Len(s) : s[i].kind = "send" /\ s[i].n = k
        BY <3>2 DEF SendsOK
      <4>2. QED  BY <1>3, <4>1
    <3>3. QED  BY <3>1, <3>2
  <2>5. QED  BY <2>1, <2>2, <2>3, <2>4 DEF SendsOK
<1>6. QED  BY <1>4, <1>5 DEF t

LEMMA SendsTail ==
  ASSUME NEW s \in Seq(WR), NEW d \in Nat, 0 < d, d <= Len(s), NEW n \in Nat, NEW last \in Nat,
         SendsOK(s, d, n, last)
  PROVE  SendsOK(Tail(s), d - 1, n, last)
<1> DEFINE t == Tail(s)
           e == d - 1
<1>1. Len(t) = Len(s) - 1 /\ Len(s) \in Nat \ {0} /\ e \in Nat /\ e = d - 1
  OBVIOUS
<1>2. \A i \in 1 .. Len(s) - 1 : t[i] = s[i + 1]
  OBVIOUS
<1> HIDE DEF t, e
<1>3. \A i \in e + 1 .. Len(t) : t[i] = s[i + 1] /\ i + 1 \in d + 1 .. Len(s)
  BY <1>1, <1>2
<1>4. \A i \in d + 1 .. Len(s) : i - 1 \in e + 1 .. Len(t) /\ t[i - 1] = s[i]
  <2> TAKE i \in d + 1 .. Len(s)
  <2>1. i - 1 \in e + 1 .. Len(t) /\ i - 1 \in 1 .. Len(s) - 1 /\ (i - 1) + 1 = i
    BY <1>1
  <2>2. QED  BY <1>2, <2>1
<1>5. ASSUME NEW i \in e + 1 .. Len(t), t[i].kind = "send" PROVE t[i].n \in n + 1 .. last
  <2>1. t[i] = s[i + 1] /\ i + 1 \in d + 1 .. Len(s)
    BY <1>3
  <2>2. QED  BY <1>5, <2>1 DEF SendsOK
<1>6. ASSUME NEW i \in e + 1 .. Len(t), NEW j \in e + 1 .. Len(t),
             t[i].kind = "send", t[j].kind = "send", i < j
      PROVE  t[i].n < t[j].n
  <2>1. i + 1 < j + 1
    BY <1>1, <1>6
  <2>2. /\ t[i] = s[i + 1] /\ i + 1 \in d + 1 .. Len(s)
        /\ t[j] = s[j + 1] /\ j + 1 \in d + 1 .. Len(s)
    BY <1>3
  <2>3. QED  BY <1>6, <2>1, <2>2 DEF SendsOK
<1>7. ASSUME NEW k \in n + 1 .. last PROVE \E i \in e + 1 .. Len(t) : t[i].kind = "send" /\ t[i].n = k
  <2>1. PICK i \in d + 1 .. Len(s) : s[i].kind = "send" /\ s[i].n = k
    BY DEF SendsOK
  <2>2. QED  BY <1>4, <2>1
<1>8. SendsOK(t, e, n, last)
  BY <1>5, <1>6, <1>7 DEF SendsOK
<1>9. QED  BY <1>8 DEF t, e

LEMMA SendsDeliver ==
  ASSUME NEW s \in Seq(WR), NEW d \in Nat, d < Len(s), NEW n \in Nat, NEW last \in Nat,
         SendsOK(s, d, n, last)
  PROVE  /\ s[d + 1].kind # "send" => SendsOK(s, d + 1, n, last)
         /\ s[d + 1].kind = "send" => s[d + 1].n = n + 1 /\ SendsOK(s, d + 1, n + 1, last)
<1>1. Len(s) \in Nat /\ d + 1 \in d + 1 .. Len(s)
  OBVIOUS
<1>2. \A i \in d + 1 .. Len(s) : i # d + 1 => i \in (d + 1) + 1 .. Len(s) /\ d + 1 < i
  BY <1>1
<1>3. \A i \in (d + 1) + 1 .. Len(s) : i \in d + 1 .. Len(s) /\ d + 1 < i
  BY <1>1
<1>4. CASE s[d + 1].kind # "send"
  <2>1. ASSUME NEW k \in n + 1 .. last
        PROVE  \E i \in (d + 1) + 1 .. Len(s) : s[i].kind = "send" /\ s[i].n = k
    <3>1. PICK i \in d + 1 .. Len(s) : s[i].kind = "send" /\ s[i].n = k
      BY DEF SendsOK
    <3>2. i # d + 1
      BY <1>4, <3>1
    <3>3. QED  BY <1>2, <3>1, <3>2
  <2>2. QED  BY <1>3, <1>4, <2>1 DEF SendsOK
<1>5. CASE s[d + 1].kind = "send"
  <2>1. s[d + 1].n \in n + 1 .. last
    BY <1>1, <1>5 DEF SendsOK
  <2>2. PICK j \in d + 1 .. Len(s) : s[j].kind = "send" /\ s[j].n = n + 1
    <3>1. n + 1 \in n + 1 .. last
      BY <2>1
    <3>2. QED  BY <3>1 DEF SendsOK
  <2>3. j = d + 1
    <3>1. SUFFICES ASSUME j # d + 1 PROVE FALSE
      OBVIOUS
    <3>2. d + 1 < j
      BY <1>2, <3>1
    <3>3. s[d + 1].n < s[j].n
      BY <1>1, <1>5, <2>2, <3>2 DEF SendsOK
    <3>4. QED  BY <2>1, <2>2, <3>3
  <2>4. s[d + 1].n = n + 1
    BY <2>2, <2>3
  <2>5. n + 1 <= last
    BY <2>1
  <2>6. ASSUME NEW i \in (d + 1) + 1 .. Len(s), s[i].kind = "send"
        PROVE  s[i].n \in (n + 1) + 1 .. last
    <3>1. s[i].n \in n + 1 .. last /\ s[d + 1].n < s[i].n
      BY <1>1, <1>3, <1>5, <2>6 DEF SendsOK
    <3>2. QED  BY <2>4, <3>1
  <2>7. ASSUME NEW k \in (n + 1) + 1 .. last
        PROVE  \E i \in (d + 1) + 1 .. Len(s) : s[i].kind = "send" /\ s[i].n = k
    <3>1. k \in n + 1 .. last /\ k # n + 1
      OBVIOUS
    <3>2. PICK i \in d + 1 .. Len(s) : s[i].kind = "send" /\ s[i].n = k
      BY <3>1 DEF SendsOK
    <3>3. i # d + 1
      BY <2>4, <3>1, <3>2
    <3>4. QED  BY <1>2, <3>2, <3>3
  <2>8. \A i, j2 \in (d + 1) + 1 .. Len(s) :
          s[i].kind = "send" /\ s[j2].kind = "send" /\ i < j2 => s[i].n < s[j2].n
    BY <1>3 DEF SendsOK
  <2>9. SendsOK(s, d + 1, n + 1, last)
    BY <2>5, <2>6, <2>7, <2>8 DEF SendsOK
  <2>10. QED  BY <1>5, <2>4, <2>9
<1>6. QED  BY <1>4, <1>5

(* As many sends are behind the first d WRs as there are numbers left. *)
LEMMA SendsCount ==
  ASSUME NEW s \in Seq(WR), NEW d \in Nat, NEW n \in Nat, NEW last \in Nat, SendsOK(s, d, n, last)
  PROVE  Cardinality({i \in d + 1 .. Len(s) : s[i].kind = "send"}) = last - n
<1> DEFINE S == {i \in d + 1 .. Len(s) : s[i].kind = "send"}
           T == n + 1 .. last
           f == [i \in S |-> s[i].n]
<1>1. n <= last /\ Len(s) \in Nat
  BY DEF SendsOK
<1>2. IsFiniteSet(T) /\ Cardinality(T) = last - n
  <2>1. IsFiniteSet(T) /\ Cardinality(T) = IF n + 1 > last THEN 0 ELSE last - (n + 1) + 1
    BY FS_Interval
  <2>2. QED  BY <1>1, <2>1
<1>3. f \in [S -> T]
  BY DEF SendsOK
<1>4. ASSUME NEW i \in S, NEW j \in S, f[i] = f[j] PROVE i = j
  <2>1. i \in Nat /\ j \in Nat /\ s[i].n = s[j].n /\ s[i].n \in Int /\ s[j].n \in Int
    BY <1>1, <1>3, <1>4
  <2>2. ~ (i < j) /\ ~ (j < i)
    BY <2>1 DEF SendsOK
  <2>3. QED  BY <2>1, <2>2
<1>5. ASSUME NEW k \in T PROVE \E i \in S : f[i] = k
  BY DEF SendsOK
<1> HIDE DEF f, S, T
<1>6. f \in Injection(S, T) /\ f \in Surjection(S, T)
  BY <1>3, <1>4, <1>5 DEF Injection, IsInjective, Surjection
<1>7. Cardinality(S) = Cardinality(T)
  BY <1>2, <1>6, FS_Injection
<1>8. QED  BY <1>2, <1>7 DEF S

--------------------------------------------------------------------------------
(* One message on its way. *)
Got == [data : Msg, len : Msg]

(* The messages that have left the send queue are counted by the three other queues. *)
LEMMA FlowSends ==
  ASSUME NEW src, NEW g \in Seq(Got), NEW pending \in Seq(Vbuf), NEW cq \in Seq(Recv), NEW bytes, NEW len,
         NEW s, NEW d, NEW last, FlowOK(src, g, pending, cq, bytes, len, s, d, last)
  PROVE  /\ Len(g) + Len(pending) + Len(cq) \in Nat
         /\ SendsOK(s, d, Len(g) + Len(pending) + Len(cq), last)
  BY DEF FlowOK

(* Vbufs that hold none of the messages may change. *)
LEMMA FlowFrame ==
  ASSUME NEW src, NEW g, NEW pending, NEW cq, NEW bytes, NEW len, NEW s, NEW d, NEW last,
         FlowOK(src, g, pending, cq, bytes, len, s, d, last), NEW bytes2, NEW len2,
         \A v \in Elems(pending) : bytes2[v] = bytes[v] /\ len2[v] = len[v],
         \A i \in 1 .. Len(cq) : bytes2[cq[i].id] = bytes[cq[i].id]
  PROVE  FlowOK(src, g, pending, cq, bytes2, len2, s, d, last)
<1>1. PendingOK(src, Len(g), pending, bytes2, len2)
  BY DEF FlowOK, PendingOK, Elems
<1>2. CqOK(src, Len(g) + Len(pending), cq, bytes2)
  BY DEF FlowOK, CqOK
<1>3. QED  BY <1>1, <1>2 DEF FlowOK

(* An index of a queue that has grown by one is the new place or an old one. *)
LEMMA OldIndex ==
  ASSUME NEW k \in Nat, NEW m, m = k + 1, NEW i \in 1 .. m, i # k + 1
  PROVE  i \in 1 .. k + 1 /\ i \in 1 .. k
  OBVIOUS

(* The HCA puts the next message into vbuf v. *)
LEMMA FlowDeliver ==
  ASSUME NEW src, NEW g \in Seq(Got), NEW pending \in Seq(Vbuf), NEW cq \in Seq(Recv), NEW bytes, NEW len,
         NEW s \in Seq(WR), NEW d \in Nat, d < Len(s), NEW last \in Nat,
         FlowOK(src, g, pending, cq, bytes, len, s, d, last),
         s[d + 1].kind = "send",
         NEW c \in Recv, c.msg = Numbered(src, s[d + 1].n), NEW bytes2, bytes2[c.id] = c.msg,
         \A v \in Elems(pending) : bytes2[v] = bytes[v],
         \A i \in 1 .. Len(cq) : bytes2[cq[i].id] = bytes[cq[i].id]
  PROVE  FlowOK(src, g, pending, Append(cq, c), bytes2, len, s, d + 1, last)
<1> DEFINE before == Len(g) + Len(pending)
           n == before + Len(cq)
           t == Append(cq, c)
<1>1. before \in Nat /\ Len(cq) \in Nat /\ n \in Nat
  OBVIOUS
<1>2. FlowOK(src, g, pending, cq, bytes2, len, s, d, last)
  BY FlowFrame
<1>3. SendsOK(s, d, n, last)
  BY DEF FlowOK
<1>4. /\ Len(t) = Len(cq) + 1
      /\ \A i \in 1 .. Len(cq) + 1 : t[i] = IF i = Len(cq) + 1 THEN c ELSE cq[i]
  OBVIOUS
<1>5. CqOK(src, before, cq, bytes2)
  BY <1>2 DEF FlowOK
<1> HIDE DEF before, n, t
<1>6. s[d + 1].n = n + 1 /\ SendsOK(s, d + 1, n + 1, last)
  BY <1>1, <1>3, SendsDeliver
<1>7. n + 1 = before + Len(t) /\ n + 1 = before + (Len(cq) + 1)
  BY <1>1, <1>4 DEF n
<1>8. CqOK(src, before, t, bytes2)
  <2>1. ASSUME NEW i \in 1 .. Len(t)
        PROVE  t[i].msg = Numbered(src, before + i) /\ bytes2[t[i].id] = Numbered(src, before + i)
    <3>1. CASE i = Len(cq) + 1
      BY <1>4, <1>6, <1>7, <3>1
    <3>2. CASE i # Len(cq) + 1
      <4>1. i \in 1 .. Len(cq) + 1 /\ i \in 1 .. Len(cq)
        BY <1>1, <1>4, <3>2, OldIndex, Zenon
      <4>2. t[i] = cq[i]
        BY <1>4, <3>2, <4>1
      <4>3. cq[i].msg = Numbered(src, before + i) /\ bytes[cq[i].id] = Numbered(src, before + i)
        BY <1>5, <4>1 DEF CqOK
      <4>4. bytes2[cq[i].id] = bytes[cq[i].id]
        BY <4>1
      <4>5. QED  BY <4>2, <4>3, <4>4
    <3>3. QED  BY <3>1, <3>2
  <2>2. QED  BY <2>1 DEF CqOK
<1>9. SendsOK(s, d + 1, before + Len(t), last)
  BY <1>6, <1>7
<1>10. ReturnedOK(src, g) /\ PendingOK(src, Len(g), pending, bytes2, len)
  BY <1>2 DEF FlowOK
<1>11. QED  BY <1>8, <1>9, <1>10 DEF FlowOK, before, t

(* process_wc takes the first completion: its length becomes that of the vbuf. *)
LEMMA FlowHandle ==
  ASSUME NEW src, NEW g \in Seq(Got), NEW pending \in Seq(Vbuf), NEW cq \in Seq(Recv), cq # <<>>,
         NEW bytes, NEW len, NEW s, NEW d, NEW last,
         FlowOK(src, g, pending, cq, bytes, len, s, d, last),
         NEW len2, len2[Head(cq).id] = Head(cq).msg,
         \A v \in Elems(pending) : len2[v] = len[v]
  PROVE  FlowOK(src, g, Append(pending, Head(cq).id), Tail(cq), bytes, len2, s, d, last)
<1> DEFINE v == Head(cq).id
           u == Append(pending, v)
           t == Tail(cq)
<1>1. Len(g) \in Nat /\ Len(pending) \in Nat /\ Len(cq) \in Nat \ {0} /\ Head(cq) = cq[1]
  OBVIOUS
<1>2. Len(t) = Len(cq) - 1 /\ \A i \in 1 .. Len(cq) - 1 : t[i] = cq[i + 1]
  BY <1>1
<1>3. v \in Vbuf
  <2>1. Head(cq) \in Recv
    BY QueueParts
  <2>2. QED  BY <2>1 DEF Recv
<1> HIDE DEF v
<1>4. /\ Len(u) = Len(pending) + 1
      /\ \A i \in 1 .. Len(pending) + 1 : u[i] = IF i = Len(pending) + 1 THEN v ELSE pending[i]
  BY <1>3
<1>5. PendingOK(src, Len(g), pending, bytes, len) /\ CqOK(src, Len(g) + Len(pending), cq, bytes)
  BY DEF FlowOK
<1> HIDE DEF t, u
<1>6. /\ Head(cq).msg = Numbered(src, Len(g) + (Len(pending) + 1))
      /\ bytes[v] = Numbered(src, Len(g) + (Len(pending) + 1))
  <2>1. 1 \in 1 .. Len(cq) /\ (Len(g) + Len(pending)) + 1 = Len(g) + (Len(pending) + 1)
    BY <1>1
  <2>2. QED  BY <1>1, <1>5, <2>1 DEF CqOK, v
<1>7. PendingOK(src, Len(g), u, bytes, len2)
  <2>1. ASSUME NEW i \in 1 .. Len(u)
        PROVE  bytes[u[i]] = Numbered(src, Len(g) + i) /\ len2[u[i]] = Numbered(src, Len(g) + i)
    <3>1. CASE i = Len(pending) + 1
      <4>1. u[i] = v /\ len2[v] = Head(cq).msg
        BY <1>4, <3>1 DEF v
      <4>2. QED  BY <1>6, <3>1, <4>1
    <3>2. CASE i # Len(pending) + 1
      <4>1. i \in 1 .. Len(pending) /\ u[i] = pending[i]
        BY <1>1, <1>4, <3>2
      <4>2. len2[pending[i]] = len[pending[i]]
        BY <4>1 DEF Elems
      <4>3. QED  BY <1>5, <4>1, <4>2 DEF PendingOK
    <3>3. QED  BY <3>1, <3>2
  <2>2. QED  BY <2>1 DEF PendingOK
<1>8. CqOK(src, Len(g) + Len(u), t, bytes)
  <2>1. ASSUME NEW i \in 1 .. Len(t)
        PROVE  /\ t[i].msg = Numbered(src, (Len(g) + Len(u)) + i)
               /\ bytes[t[i].id] = Numbered(src, (Len(g) + Len(u)) + i)
    <3>1. t[i] = cq[i + 1] /\ i + 1 \in 1 .. Len(cq)
      BY <1>1, <1>2
    <3>2. (Len(g) + Len(u)) + i = (Len(g) + Len(pending)) + (i + 1)
      BY <1>1, <1>4
    <3>3. QED  BY <1>5, <3>1, <3>2 DEF CqOK
  <2>2. QED  BY <2>1 DEF CqOK
<1>9. Len(g) + Len(u) + Len(t) = Len(g) + Len(pending) + Len(cq)
  BY <1>1, <1>2, <1>4
<1>10. ReturnedOK(src, g) /\ SendsOK(s, d, Len(g) + Len(u) + Len(t), last)
  BY <1>9 DEF FlowOK
<1>11. QED  BY <1>7, <1>8, <1>10 DEF FlowOK, u, t, v

(* YMPI_Zrecv returns the first pending message. *)
LEMMA FlowReturn ==
  ASSUME NEW src, NEW g \in Seq(Got), NEW pending \in Seq(Vbuf), pending # <<>>, NEW cq \in Seq(Recv),
         NEW bytes, NEW len, NEW s, NEW d, NEW last \in Nat,
         FlowOK(src, g, pending, cq, bytes, len, s, d, last),
         NEW x \in Got, x = [data |-> bytes[Head(pending)], len |-> len[Head(pending)]]
  PROVE  /\ x = Channel!Message(src, Len(g) + 1)
         /\ Len(g) < last
         /\ FlowOK(src, Append(g, x), Tail(pending), cq, bytes, len, s, d, last)
<1> DEFINE t == Tail(pending)
           h == Append(g, x)
<1>1. /\ Len(g) \in Nat /\ Len(pending) \in Nat \ {0} /\ Len(cq) \in Nat
      /\ Head(pending) = pending[1] /\ 1 \in 1 .. Len(pending)
  OBVIOUS
<1>2. Len(t) = Len(pending) - 1 /\ \A i \in 1 .. Len(pending) - 1 : t[i] = pending[i + 1]
  BY <1>1
<1>3. Len(h) = Len(g) + 1 /\ \A i \in 1 .. Len(g) + 1 : h[i] = IF i = Len(g) + 1 THEN x ELSE g[i]
  OBVIOUS
<1> HIDE DEF t, h
<1>4. x = Channel!Message(src, Len(g) + 1)
  <2>1. PendingOK(src, Len(g), pending, bytes, len)
    BY DEF FlowOK
  <2>2. bytes[Head(pending)] = Numbered(src, Len(g) + 1) /\ len[Head(pending)] = Numbered(src, Len(g) + 1)
    BY <1>1, <2>1 DEF PendingOK
  <2>3. QED  BY <2>2 DEF Channel!Message, Numbered
<1>5. Len(g) + Len(pending) + Len(cq) <= last
  BY DEF FlowOK, SendsOK
<1>6. Len(g) < last
  BY <1>1, <1>5
<1>7. ReturnedOK(src, h)
  <2>1. ASSUME NEW i \in 1 .. Len(h) PROVE h[i] = Channel!Message(src, i)
    <3>1. CASE i = Len(g) + 1
      BY <1>3, <1>4, <3>1
    <3>2. CASE i # Len(g) + 1
      <4>1. i \in 1 .. Len(g) /\ h[i] = g[i]
        BY <1>1, <1>3, <3>2
      <4>2. QED  BY <4>1 DEF FlowOK, ReturnedOK
    <3>3. QED  BY <3>1, <3>2
  <2>2. QED  BY <2>1 DEF ReturnedOK
<1>8. PendingOK(src, Len(h), t, bytes, len)
  <2>1. ASSUME NEW i \in 1 .. Len(t)
        PROVE  bytes[t[i]] = Numbered(src, Len(h) + i) /\ len[t[i]] = Numbered(src, Len(h) + i)
    <3>1. t[i] = pending[i + 1] /\ i + 1 \in 1 .. Len(pending)
      BY <1>1, <1>2
    <3>2. Len(h) + i = Len(g) + (i + 1)
      BY <1>1, <1>3
    <3>3. QED  BY <3>1, <3>2 DEF FlowOK, PendingOK
  <2>2. QED  BY <2>1 DEF PendingOK
<1>9. Len(h) + Len(t) = Len(g) + Len(pending)
  BY <1>1, <1>2, <1>3
<1>10. CqOK(src, Len(h) + Len(t), cq, bytes) /\ SendsOK(s, d, Len(h) + Len(t) + Len(cq), last)
  BY <1>9 DEF FlowOK
<1>11. FlowOK(src, h, t, cq, bytes, len, s, d, last)
  BY <1>7, <1>8, <1>10 DEF FlowOK
<1>12. QED  BY <1>4, <1>6, <1>11 DEF t, h

--------------------------------------------------------------------------------
(* The steps. *)

LEMMA FlowTypes ==
  ASSUME TypeOK, NEW p \in Proc, NEW q \in Proc
  PROVE  /\ got[q][p] \in Seq(Got) /\ pending_recv_queue[q][p] \in Seq(Vbuf)
         /\ rcq[q][p] \in Seq(Recv) /\ sq[p][q] \in Seq(WR)
         /\ done[p][q] \in Nat /\ sent[p][q] \in Nat /\ done[p][q] <= Len(sq[p][q])
  BY PairApply DEF TypeOK, Got

(* The messages from p to q are not concerned. *)
LEMMA FlowSame ==
  ASSUME NEW p \in Proc, NEW q \in Proc, Flow(p, q),
         got'[q][p] = got[q][p], pending_recv_queue'[q][p] = pending_recv_queue[q][p],
         rcq'[q][p] = rcq[q][p], data'[q] = data[q], buf_bytes'[q] = buf_bytes[q],
         sq'[p][q] = sq[p][q], done'[p][q] = done[p][q], sent'[p][q] = sent[p][q]
  PROVE  Flow(p, q)'
  BY DEF Flow

(* The next vbufs to be written hold no message that is on its way. *)
LEMMA SrqApart ==
  ASSUME TypeOK, BuffersInv, NEW p \in Proc, NEW v \in srq[p], NEW q \in Proc
  PROVE  /\ v \in Vbuf /\ v \notin Elems(pending_recv_queue[p][q])
         /\ \A i \in 1 .. Len(rcq[p][q]) : rcq[p][q][i].id # v
<1>1. v \in Vbuf
  BY DEF TypeOK
<1>2. v \notin Elems(pending_recv_queue[p][q]) /\ v \notin Elems(Ids(rcq[p][q]))
  BY <1>1, OnePlace
<1>3. rcq[p][q] \in Seq(Recv)
  BY FlowTypes
<1>4. \A i \in 1 .. Len(rcq[p][q]) : rcq[p][q][i].id \in Elems(Ids(rcq[p][q]))
  BY <1>3, IdsType DEF Elems, Ids
<1>5. QED  BY <1>1, <1>2, <1>4

LEMMA CqApart ==
  ASSUME TypeOK, BuffersInv, NEW p \in Proc, NEW q \in Proc, rcq[p][q] # <<>>, NEW r \in Proc
  PROVE  /\ Head(rcq[p][q]).id \in Vbuf
         /\ Head(rcq[p][q]).id \notin Elems(pending_recv_queue[p][r])
<1> DEFINE v == Head(rcq[p][q]).id
<1>1. rcq[p][q] \in Seq(Recv)
  BY FlowTypes
<1>2. Ids(rcq[p][q]) \in Seq(Vbuf) /\ Ids(rcq[p][q]) # <<>> /\ Head(Ids(rcq[p][q])) = v
  BY <1>1, IdsType, IdsTail
<1>3. Distinct(Ids(rcq[p][q]))
  BY DEF BuffersInv, QueuesDistinct
<1> HIDE DEF v
<1>4. v \in Elems(Ids(rcq[p][q])) /\ v \in Vbuf
  <2>1. v \in Elems(Ids(rcq[p][q]))
    BY <1>2, <1>3, TailElems
  <2>2. QED  BY <2>1, HeldOnce
<1>5. v \notin Elems(pending_recv_queue[p][r])
  BY <1>4, OnePlace
<1>6. QED  BY <1>4, <1>5 DEF v

LEMMA FlowPost ==
  ASSUME TypeOK, FlowInv, NEW p \in Proc, NEW q \in Proc, NEW kind \in {"send", "write", "read"},
         post(p, q, kind)
  PROVE  FlowInv'
<1>1. UNCHANGED <<rx_win, recvq, got, done>>
  BY DEF post, post_rejected, post_accepted, sendq
<1>2. pending_recv_queue' = pending_recv_queue /\ data' = data /\ buf_bytes' = buf_bytes
      /\ rcq' = rcq /\ got' = got /\ done' = done
  BY <1>1 DEF rx_win, recvq
<1>3. CASE post_rejected(p, q)
  <2>1. sq' = sq /\ sent' = sent
    BY <1>3 DEF post_rejected, sendq
  <2>2. QED  BY <1>2, <2>1, FlowSame DEF FlowInv
<1>4. CASE post_accepted(p, q, kind)
  <2> DEFINE wr == [kind |-> kind, n |-> IF kind = "send" THEN sent[p][q] + 1 ELSE 0]
             g == got[q][p]
             pending == pending_recv_queue[q][p]
             cq == rcq[q][p]
             n == Len(g) + Len(pending) + Len(cq)
             last == IF kind = "send" THEN sent[p][q] + 1 ELSE sent[p][q]
  <2>1. /\ g \in Seq(Got) /\ pending \in Seq(Vbuf) /\ cq \in Seq(Recv)
        /\ sq[p][q] \in Seq(WR) /\ done[p][q] \in Nat /\ sent[p][q] \in Nat /\ done[p][q] <= Len(sq[p][q])
    BY FlowTypes
  <2>2. /\ sq' = [sq EXCEPT ![p][q] = Append(sq[p][q], wr)]
        /\ sent' = IF kind = "send" THEN [sent EXCEPT ![p][q] = sent[p][q] + 1] ELSE sent
    BY <1>4 DEF post_accepted
  <2>3. wr \in WR
    BY <2>1 DEF WR, post
  <2>4. wr.kind = kind /\ (kind = "send" => wr.n = sent[p][q] + 1)
    OBVIOUS
  <2> HIDE DEF wr
  <2>5. /\ \A a, b \in Proc : sq'[a][b] = IF a = p /\ b = q THEN Append(sq[p][q], wr) ELSE sq[a][b]
        /\ \A a, b \in Proc : sent'[a][b] = IF a = p /\ b = q THEN last ELSE sent[a][b]
    <3>1. sq \in PairOf(Seq(WR)) /\ sent \in PairOf(Nat)
      BY DEF TypeOK
    <3>2. QED  BY <2>2, <3>1 DEF PairOf
  <2>6. FlowOK(p, g, pending, cq, data[q], buf_bytes[q], sq[p][q], done[p][q], sent[p][q])
    BY DEF FlowInv, Flow
  <2>7. n \in Nat /\ SendsOK(sq[p][q], done[p][q], n, sent[p][q])
    <3>1. Len(g) \in Nat /\ Len(pending) \in Nat /\ Len(cq) \in Nat
      BY <2>1
    <3>2. SendsOK(sq[p][q], done[p][q], n, sent[p][q])
      BY <2>6 DEF FlowOK
    <3> HIDE DEF g, pending, cq
    <3>3. QED  BY <3>1, <3>2
  <2> HIDE DEF n
  <2>8. SendsOK(Append(sq[p][q], wr), done[p][q], n, last)
    <3>1. CASE kind = "send"
      BY <2>1, <2>3, <2>4, <2>7, <3>1, SendsAppend
    <3>2. CASE kind # "send"
      BY <2>1, <2>3, <2>4, <2>7, <3>2, SendsAppend
    <3>3. QED  BY <3>1, <3>2
  <2> HIDE DEF last, g, pending, cq
  <2>9. FlowOK(p, g, pending, cq, data[q], buf_bytes[q], Append(sq[p][q], wr), done[p][q], last)
    BY <2>6, <2>8 DEF FlowOK, n
  <2>10. Flow(p, q)'
    BY <1>2, <2>5, <2>9 DEF Flow, g, pending, cq
  <2>11. ASSUME NEW a \in Proc, NEW b \in Proc, ~ (a = p /\ b = q) PROVE Flow(a, b)'
    <3>1. sq'[a][b] = sq[a][b] /\ sent'[a][b] = sent[a][b] /\ Flow(a, b)
      BY <2>5, <2>11 DEF FlowInv
    <3>2. QED  BY <1>2, <3>1, FlowSame
  <2>12. QED  BY <2>10, <2>11 DEF FlowInv
<1>5. QED  BY <1>3, <1>4 DEF post

LEMMA FlowSent ==
  ASSUME TypeOK, FlowInv, NEW p \in Proc, NEW q \in Proc, process_wc_sent(p, q)
  PROVE  FlowInv'
<1> DEFINE g == got[q][p]
           pending == pending_recv_queue[q][p]
           cq == rcq[q][p]
           n == Len(g) + Len(pending) + Len(cq)
<1>1. /\ pending_recv_queue' = pending_recv_queue /\ data' = data /\ buf_bytes' = buf_bytes
      /\ rcq' = rcq /\ got' = got /\ sent' = sent
  BY DEF process_wc_sent, rx_win, recvq, history
<1>2. /\ g \in Seq(Got) /\ pending \in Seq(Vbuf) /\ cq \in Seq(Recv)
      /\ sq[p][q] \in Seq(WR) /\ done[p][q] \in Nat /\ sent[p][q] \in Nat /\ done[p][q] <= Len(sq[p][q])
  BY FlowTypes
<1>3. /\ sq' = [sq EXCEPT ![p][q] = Tail(sq[p][q])] /\ done' = [done EXCEPT ![p][q] = done[p][q] - 1]
      /\ done[p][q] > 0
  BY DEF process_wc_sent
<1>4. /\ \A a, b \in Proc : sq'[a][b] = IF a = p /\ b = q THEN Tail(sq[p][q]) ELSE sq[a][b]
      /\ \A a, b \in Proc : done'[a][b] = IF a = p /\ b = q THEN done[p][q] - 1 ELSE done[a][b]
  <2>1. sq \in PairOf(Seq(WR)) /\ done \in PairOf(Nat)
    BY DEF TypeOK
  <2>2. QED  BY <1>3, <2>1 DEF PairOf
<1>5. FlowOK(p, g, pending, cq, data[q], buf_bytes[q], sq[p][q], done[p][q], sent[p][q])
  BY DEF FlowInv, Flow
<1>6. n \in Nat /\ SendsOK(sq[p][q], done[p][q], n, sent[p][q])
  <2>1. Len(g) \in Nat /\ Len(pending) \in Nat /\ Len(cq) \in Nat
    BY <1>2
  <2>2. SendsOK(sq[p][q], done[p][q], n, sent[p][q])
    BY <1>5 DEF FlowOK
  <2> HIDE DEF g, pending, cq
  <2>3. QED  BY <2>1, <2>2
<1> HIDE DEF n
<1>7. SendsOK(Tail(sq[p][q]), done[p][q] - 1, n, sent[p][q])
  BY <1>2, <1>3, <1>6, SendsTail
<1> HIDE DEF g, pending, cq
<1>8. FlowOK(p, g, pending, cq, data[q], buf_bytes[q], Tail(sq[p][q]), done[p][q] - 1, sent[p][q])
  BY <1>5, <1>7 DEF FlowOK, n
<1>9. Flow(p, q)'
  BY <1>1, <1>4, <1>8 DEF Flow, g, pending, cq
<1>10. ASSUME NEW a \in Proc, NEW b \in Proc, ~ (a = p /\ b = q) PROVE Flow(a, b)'
  <2>1. sq'[a][b] = sq[a][b] /\ done'[a][b] = done[a][b] /\ Flow(a, b)
    BY <1>4, <1>10 DEF FlowInv
  <2>2. QED  BY <1>1, <2>1, FlowSame
<1>11. QED  BY <1>9, <1>10 DEF FlowInv

LEMMA FlowRecv ==
  ASSUME TypeOK, BuffersInv, FlowInv, NEW p \in Proc, NEW q \in Proc, process_wc_recv(p, q)
  PROVE  FlowInv'
<1> DEFINE c == Head(rcq[p][q])
           v == c.id
<1>1. rcq[p][q] # <<>> /\ ~ list_full(pending_recv_queue[p][q], RecvCap)
  BY PendingNotFull DEF process_wc_recv
<1>2. /\ rcq' = [rcq EXCEPT ![p][q] = Tail(rcq[p][q])]
      /\ pending_recv_queue' = [pending_recv_queue EXCEPT ![p][q] = Append(pending_recv_queue[p][q], v)]
      /\ buf_bytes' = [buf_bytes EXCEPT ![p][v] = c.msg]
      /\ data' = data /\ sq' = sq /\ done' = done /\ sent' = sent /\ got' = got
  BY <1>1 DEF process_wc_recv, history, sendq
<1>3. /\ got[p][q] \in Seq(Got) /\ pending_recv_queue[p][q] \in Seq(Vbuf) /\ rcq[p][q] \in Seq(Recv)
      /\ c \in Recv
  BY <1>1, FlowTypes, QueueParts
<1>4. v \in Vbuf /\ \A r \in Proc : v \notin Elems(pending_recv_queue[p][r])
  BY <1>1, CqApart
<1> HIDE DEF c, v
<1>5. /\ \A a, b \in Proc : rcq'[a][b] = IF a = p /\ b = q THEN Tail(rcq[p][q]) ELSE rcq[a][b]
      /\ \A a, b \in Proc : pending_recv_queue'[a][b] = IF a = p /\ b = q THEN Append(pending_recv_queue[p][q], v)
                                                       ELSE pending_recv_queue[a][b]
  <2>1. rcq \in PairOf(Seq(Recv)) /\ pending_recv_queue \in PairOf(Seq(Vbuf))
    BY DEF TypeOK
  <2>2. QED  BY <1>2, <2>1 DEF PairOf
<1>6. /\ \A a \in Proc \ {p} : buf_bytes'[a] = buf_bytes[a]
      /\ buf_bytes'[p][v] = c.msg
      /\ \A u \in Vbuf \ {v} : buf_bytes'[p][u] = buf_bytes[p][u]
  <2>1. buf_bytes \in [Proc -> [Vbuf -> Msg]]
    BY DEF TypeOK
  <2>2. QED  BY <1>2, <1>4, <2>1
<1>7. ASSUME NEW a \in Proc, NEW u \in Elems(pending_recv_queue[p][a])
      PROVE  buf_bytes'[p][u] = buf_bytes[p][u]
  <2>1. pending_recv_queue[p][a] \in Seq(Vbuf)
    BY FlowTypes
  <2>2. u \in Vbuf /\ u # v
    BY <1>4, <2>1 DEF Elems
  <2>3. QED  BY <1>6, <2>2
<1>8. Flow(q, p)'
  <2>1. FlowOK(q, got[p][q], pending_recv_queue[p][q], rcq[p][q], data[p], buf_bytes[p],
               sq[q][p], done[q][p], sent[q][p])
    BY DEF FlowInv, Flow
  <2>2. buf_bytes'[p][Head(rcq[p][q]).id] = Head(rcq[p][q]).msg
    BY <1>6 DEF c, v
  <2>3. FlowOK(q, got[p][q], Append(pending_recv_queue[p][q], Head(rcq[p][q]).id), Tail(rcq[p][q]),
               data[p], buf_bytes'[p], sq[q][p], done[q][p], sent[q][p])
    <3>1. \A u \in Elems(pending_recv_queue[p][q]) : buf_bytes'[p][u] = buf_bytes[p][u]
      BY <1>7
    <3>2. QED  BY <1>1, <1>3, <2>1, <2>2, <3>1, FlowHandle
  <2>4. /\ pending_recv_queue'[p][q] = Append(pending_recv_queue[p][q], Head(rcq[p][q]).id)
        /\ rcq'[p][q] = Tail(rcq[p][q])
    BY <1>5 DEF c, v
  <2>5. QED  BY <1>2, <2>3, <2>4 DEF Flow
<1>9. ASSUME NEW a \in Proc, NEW b \in Proc, ~ (a = q /\ b = p) PROVE Flow(a, b)'
  <2>1. Flow(a, b) /\ rcq'[b][a] = rcq[b][a] /\ pending_recv_queue'[b][a] = pending_recv_queue[b][a]
    BY <1>5, <1>9 DEF FlowInv
  <2>2. CASE b # p
    <3>1. buf_bytes'[b] = buf_bytes[b]
      BY <1>6, <2>2
    <3>2. QED  BY <1>2, <2>1, <3>1, FlowSame
  <2>3. CASE b = p
    <3>1. FlowOK(a, got[b][a], pending_recv_queue[b][a], rcq[b][a], data[b], buf_bytes[b],
                 sq[a][b], done[a][b], sent[a][b])
      BY <2>1 DEF Flow
    <3>2. \A u \in Elems(pending_recv_queue[b][a]) : buf_bytes'[b][u] = buf_bytes[b][u]
      BY <1>7, <2>3
    <3>3. FlowOK(a, got[b][a], pending_recv_queue[b][a], rcq[b][a], data[b], buf_bytes'[b],
                 sq[a][b], done[a][b], sent[a][b])
      BY <3>1, <3>2, FlowFrame
    <3>4. QED  BY <1>2, <2>1, <3>3 DEF Flow
  <2>4. QED  BY <2>2, <2>3
<1>10. QED  BY <1>8, <1>9 DEF FlowInv

(* What YMPI_Zrecv returns is the next message of its source, and was sent. *)
LEMMA FlowZrecv ==
  ASSUME TypeOK, BuffersInv, FlowInv, NEW p \in Proc, Zrecv_return(p)
  PROVE  /\ FlowInv'
         /\ LET q == source[p]
                x == Channel!Message(q, Len(got[p][q]) + 1)
            IN  q \in Proc /\ Len(got[p][q]) < sent[q][p] /\ got' = [got EXCEPT ![p][q] = Append(got[p][q], x)]
<1>0. PICK q \in Proc : q = source[p]
  BY DEF TypeOK
<1> DEFINE v == Head(pending_recv_queue[p][q])
           x == [data |-> data[p][v], len |-> buf_bytes[p][v]]
<1>1. pending_recv_queue[p][q] # <<>>
  BY <1>0 DEF Zrecv_return
<1>2. ~ list_full(vbuf_fetched[p], PrepostDepth)
  BY <1>1, FetchedNotFull
<1>3. /\ pending_recv_queue' = [pending_recv_queue EXCEPT ![p][q] = Tail(pending_recv_queue[p][q])]
      /\ got' = [got EXCEPT ![p][q] = Append(got[p][q], x)]
      /\ data' = data /\ buf_bytes' = buf_bytes /\ sq' = sq /\ done' = done /\ rcq' = rcq /\ sent' = sent
  BY <1>0, <1>2 DEF Zrecv_return, sendq, recvq
<1>4. /\ got[p][q] \in Seq(Got) /\ pending_recv_queue[p][q] \in Seq(Vbuf) /\ rcq[p][q] \in Seq(Recv)
      /\ sent[q][p] \in Nat
  BY <1>1, FlowTypes
<1>5. x \in Got
  <2>1. v \in Vbuf
    BY <1>1, <1>4, QueueParts
  <2>2. QED  BY <2>1 DEF TypeOK, Got
<1>6. FlowOK(q, got[p][q], pending_recv_queue[p][q], rcq[p][q], data[p], buf_bytes[p],
             sq[q][p], done[q][p], sent[q][p])
  BY <1>1 DEF FlowInv, Flow
<1>7. /\ x = Channel!Message(q, Len(got[p][q]) + 1)
      /\ Len(got[p][q]) < sent[q][p]
      /\ FlowOK(q, Append(got[p][q], x), Tail(pending_recv_queue[p][q]), rcq[p][q], data[p], buf_bytes[p],
                sq[q][p], done[q][p], sent[q][p])
  BY <1>1, <1>4, <1>5, <1>6, FlowReturn
<1> HIDE DEF x, v
<1>8. /\ \A a, b \in Proc : pending_recv_queue'[a][b] = IF a = p /\ b = q THEN Tail(pending_recv_queue[p][q])
                                                       ELSE pending_recv_queue[a][b]
      /\ \A a, b \in Proc : got'[a][b] = IF a = p /\ b = q THEN Append(got[p][q], x) ELSE got[a][b]
  <2>1. pending_recv_queue \in PairOf(Seq(Vbuf)) /\ got \in PairOf(Seq(Got))
    BY DEF TypeOK, Got
  <2>2. QED  BY <1>1, <1>3, <2>1 DEF PairOf
<1>9. Flow(q, p)'
  <2>1. pending_recv_queue'[p][q] = Tail(pending_recv_queue[p][q]) /\ got'[p][q] = Append(got[p][q], x)
    BY <1>1, <1>8
  <2>2. QED  BY <1>3, <1>7, <2>1 DEF Flow
<1>10. ASSUME NEW a \in Proc, NEW b \in Proc, ~ (a = q /\ b = p) PROVE Flow(a, b)'
  <2>1. Flow(a, b) /\ got'[b][a] = got[b][a] /\ pending_recv_queue'[b][a] = pending_recv_queue[b][a]
    BY <1>8, <1>10 DEF FlowInv
  <2>2. QED  BY <1>3, <2>1, FlowSame
<1>11. FlowInv'
  BY <1>9, <1>10 DEF FlowInv
<1>12. QED  BY <1>0, <1>3, <1>7, <1>11

LEMMA FlowHca ==
  ASSUME TypeOK, BuffersInv, FlowInv, NEW p \in Proc, NEW q \in Proc, hca_deliver(p, q)
  PROVE  FlowInv'
<1> DEFINE wr == sq[p][q][done[p][q] + 1]
           m == [src |-> p, n |-> wr.n]
<1>1. /\ done[p][q] < Len(sq[p][q]) /\ done' = [done EXCEPT ![p][q] = done[p][q] + 1]
      /\ pending_recv_queue' = pending_recv_queue /\ buf_bytes' = buf_bytes /\ sq' = sq
      /\ got' = got /\ sent' = sent
  BY DEF hca_deliver, history
<1>2. /\ got[q][p] \in Seq(Got) /\ pending_recv_queue[q][p] \in Seq(Vbuf) /\ rcq[q][p] \in Seq(Recv)
      /\ sq[p][q] \in Seq(WR) /\ done[p][q] \in Nat /\ sent[p][q] \in Nat
  BY FlowTypes
<1>3. wr \in WR
  BY <1>1, <1>2
<1>4. m \in Msg /\ m = Numbered(p, wr.n)
  BY <1>3 DEF WR, Msg, Numbered
<1>5. \A a, b \in Proc : done'[a][b] = IF a = p /\ b = q THEN done[p][q] + 1 ELSE done[a][b]
  <2>1. done \in PairOf(Nat)
    BY DEF TypeOK
  <2>2. QED  BY <1>1, <2>1 DEF PairOf
<1>6. FlowOK(p, got[q][p], pending_recv_queue[q][p], rcq[q][p], data[q], buf_bytes[q],
             sq[p][q], done[p][q], sent[p][q])
  BY DEF FlowInv, Flow
<1>7. CASE wr.kind = "send"
  <2>1. PICK v \in srq[q] :
          /\ data' = [data EXCEPT ![q][v] = m]
          /\ rcq' = [rcq EXCEPT ![q][p] = Append(rcq[q][p], [id |-> v, msg |-> m])]
    BY <1>7 DEF hca_deliver
  <2> DEFINE c == [id |-> v, msg |-> m]
  <2>2. /\ v \in Vbuf
        /\ \A a \in Proc : /\ v \notin Elems(pending_recv_queue[q][a])
                           /\ \A i \in 1 .. Len(rcq[q][a]) : rcq[q][a][i].id # v
    BY SrqApart
  <2>3. c \in Recv /\ c.id = v /\ c.msg = m
    BY <1>4, <2>2 DEF Recv
  <2> HIDE DEF m
  <2>4. /\ \A a \in Proc \ {q} : data'[a] = data[a]
        /\ data'[q][v] = m
        /\ \A u \in Vbuf \ {v} : data'[q][u] = data[q][u]
    <3>1. data \in [Proc -> [Vbuf -> Msg]]
      BY DEF TypeOK
    <3>2. QED  BY <2>1, <2>2, <3>1
  <2>5. \A a, b \in Proc : rcq'[a][b] = IF a = q /\ b = p THEN Append(rcq[q][p], c) ELSE rcq[a][b]
    <3>1. rcq \in PairOf(Seq(Recv))
      BY DEF TypeOK
    <3>2. QED  BY <2>1, <3>1 DEF PairOf
  <2>6. ASSUME NEW a \in Proc
        PROVE  /\ \A u \in Elems(pending_recv_queue[q][a]) : data'[q][u] = data[q][u]
               /\ \A i \in 1 .. Len(rcq[q][a]) : data'[q][rcq[q][a][i].id] = data[q][rcq[q][a][i].id]
    <3>1. pending_recv_queue[q][a] \in Seq(Vbuf) /\ rcq[q][a] \in Seq(Recv)
      BY FlowTypes
    <3>2. \A u \in Elems(pending_recv_queue[q][a]) : u \in Vbuf \ {v}
      BY <2>2, <3>1 DEF Elems
    <3>3. ASSUME NEW i \in 1 .. Len(rcq[q][a]) PROVE rcq[q][a][i].id \in Vbuf \ {v}
      <4>1. rcq[q][a][i] \in Recv
        BY <3>1, ElementOfSeq
      <4>2. QED  BY <2>2, <4>1 DEF Recv
    <3>4. QED  BY <2>4, <3>2, <3>3
  <2> HIDE DEF c
  <2>7. Flow(p, q)'
    <3>1. /\ sq[p][q][done[p][q] + 1].kind = "send"
          /\ c.msg = Numbered(p, sq[p][q][done[p][q] + 1].n)
          /\ data'[q][c.id] = c.msg
      BY <1>4, <1>7, <2>3, <2>4 DEF wr
    <3> HIDE DEF wr
    <3>2. FlowOK(p, got[q][p], pending_recv_queue[q][p], Append(rcq[q][p], c), data'[q], buf_bytes[q],
                 sq[p][q], done[p][q] + 1, sent[p][q])
      <4> DEFINE g == got[q][p]
                 pending == pending_recv_queue[q][p]
                 cq == rcq[q][p]
                 bytes == data[q]
                 bytes2 == data'[q]
                 len == buf_bytes[q]
                 s == sq[p][q]
                 d == done[p][q]
                 last == sent[p][q]
      <4>1. /\ g \in Seq(Got) /\ pending \in Seq(Vbuf) /\ cq \in Seq(Recv)
            /\ s \in Seq(WR) /\ d \in Nat /\ last \in Nat
        BY <1>2
      <4>2. FlowOK(p, g, pending, cq, bytes, len, s, d, last)
        BY <1>6
      <4>3. d < Len(s) /\ s[d + 1].kind = "send" /\ c.msg = Numbered(p, s[d + 1].n) /\ bytes2[c.id] = c.msg
        BY <1>1, <3>1
      <4>4. /\ \A u \in Elems(pending) : bytes2[u] = bytes[u]
            /\ \A i \in 1 .. Len(cq) : bytes2[cq[i].id] = bytes[cq[i].id]
        BY <2>6
      <4>5. c \in Recv
        BY <2>3
      <4> HIDE DEF g, pending, cq, bytes, bytes2, len, s, d, last
      <4>6. FlowOK(p, g, pending, Append(cq, c), bytes2, len, s, d + 1, last)
        BY <4>1, <4>2, <4>3, <4>4, <4>5, FlowDeliver
      <4>7. QED  BY <4>6 DEF g, pending, cq, bytes, bytes2, len, s, d, last
    <3>3. rcq'[q][p] = Append(rcq[q][p], c) /\ done'[p][q] = done[p][q] + 1
      BY <1>5, <2>5
    <3>4. QED  BY <1>1, <3>2, <3>3 DEF Flow
  <2>8. ASSUME NEW a \in Proc, NEW b \in Proc, ~ (a = p /\ b = q) PROVE Flow(a, b)'
    <3>1. Flow(a, b) /\ rcq'[b][a] = rcq[b][a] /\ done'[a][b] = done[a][b]
      BY <1>5, <2>5, <2>8 DEF FlowInv
    <3>2. CASE b # q
      <4>1. data'[b] = data[b]
        BY <2>4, <3>2
      <4>2. QED  BY <1>1, <3>1, <4>1, FlowSame
    <3>3. CASE b = q
      <4>1. FlowOK(a, got[b][a], pending_recv_queue[b][a], rcq[b][a], data[b], buf_bytes[b],
                   sq[a][b], done[a][b], sent[a][b])
        BY <3>1 DEF Flow
      <4>2. /\ \A u \in Elems(pending_recv_queue[b][a]) : data'[b][u] = data[b][u]
            /\ \A i \in 1 .. Len(rcq[b][a]) : data'[b][rcq[b][a][i].id] = data[b][rcq[b][a][i].id]
        BY <2>6, <3>3
      <4>3. FlowOK(a, got[b][a], pending_recv_queue[b][a], rcq[b][a], data'[b], buf_bytes[b],
                   sq[a][b], done[a][b], sent[a][b])
        BY <4>1, <4>2, FlowFrame
      <4>4. QED  BY <1>1, <3>1, <4>3 DEF Flow
    <3>4. QED  BY <3>2, <3>3
  <2>9. QED  BY <2>7, <2>8 DEF FlowInv
<1>8. CASE wr.kind # "send"
  <2>1. data' = data /\ rcq' = rcq
    BY <1>8 DEF hca_deliver
  <2> DEFINE n == Len(got[q][p]) + Len(pending_recv_queue[q][p]) + Len(rcq[q][p])
  <2>2. n \in Nat /\ SendsOK(sq[p][q], done[p][q], n, sent[p][q])
    BY <1>2, <1>6, FlowSends
  <2> HIDE DEF n
  <2>4. SendsOK(sq[p][q], done[p][q] + 1, n, sent[p][q])
    BY <1>1, <1>2, <1>8, <2>2, SendsDeliver
  <2>5. FlowOK(p, got[q][p], pending_recv_queue[q][p], rcq[q][p], data[q], buf_bytes[q],
               sq[p][q], done[p][q] + 1, sent[p][q])
    BY <1>6, <2>4 DEF FlowOK, n
  <2>6. Flow(p, q)'
    <3>1. done'[p][q] = done[p][q] + 1
      BY <1>5
    <3>2. QED  BY <1>1, <2>1, <2>5, <3>1 DEF Flow
  <2>7. ASSUME NEW a \in Proc, NEW b \in Proc, ~ (a = p /\ b = q) PROVE Flow(a, b)'
    <3>1. Flow(a, b) /\ done'[a][b] = done[a][b]
      BY <1>5, <2>7 DEF FlowInv
    <3>2. QED  BY <1>1, <2>1, <3>1, FlowSame
  <2>8. QED  BY <2>6, <2>7 DEF FlowInv
<1>9. QED  BY <1>7, <1>8

LEMMA FlowUnchanged ==
  ASSUME FlowInv,
         UNCHANGED <<got, pending_recv_queue, rcq, data, buf_bytes, sq, done, sent>>
  PROVE  FlowInv'
  BY DEF FlowInv, Flow

LEMMA FlowStep ==
  ASSUME TypeOK, BuffersInv, FlowInv, Next
  PROVE  FlowInv'
<1>1. ASSUME NEW p \in Proc, NEW q \in Proc, NEW kind \in {"send", "write", "read"}, post(p, q, kind)
      PROVE  FlowInv'
  BY <1>1, FlowPost
<1>2. ASSUME NEW p \in Proc, NEW q \in Proc,
             \/ process_wc_sent(p, q) \/ process_wc_recv(p, q) \/ hca_deliver(p, q)
      PROVE  FlowInv'
  BY <1>2, FlowSent, FlowRecv, FlowHca
<1>3. ASSUME NEW p \in Proc, Zrecv_return(p)
      PROVE  FlowInv'
  BY <1>3, FlowZrecv
<1>4. ASSUME NEW p \in Proc, NEW q \in Proc, YMPI_Zrecv(p, q) \/ process_wc_failed(p, q)
      PROVE  FlowInv'
  BY <1>4, FlowUnchanged DEF YMPI_Zrecv, Enter, process_wc_failed, rx_win, sendq, recvq, history
<1>5. ASSUME NEW p \in Proc,
             \/ YMPI_Zflush(p) \/ YMPI_Return(p) \/ poll_failed(p) \/ Zflush_return(p)
             \/ Return_post(p) \/ Return_return(p)
      PROVE  FlowInv'
  BY <1>5, FlowUnchanged
     DEF YMPI_Zflush, YMPI_Return, Enter, poll_failed, Zflush_return, Return_post, Return_return,
         rx_win, sendq, recvq, history
<1>6. QED
  BY <1>1, <1>2, <1>3, <1>4, <1>5
     DEF Next, Call, Step, Hca, YMPI_Zsend, YMPI_Write, YMPI_Read

LEMMA FlowInit ==
  ASSUME Init
  PROVE  FlowInv
<1> SUFFICES ASSUME NEW p \in Proc, NEW q \in Proc PROVE Flow(p, q)
  BY DEF FlowInv
<1>1. /\ got[q][p] = <<>> /\ pending_recv_queue[q][p] = <<>> /\ rcq[q][p] = <<>>
      /\ sq[p][q] = <<>> /\ done[p][q] = 0 /\ sent[p][q] = 0
  BY DEF Init
<1>2. FlowOK(p, <<>>, <<>>, <<>>, data[q], buf_bytes[q], <<>>, 0, 0)
  BY DEF FlowOK, ReturnedOK, PendingOK, CqOK, SendsOK
<1>3. QED  BY <1>1, <1>2 DEF Flow

LEMMA FlowInvariant == Spec => []FlowInv
<1>1. Init => FlowInv
  BY FlowInit
<1>2. TypeOK /\ BuffersInv /\ FlowInv /\ [Next]_vars => FlowInv'
  <2> SUFFICES ASSUME TypeOK, BuffersInv, FlowInv, [Next]_vars PROVE FlowInv'
    OBVIOUS
  <2>1. CASE Next
    BY <2>1, FlowStep
  <2>2. CASE UNCHANGED vars
    BY <2>2, FlowUnchanged DEF vars, rx_win, sendq, recvq, history
  <2>3. QED  BY <2>1, <2>2
<1>3. QED  BY <1>1, <1>2, TypeCorrect, BuffersInvariant, PTL DEF Spec

--------------------------------------------------------------------------------
(***************************************************************************)
(* Each message sent is in the send queue, in the CQ of the receiver, in   *)
(* its pending_recv_queue or was returned by YMPI_Zrecv: none is lost or   *)
(* duplicated on its way.                                                  *)
(***************************************************************************)
THEOREM MessagesCorrect == Spec => []MessagesConserved
<1>1. TypeOK /\ FlowInv => MessagesConserved
  <2> SUFFICES ASSUME TypeOK, FlowInv, NEW p \in Proc, NEW q \in Proc
               PROVE  sent[p][q] = Cardinality(InFlight(p, q)) + Len(rcq[q][p])
                                   + Len(pending_recv_queue[q][p]) + Len(got[q][p])
    BY DEF MessagesConserved
  <2> DEFINE n == Len(got[q][p]) + Len(pending_recv_queue[q][p]) + Len(rcq[q][p])
  <2>1. /\ got[q][p] \in Seq(Got) /\ pending_recv_queue[q][p] \in Seq(Vbuf) /\ rcq[q][p] \in Seq(Recv)
        /\ sq[p][q] \in Seq(WR) /\ done[p][q] \in Nat /\ sent[p][q] \in Nat
    BY FlowTypes
  <2>2. Len(got[q][p]) \in Nat /\ Len(pending_recv_queue[q][p]) \in Nat /\ Len(rcq[q][p]) \in Nat
    BY <2>1
  <2>3. FlowOK(p, got[q][p], pending_recv_queue[q][p], rcq[q][p], data[q], buf_bytes[q],
               sq[p][q], done[p][q], sent[p][q])
    BY DEF FlowInv, Flow
  <2>4. n \in Nat /\ SendsOK(sq[p][q], done[p][q], n, sent[p][q])
    BY <2>1, <2>3, FlowSends
  <2> HIDE DEF n
  <2>5. Cardinality(InFlight(p, q)) = sent[p][q] - n
    BY <2>1, <2>4, SendsCount DEF InFlight
  <2>6. sent[p][q] = Cardinality(InFlight(p, q)) + n
    BY <2>1, <2>4, <2>5
  <2>7. Cardinality(InFlight(p, q)) \in Int
    BY <2>1, <2>4, <2>5
  <2> DEFINE inFlight == Cardinality(InFlight(p, q))
             returned == Len(got[q][p])
             pending == Len(pending_recv_queue[q][p])
             inCq == Len(rcq[q][p])
  <2>8. inFlight \in Int /\ returned \in Nat /\ pending \in Nat /\ inCq \in Nat
        /\ sent[p][q] = inFlight + (returned + pending + inCq)
    BY <2>2, <2>6, <2>7 DEF n
  <2> HIDE DEF inFlight, returned, pending, inCq
  <2>9. sent[p][q] = inFlight + inCq + pending + returned
    BY <2>8
  <2>10. QED  BY <2>9 DEF inFlight, returned, pending, inCq
<1>2. QED  BY <1>1, TypeCorrect, FlowInvariant, PTL

(* Every step is a step of the channel or leaves it alone. *)
LEMMA ChannelStep ==
  ASSUME TypeOK, BuffersInv, FlowInv, Next
  PROVE  Channel!Next \/ UNCHANGED <<sent, got>>
<1>1. ASSUME NEW p \in Proc, NEW q \in Proc, NEW kind \in {"send", "write", "read"}, post(p, q, kind)
      PROVE  Channel!Send(p, q) \/ UNCHANGED <<sent, got>>
  BY <1>1 DEF post, post_rejected, post_accepted, Channel!Send
<1>2. ASSUME NEW p \in Proc, Zrecv_return(p)
      PROVE  \E q \in Proc : Channel!Receive(p, q)
  <2>1. /\ sent' = sent
        /\ \E q \in Proc : /\ Len(got[p][q]) < sent[q][p]
                           /\ got' = [got EXCEPT ![p][q] =
                                         Append(got[p][q], Channel!Message(q, Len(got[p][q]) + 1))]
    BY <1>2, FlowZrecv DEF Zrecv_return
  <2>2. QED  BY <2>1, Zenon DEF Channel!Receive
<1>3. ASSUME NEW p \in Proc, NEW q \in Proc,
             \/ YMPI_Zrecv(p, q) \/ process_wc_sent(p, q) \/ process_wc_recv(p, q)
             \/ process_wc_failed(p, q) \/ hca_deliver(p, q)
      PROVE  UNCHANGED <<sent, got>>
  BY <1>3, Zenon DEF YMPI_Zrecv, Enter, process_wc_sent, process_wc_recv, process_wc_failed, hca_deliver,
                     history
<1>4. ASSUME NEW p \in Proc,
             \/ YMPI_Zflush(p) \/ YMPI_Return(p) \/ poll_failed(p) \/ Zflush_return(p)
             \/ Return_post(p) \/ Return_return(p)
      PROVE  UNCHANGED <<sent, got>>
  BY <1>4 DEF YMPI_Zflush, YMPI_Return, Enter, poll_failed, Zflush_return, Return_post,
              Return_return, history
<1>5. QED
  BY <1>1, <1>2, <1>3, <1>4
     DEF Next, Call, Step, Hca, YMPI_Zsend, YMPI_Write, YMPI_Read, Channel!Next

(***************************************************************************)
(* The messaging core implements ZChannel: between every ordered pair of   *)
(* ranks the messages are returned in the order they were sent, each with  *)
(* its own content and its own length, however many are under way.         *)
(***************************************************************************)
THEOREM ChannelCorrect == Spec => ChannelSpec
<1>1. Init => Channel!Init
  BY DEF Init, Channel!Init
<1>2. TypeOK /\ BuffersInv /\ FlowInv /\ [Next]_vars => [Channel!Next]_<<sent, got>>
  <2> SUFFICES ASSUME TypeOK, BuffersInv, FlowInv, [Next]_vars
               PROVE  [Channel!Next]_<<sent, got>>
    OBVIOUS
  <2>1. CASE Next
    BY <2>1, ChannelStep
  <2>2. CASE UNCHANGED vars
    BY <2>2 DEF vars, history
  <2>3. QED  BY <2>1, <2>2
<1>3. QED
  BY <1>1, <1>2, TypeCorrect, BuffersInvariant, FlowInvariant, PTL DEF Spec, ChannelSpec, Channel!Spec
--------------------------------------------------------------------------------
(* The programs. *)

(* A call of the program is a call of the core, to a rank the core knows.     *)
LEMMA AppCallIsCall ==
  ASSUME NEW p \in Proc, AppCall(p)
  PROVE  Call(p)
<1> DEFINE op == program[p][ip[p]]
<1>1. CASE YMPI_Zsend(p, op.peer)
  <2>1. op.peer \in Proc
    BY <1>1, ProcAssumption DEF YMPI_Zsend, post
  <2>2. QED  BY <1>1, <2>1 DEF Call
<1>2. CASE YMPI_Write(p, op.peer)
  <2>1. op.peer \in Proc
    BY <1>2, ProcAssumption DEF YMPI_Write, post
  <2>2. QED  BY <1>2, <2>1 DEF Call
<1>3. CASE YMPI_Zrecv(p, op.peer)
  <2>1. op.peer \in Proc
    BY <1>3, ProcAssumption DEF YMPI_Zrecv
  <2>2. QED  BY <1>3, <2>1 DEF Call
<1>4. CASE YMPI_Zflush(p) \/ YMPI_Return(p)
  BY <1>4 DEF Call
<1>5. QED  BY <1>1, <1>2, <1>3, <1>4 DEF AppCall

LEMMA AppNextIsNext == [AppNext]_appvars => [Next]_vars
<1> SUFFICES ASSUME [AppNext]_appvars PROVE [Next]_vars
  OBVIOUS
<1>1. ASSUME NEW p \in Proc, AppCall(p) \/ AppStep(p) \/ AppHca(p) PROVE Next
  BY <1>1, AppCallIsCall DEF AppStep, AppHca, Next
<1>2. CASE AppBarrier \/ UNCHANGED appvars
  BY <1>2 DEF AppBarrier, appvars
<1>3. QED  BY <1>1, <1>2 DEF AppNext

(***************************************************************************)
(* The programs of the repository (test_ympi.c, ympi_fan.c and the others  *)
(* of YmpiApp), and any other list of calls and barriers, do what the core *)
(* may do and nothing else: AppSpec implements the Spec of Ympi, so that   *)
(* whatever is proved of the core holds while a program runs.              *)
(***************************************************************************)
THEOREM ProgramsRunOnCore == AppSpec => Spec
<1>1. AppInit => Init
  BY DEF AppInit
<1>2. QED  BY <1>1, AppNextIsNext, PTL DEF AppSpec, AppSafety, Spec

(***************************************************************************)
(* What a program may rely on, whatever its calls: its flushes are         *)
(* complete, its messages arrive once and in order with their length, a    *)
(* pointer from YMPI_Zrecv is good until YMPI_Return, and if it is ended   *)
(* by the library, something failed.                                       *)
(***************************************************************************)
THEOREM ProgramsRelyOn ==
  AppSpec => /\ FlushCompletes
             /\ ChannelSpec
             /\ PointersStable
             /\ [](CountersExact /\ VbufsConserved /\ MessagesConserved /\ ExitsOnlyOnFault)
<1>1. QED
  BY ProgramsRunOnCore, FlushCorrect, ChannelCorrect, PointersCorrect, CountersCorrect,
     VbufsCorrect, MessagesCorrect, ExitsCorrect, PTL
--------------------------------------------------------------------------------
(* What a program of matched calls brings about. *)

LEMMA OperationCases ==
  ASSUME NEW op \in Operation
  PROVE  /\ op.call = "YMPI_Zsend" => \E q \in Proc : op = Send(q) /\ op.peer = q
         /\ op.call = "YMPI_Write" => \E q \in Proc : op = Write(q) /\ op.peer = q
         /\ op.call = "YMPI_Zrecv" => \E q \in Proc : op = Receive(q) /\ op.peer = q
         /\ op.call = "YMPI_Zflush" => op = Flush
         /\ op.call = "YMPI_Return" => op = Return
         /\ op.call = "MPI_Barrier" => op = Barrier
  BY DEF Operation, Send, Write, Receive, Flush, Return, Barrier

LEMMA OperationsDiffer ==
  /\ \A q, r : /\ Send(q) = Send(r) <=> q = r
               /\ Write(q) = Write(r) <=> q = r
               /\ Receive(q) = Receive(r) <=> q = r
               /\ Send(q) # Write(r) /\ Send(q) # Receive(r) /\ Write(q) # Receive(r)
  /\ \A q : /\ Send(q) \notin {Flush, Return, Barrier}
            /\ Write(q) \notin {Flush, Return, Barrier}
            /\ Receive(q) \notin {Flush, Return, Barrier}
  /\ Flush # Return /\ Flush # Barrier /\ Return # Barrier
<1>1. \A q : /\ Send(q).call = "YMPI_Zsend" /\ Send(q).peer = q
             /\ Write(q).call = "YMPI_Write" /\ Write(q).peer = q
             /\ Receive(q).call = "YMPI_Zrecv" /\ Receive(q).peer = q
  BY DEF Send, Write, Receive
<1>2. Flush.call = "YMPI_Zflush" /\ Return.call = "YMPI_Return" /\ Barrier.call = "MPI_Barrier"
  BY DEF Flush, Return, Barrier
<1>3. \A q, r : /\ Send(q) = Send(r) <=> q = r
                /\ Write(q) = Write(r) <=> q = r
                /\ Receive(q) = Receive(r) <=> q = r
  BY <1>1
<1>4. \A q, r : Send(q) # Write(r) /\ Send(q) # Receive(r) /\ Write(q) # Receive(r)
  BY <1>1
<1>5. \A q : /\ Send(q) \notin {Flush, Return, Barrier}
             /\ Write(q) \notin {Flush, Return, Barrier}
             /\ Receive(q) \notin {Flush, Return, Barrier}
  BY <1>1, <1>2
<1>6. Flush # Return /\ Flush # Barrier /\ Return # Barrier
  BY <1>2
<1>7. QED  BY <1>3, <1>4, <1>5, <1>6

(* One call more. *)
LEMMA SetBefore ==
  ASSUME NEW i \in Nat \ {0}, NEW T, T \subseteq 1 .. i - 1
  PROVE  /\ IsFiniteSet(T) /\ Cardinality(T) \in Nat
         /\ i \notin T
         /\ Cardinality(T \cup {i}) = Cardinality(T) + 1
<1>1. IsFiniteSet(1 .. i - 1)
  BY FS_Interval
<1>2. IsFiniteSet(T)
  BY <1>1, FS_Subset
<1>3. i \notin T
  OBVIOUS
<1>4. QED  BY <1>2, <1>3, FS_AddElement, FS_CardinalityType

LEMMA MadeNext ==
  ASSUME NEW s, NEW i \in Nat \ {0}, NEW op
  PROVE  /\ Made(s, i, op) \in Nat
         /\ Made(s, i + 1, op) = Made(s, i, op) + (IF s[i] = op THEN 1 ELSE 0)
<1> DEFINE T == {j \in 1 .. i - 1 : s[j] = op}
           U == {j \in 1 .. (i + 1) - 1 : s[j] = op}
<1>1. U = IF s[i] = op THEN T \cup {i} ELSE T
  <2>1. 1 .. (i + 1) - 1 = (1 .. i - 1) \cup {i}
    OBVIOUS
  <2>2. QED  BY <2>1
<1>2. Cardinality(T) \in Nat /\ Cardinality(T \cup {i}) = Cardinality(T) + 1
  BY SetBefore
<1>3. Made(s, i, op) = Cardinality(T) /\ Made(s, i + 1, op) = Cardinality(U)
  BY DEF Made
<1> HIDE DEF T, U
<1>4. QED  BY <1>1, <1>2, <1>3

LEMMA MadeFirst == \A s, op : Made(s, 1, op) = 0
<1>1. \A s, op : {j \in 1 .. 1 - 1 : s[j] = op} = {}
  OBVIOUS
<1>2. QED  BY <1>1, FS_EmptySet DEF Made

LEMMA UnflushedNext ==
  ASSUME NEW s, NEW i \in Nat \ {0}, NEW q, s[i] # Flush
  PROVE  /\ Cardinality(Unflushed(s, i, q)) \in Nat
         /\ Cardinality(Unflushed(s, i + 1, q)) =
              Cardinality(Unflushed(s, i, q)) + (IF Posts(s[i], q) THEN 1 ELSE 0)
<1> DEFINE T == Unflushed(s, i, q)
           U == Unflushed(s, i + 1, q)
<1>1. ASSUME NEW j \in 1 .. i - 1
      PROVE  j \in U <=> j \in T
  <2>1. j \in 1 .. (i + 1) - 1 /\ j + 1 .. (i + 1) - 1 = (j + 1 .. i - 1) \cup {i}
    OBVIOUS
  <2>2. QED  BY <2>1 DEF Unflushed
<1>2. i \in U <=> Posts(s[i], q)
  <2>1. i \in 1 .. (i + 1) - 1 /\ i + 1 .. (i + 1) - 1 = {}
    OBVIOUS
  <2>2. QED  BY <2>1 DEF Unflushed
<1>3. U \subseteq (1 .. i - 1) \cup {i} /\ T \subseteq 1 .. i - 1
  <2>1. 1 .. (i + 1) - 1 = (1 .. i - 1) \cup {i}
    OBVIOUS
  <2>2. QED  BY <2>1 DEF Unflushed
<1>4. Cardinality(T) \in Nat /\ Cardinality(T \cup {i}) = Cardinality(T) + 1
  BY <1>3, SetBefore
<1> HIDE DEF T, U
<1>5. U = IF Posts(s[i], q) THEN T \cup {i} ELSE T
  <2> DEFINE D == 1 .. i - 1
  <2>1. U \subseteq D \cup {i} /\ T \subseteq D /\ (\A j \in D : j \in U <=> j \in T)
    BY <1>1, <1>3
  <2>2. i \notin T
    BY <1>3, SetBefore
  <2> HIDE DEF D
  <2>3. QED  BY <1>2, <2>1, <2>2
<1>6. QED  BY <1>4, <1>5 DEF T, U

LEMMA UnreturnedNext ==
  ASSUME NEW s, NEW i \in Nat \ {0}
  PROVE  /\ Unreturned(s, i) # {} /\ s[i] # Return => Unreturned(s, i + 1) # {}
         /\ \A q \in Proc : s[i] = Receive(q) => Unreturned(s, i + 1) # {}
<1>1. ASSUME NEW q \in Proc, s[i] = Receive(q) PROVE Unreturned(s, i + 1) # {}
  <2>1. i \in 1 .. (i + 1) - 1 /\ i + 1 .. (i + 1) - 1 = {}
    OBVIOUS
  <2>2. QED  BY <1>1, <2>1 DEF Unreturned
<1>2. ASSUME Unreturned(s, i) # {}, s[i] # Return PROVE Unreturned(s, i + 1) # {}
  <2>1. PICK q \in Proc, j \in 1 .. i - 1 : s[j] = Receive(q) /\ \A k \in j + 1 .. i - 1 : s[k] # Return
    BY <1>2 DEF Unreturned
  <2>2. j \in 1 .. (i + 1) - 1 /\ j + 1 .. (i + 1) - 1 = (j + 1 .. i - 1) \cup {i}
    OBVIOUS
  <2>3. QED  BY <1>2, <2>1, <2>2 DEF Unreturned
<1>3. QED  BY <1>1, <1>2

Typed == Programs \subseteq [Proc -> Seq(Operation)]

\* The messages a rank has asked for and not got.
Asked(c, src, q) == IF c = "recv" /\ src = q THEN 1 ELSE 0

\* Rank p, which is before the i-th call of its list or in the one before, as long as
\* nothing has failed: its label c, send queues s, result rt, and so on.
RankOK(prog, p, i, c, s, rt, n, g, src, f, l) ==
  /\ i \in 1 .. Len(prog[p]) + 1
  /\ rt = 0 /\ l = {} /\ c # "exit"
  /\ \A q \in Proc : /\ n[q] = Made(prog[p], i, Send(q))
                     /\ Len(g[q]) + Asked(c, src, q) = Made(prog[p], i, Receive(q))
                     /\ s[q] # <<>> => Targets(prog[p], q)
  /\ c = "recv" \/ (f # <<>> /\ c # "return") => Unreturned(prog[p], i) # {}
  /\ FlushesInTime(prog[p]) /\ c # "flush" =>
       \A q \in Proc : Len(s[q]) <= Cardinality(Unflushed(prog[p], i, q))
  /\ OneWay(prog, p) =>
       \A q \in Proc : Len(s[q]) <= MaxSendWr /\ (c # "throttle" => Len(s[q]) < MaxSendWr)

Rank(p) == RankOK(program, p, ip[p], pc[p], sq[p], ret[p], sent[p], got[p], source[p],
                  vbuf_fetched[p], lost[p])

\* A rank to which no message is sent finds no receive completion.
NoSends(s) == \A i \in 1 .. Len(s) : s[i].kind # "send"

Silence == \A p \in Proc : OneWay(program, p) =>
             \A r \in Proc : rcq[p][r] = <<>> /\ NoSends(sq[r][p])

AppInv ==
  /\ program \in Programs /\ ip \in [Proc -> Nat]
  /\ faults = 0 => Silence /\ \A p \in Proc : Rank(p)

LEMMA AppStart ==
  ASSUME Typed, AppInit
  PROVE  AppInv
<1>1. program \in [Proc -> Seq(Operation)] /\ program \in Programs
  BY DEF Typed, AppInit
<1>2. ASSUME NEW p \in Proc PROVE Rank(p)
  <2>1. /\ ip[p] = 1 /\ pc[p] = "idle" /\ ret[p] = 0 /\ lost[p] = {} /\ vbuf_fetched[p] = <<>>
        /\ \A q \in Proc : sq[p][q] = <<>> /\ sent[p][q] = 0 /\ got[p][q] = <<>>
    BY DEF AppInit, Init
  <2>2. Len(program[p]) \in Nat
    BY <1>1
  <2>3. \A q \in Proc : Made(program[p], 1, Send(q)) = 0 /\ Made(program[p], 1, Receive(q)) = 0
    BY MadeFirst
  <2>4. \A q \in Proc : Cardinality(Unflushed(program[p], 1, q)) \in Nat
    <3>1. \A q \in Proc : Unflushed(program[p], 1, q) \subseteq 1 .. 1 - 1
      BY DEF Unflushed
    <3>2. QED  BY <3>1, SetBefore, 1 \in Nat \ {0}
  <2>5. MaxSendWr \in Nat \ {0} /\ \A q \in Proc : Len(sq[p][q]) = 0 /\ Len(got[p][q]) = 0
    BY <2>1, QueueAssumption
  <2>6. QED  BY <2>1, <2>2, <2>3, <2>4, <2>5 DEF Rank, RankOK, Asked
<1>3. Silence
  BY DEF Silence, NoSends, AppInit, Init
<1>4. ip \in [Proc -> Nat]
  BY DEF AppInit
<1>5. QED  BY <1>1, <1>2, <1>3, <1>4 DEF AppInv

\* What holds of the core, and that it runs one of the programs.
CoreInv == TypeOK /\ CountersInv /\ BuffersInv /\ FlowInv /\ ExitsOnlyOnFault

Context == AppInv /\ CoreInv /\ CoreInv' /\ faults' = 0 /\ Typed

LEMMA ContextFacts ==
  ASSUME Context, faults' = faults, NEW p \in Proc
  PROVE  /\ program \in [Proc -> Seq(Operation)] /\ Len(program[p]) \in Nat
         /\ Silence /\ faults = 0 /\ pc[p] # "exit" /\ pc'[p] # "exit"
         /\ Rank(p) /\ TypeOK /\ TypeOK'
         /\ \A q \in Proc : /\ sq[p][q] \in Seq(WR) /\ Len(sq[p][q]) \in Nat
                            /\ qp_pending_send_wr[p][q] = Len(sq[p][q])
                            /\ sent[p][q] \in Nat /\ Len(got[p][q]) \in Nat /\ got[p][q] \in Seq(Got)
<1>1. program \in [Proc -> Seq(Operation)] /\ Silence /\ Rank(p) /\ faults = 0
  BY DEF Context, AppInv, Typed
<1>2. Len(program[p]) \in Nat
  BY <1>1
<1>3. pc[p] # "exit" /\ pc'[p] # "exit"
  BY <1>1 DEF Context, CoreInv, ExitsOnlyOnFault, At
<1>4. TypeOK /\ TypeOK' /\ CountersInv
  BY DEF Context, CoreInv
<1>5. \A q \in Proc : sq[p][q] \in Seq(WR) /\ sent[p][q] \in Nat /\ got[p][q] \in Seq(Got)
  BY <1>4, FlowTypes
<1>6. \A q \in Proc : Len(sq[p][q]) \in Nat /\ Len(got[p][q]) \in Nat
  BY <1>5
<1>7. \A q \in Proc : qp_pending_send_wr[p][q] = Len(sq[p][q])
  BY <1>4 DEF CountersInv, CountersOK
<1>8. QED  BY <1>1, <1>2, <1>3, <1>4, <1>5, <1>6, <1>7

LEMMA NextPlace ==
  ASSUME NEW L \in Seq(Operation), NEW i \in 1 .. Len(L) + 1, i <= Len(L)
  PROVE  /\ i \in Nat \ {0} /\ i + 1 \in 1 .. Len(L) + 1 /\ L[i] \in Operation
         /\ i \in 1 .. Len(L)
  OBVIOUS

\* A call that does not post and is none of the receives.
LEMMA RankCall ==
  ASSUME NEW prog \in [Proc -> Seq(Operation)], NEW p \in Proc, NEW i \in Nat, i <= Len(prog[p]),
         NEW s, NEW n, NEW g, NEW src, NEW f, NEW l, NEW c, NEW src2,
         \A q \in Proc : Len(s[q]) \in Nat /\ Len(g[q]) \in Nat,
         RankOK(prog, p, i, "idle", s, 0, n, g, src, f, l),
         \/ prog[p][i] = Flush /\ c = "flush" /\ src2 = src
         \/ prog[p][i] = Return /\ c = "return" /\ src2 = src
         \/ prog[p][i] = Barrier /\ c = "idle" /\ src2 = src
         \/ prog[p][i] = Receive(src2) /\ src2 \in Proc /\ c = "recv"
  PROVE  RankOK(prog, p, i + 1, c, s, 0, n, g, src2, f, l)
<1> DEFINE L == prog[p]
<1>0. L \in Seq(Operation) /\ i \in 1 .. Len(L) + 1
  BY DEF RankOK
<1>1. i \in Nat \ {0} /\ i + 1 \in 1 .. Len(L) + 1
  BY <1>0, NextPlace
<1>2. \A q \in Proc : ~ Posts(L[i], q)
  BY OperationsDiffer DEF Posts
<1>3. c # "flush" => L[i] # Flush
  BY OperationsDiffer
<1>4. ASSUME NEW q \in Proc
      PROVE  /\ n[q] = Made(L, i + 1, Send(q))
             /\ Len(g[q]) + Asked(c, src2, q) = Made(L, i + 1, Receive(q))
             /\ s[q] # <<>> => Targets(L, q)
  <2>1. /\ n[q] = Made(L, i, Send(q)) /\ Len(g[q]) + Asked("idle", src, q) = Made(L, i, Receive(q))
        /\ s[q] # <<>> => Targets(L, q)
    BY DEF RankOK
  <2>2. Asked("idle", src, q) = 0
    BY DEF Asked
  <2>3. L[i] # Send(q)
    BY <1>2 DEF Posts
  <2>4. Asked(c, src2, q) = IF L[i] = Receive(q) THEN 1 ELSE 0
    BY OperationsDiffer DEF Asked
  <2>5. /\ Made(L, i + 1, Send(q)) = Made(L, i, Send(q)) + (IF L[i] = Send(q) THEN 1 ELSE 0)
        /\ Made(L, i + 1, Receive(q)) = Made(L, i, Receive(q)) + (IF L[i] = Receive(q) THEN 1 ELSE 0)
        /\ Made(L, i, Send(q)) \in Nat
    BY <1>1, MadeNext
  <2>6. Len(g[q]) \in Nat
    OBVIOUS
  <2> HIDE DEF L
  <2>7. n[q] = Made(L, i + 1, Send(q))
    BY <2>1, <2>3, <2>5
  <2>8. Len(g[q]) + Asked(c, src2, q) = Made(L, i + 1, Receive(q))
    <3>1. CASE L[i] = Receive(q)
      BY <2>1, <2>2, <2>4, <2>5, <2>6, <3>1
    <3>2. CASE L[i] # Receive(q)
      BY <2>1, <2>2, <2>4, <2>5, <2>6, <3>2
    <3>3. QED  BY <3>1, <3>2
  <2>9. QED  BY <2>1, <2>7, <2>8
<1>5. ASSUME c = "recv" \/ (f # <<>> /\ c # "return") PROVE Unreturned(L, i + 1) # {}
  <2>1. CASE c = "recv"
    <3>1. L[i] = Receive(src2) /\ src2 \in Proc
      BY <2>1
    <3>2. QED  BY <1>1, <3>1, UnreturnedNext
  <2>2. CASE c # "recv"
    <3>1. Unreturned(L, i) # {} /\ L[i] # Return
      BY <1>5, <2>2, OperationsDiffer DEF RankOK
    <3>2. QED  BY <1>1, <3>1, UnreturnedNext
  <2>3. QED  BY <2>1, <2>2
<1>6. ASSUME FlushesInTime(L), c # "flush", NEW q \in Proc
      PROVE  Len(s[q]) <= Cardinality(Unflushed(L, i + 1, q))
  <2>1. Len(s[q]) <= Cardinality(Unflushed(L, i, q))
    BY <1>6 DEF RankOK
  <2>2. Cardinality(Unflushed(L, i + 1, q)) = Cardinality(Unflushed(L, i, q)) + 0
        /\ Cardinality(Unflushed(L, i, q)) \in Nat
    BY <1>1, <1>2, <1>3, <1>6, UnflushedNext
  <2>3. QED  BY <2>1, <2>2
<1>7. OneWay(prog, p) => \A q \in Proc : Len(s[q]) <= MaxSendWr /\ Len(s[q]) < MaxSendWr
  BY DEF RankOK
<1>8. l = {} /\ c # "exit"
  BY DEF RankOK
<1>9. QED  BY <1>1, <1>4, <1>5, <1>6, <1>7, <1>8 DEF RankOK

\* There is room for a WR.
LEMMA RankRoom ==
  ASSUME NEW prog \in [Proc -> Seq(Operation)], NEW p \in Proc, NEW q \in Proc, NEW i \in Nat, i <= Len(prog[p]),
         NEW s, NEW n, NEW g, NEW src, NEW f, NEW l, NEW rt, Len(s[q]) \in Nat,
         RankOK(prog, p, i, "idle", s, rt, n, g, src, f, l),
         Posts(prog[p][i], q), Throttled(prog)
  PROVE  Len(s[q]) < SqDepth
<1> DEFINE L == prog[p]
<1>0. L \in Seq(Operation) /\ i \in 1 .. Len(L) + 1
  BY DEF RankOK
<1>1. i \in Nat \ {0} /\ i + 1 \in 1 .. Len(L) + 1
  BY <1>0, NextPlace
<1>2. L[i] # Flush
  BY OperationsDiffer DEF Posts
<1>3. CASE OneWay(prog, p)
  <2>1. Len(s[q]) < MaxSendWr
    BY <1>3 DEF RankOK
  <2>2. QED  BY <2>1, QueueAssumption
<1>4. CASE FlushesInTime(L)
  <2>1. Len(s[q]) <= Cardinality(Unflushed(L, i, q))
    BY <1>4 DEF RankOK
  <2>2. Cardinality(Unflushed(L, i + 1, q)) = Cardinality(Unflushed(L, i, q)) + 1
        /\ Cardinality(Unflushed(L, i, q)) \in Nat
    BY <1>1, <1>2, UnflushedNext
  <2>3. Cardinality(Unflushed(L, i + 1, q)) <= SqDepth
    BY <1>1, <1>4 DEF FlushesInTime
  <2>4. QED  BY <2>1, <2>2, <2>3, QueueAssumption
<1>5. QED  BY <1>3, <1>4 DEF Throttled

\* The i-th call of p posts to q: its queues were s and are s2, and so on.
Posting(prog, p, q, i, s, n, g, s2, n2, c) ==
  /\ i \in Nat /\ i <= Len(prog[p])
  /\ Posts(prog[p][i], q)
  /\ \A r \in Proc : /\ Len(s[r]) \in Nat /\ Len(g[r]) \in Nat
                     /\ IF r = q THEN Len(s2[r]) = Len(s[r]) + 1 ELSE s2[r] = s[r]
                     /\ n2[r] = n[r] + (IF prog[p][i] = Send(r) THEN 1 ELSE 0)
  /\ c = IF Len(s[q]) + 1 = MaxSendWr THEN "throttle" ELSE "idle"

LEMMA RankPost ==
  ASSUME NEW prog \in [Proc -> Seq(Operation)], NEW p \in Proc, NEW q \in Proc, NEW i,
         NEW s, NEW n, NEW g, NEW src, NEW f, NEW l, NEW rt, NEW s2, NEW n2, NEW c,
         RankOK(prog, p, i, "idle", s, rt, n, g, src, f, l),
         Posting(prog, p, q, i, s, n, g, s2, n2, c)
  PROVE  RankOK(prog, p, i + 1, c, s2, 0, n2, g, src, f, l)
<1> USE DEF Posting
<1> DEFINE L == prog[p]
<1>0. L \in Seq(Operation) /\ i \in 1 .. Len(L) + 1
  BY DEF RankOK
<1>1. i \in Nat \ {0} /\ i + 1 \in 1 .. Len(L) + 1 /\ i \in 1 .. Len(L)
  BY <1>0, NextPlace
<1>2. L[i] # Flush /\ L[i] # Return /\ \A r \in Proc : L[i] # Receive(r)
  BY OperationsDiffer DEF Posts
<1>3. \A r \in Proc : Posts(L[i], r) <=> r = q
  BY OperationsDiffer DEF Posts
<1>4. ASSUME NEW r \in Proc
      PROVE  /\ n2[r] = Made(L, i + 1, Send(r))
             /\ Len(g[r]) + Asked(c, src, r) = Made(L, i + 1, Receive(r))
             /\ s2[r] # <<>> => Targets(L, r)
  <2>1. /\ n[r] = Made(L, i, Send(r)) /\ Len(g[r]) + Asked("idle", src, r) = Made(L, i, Receive(r))
        /\ s[r] # <<>> => Targets(L, r)
    BY DEF RankOK
  <2>2. Asked("idle", src, r) = 0 /\ Asked(c, src, r) = 0
    BY DEF Asked
  <2>3. /\ Made(L, i + 1, Send(r)) = Made(L, i, Send(r)) + (IF L[i] = Send(r) THEN 1 ELSE 0)
        /\ Made(L, i + 1, Receive(r)) = Made(L, i, Receive(r)) + (IF L[i] = Receive(r) THEN 1 ELSE 0)
        /\ Made(L, i, Receive(r)) \in Nat
    BY <1>1, MadeNext
  <2>4. r = q => Targets(L, r)
    BY <1>1 DEF Targets
  <2>5. Len(g[r]) \in Nat /\ n2[r] = n[r] + (IF L[i] = Send(r) THEN 1 ELSE 0) /\ L[i] # Receive(r)
        /\ (r # q => s2[r] = s[r])
    BY <1>2
  <2> HIDE DEF L
  <2>6. n2[r] = Made(L, i + 1, Send(r))
    BY <2>1, <2>3, <2>5
  <2>7. Len(g[r]) + Asked(c, src, r) = Made(L, i + 1, Receive(r))
    BY <2>1, <2>2, <2>3, <2>5
  <2>8. QED  BY <2>1, <2>4, <2>5, <2>6, <2>7
<1>5. ASSUME c = "recv" \/ (f # <<>> /\ c # "return") PROVE Unreturned(L, i + 1) # {}
  <2>1. Unreturned(L, i) # {}
    BY <1>5 DEF RankOK
  <2>2. QED  BY <1>1, <1>2, <2>1, UnreturnedNext
<1>6. ASSUME FlushesInTime(L), NEW r \in Proc
      PROVE  Len(s2[r]) <= Cardinality(Unflushed(L, i + 1, r))
  <2>1. Len(s[r]) <= Cardinality(Unflushed(L, i, r))
    BY <1>6 DEF RankOK
  <2>2. Cardinality(Unflushed(L, i + 1, r)) = Cardinality(Unflushed(L, i, r)) + (IF Posts(L[i], r) THEN 1 ELSE 0)
        /\ Cardinality(Unflushed(L, i, r)) \in Nat
    BY <1>1, <1>2, UnflushedNext
  <2>3. /\ Len(s[r]) \in Nat
        /\ Len(s2[r]) = Len(s[r]) + (IF Posts(L[i], r) THEN 1 ELSE 0)
    <3>1. Len(s[r]) \in Nat /\ IF r = q THEN Len(s2[r]) = Len(s[r]) + 1 ELSE s2[r] = s[r]
      OBVIOUS
    <3>2. Posts(L[i], r) <=> r = q
      BY <1>3
    <3> HIDE DEF L
    <3>3. CASE r = q
      BY <3>1, <3>2, <3>3
    <3>4. CASE r # q
      <4>1. (IF Posts(L[i], r) THEN 1 ELSE 0) = 0
        BY <3>2, <3>4, Zenon
      <4>2. s2[r] = s[r] /\ Len(s[r]) \in Nat
        BY <3>1, <3>4
      <4>3. Len(s[r]) = Len(s[r]) + 0
        BY <4>2
      <4>4. QED  BY <4>1, <4>2, <4>3, Zenon
    <3>5. QED  BY <3>3, <3>4
  <2> HIDE DEF L
  <2>4. CASE Posts(L[i], r)
    BY <2>1, <2>2, <2>3, <2>4
  <2>5. CASE ~ Posts(L[i], r)
    BY <2>1, <2>2, <2>3, <2>5
  <2>6. QED  BY <2>4, <2>5
<1>7. ASSUME OneWay(prog, p), NEW r \in Proc
      PROVE  Len(s2[r]) <= MaxSendWr /\ (c # "throttle" => Len(s2[r]) < MaxSendWr)
  <2>1. Len(s[r]) < MaxSendWr
    BY <1>7 DEF RankOK
  <2>2. /\ Len(s[r]) \in Nat /\ IF r = q THEN Len(s2[r]) = Len(s[r]) + 1 ELSE s2[r] = s[r]
        /\ c = IF Len(s[q]) + 1 = MaxSendWr THEN "throttle" ELSE "idle"
    OBVIOUS
  <2>3. CASE r = q
    BY <2>1, <2>2, <2>3, QueueAssumption
  <2>4. CASE r # q
    BY <2>1, <2>2, <2>4, QueueAssumption
  <2>5. QED  BY <2>3, <2>4
<1>8. l = {} /\ c # "exit"
  BY DEF RankOK
<1>9. QED  BY <1>1, <1>4, <1>5, <1>6, <1>7, <1>8 DEF RankOK

\* A completion of a send to q is handled: the queues were s and are s2, the label c and c2.
Sending(q, s, s2, c, c2, g) ==
  /\ \A r \in Proc : /\ Len(s[r]) \in Nat /\ (Len(s[r]) # 0 => s[r] # <<>>) /\ Len(g[r]) \in Nat
                     /\ IF r = q THEN Len(s2[r]) = Len(s[r]) - 1 ELSE s2[r] = s[r]
  /\ Len(s[q]) > 0
  /\ c2 = c \/ (c = "throttle" /\ c2 = "idle")

LEMMA RankSent ==
  ASSUME NEW prog, NEW p \in Proc, NEW q \in Proc, NEW i, NEW c,
         NEW s, NEW n, NEW g, NEW src, NEW f, NEW l, NEW rt, NEW s2, NEW c2,
         RankOK(prog, p, i, c, s, rt, n, g, src, f, l),
         Sending(q, s, s2, c, c2, g)
  PROVE  RankOK(prog, p, i, c2, s2, rt, n, g, src, f, l)
<1> USE DEF Sending
<1>1. ASSUME NEW r \in Proc
      PROVE  /\ n[r] = Made(prog[p], i, Send(r))
             /\ Len(g[r]) + Asked(c2, src, r) = Made(prog[p], i, Receive(r))
             /\ s2[r] # <<>> => Targets(prog[p], r)
  <2>1. /\ n[r] = Made(prog[p], i, Send(r)) /\ Len(g[r]) + Asked(c, src, r) = Made(prog[p], i, Receive(r))
        /\ s[r] # <<>> => Targets(prog[p], r)
    BY DEF RankOK
  <2>2. Asked(c, src, r) = Asked(c2, src, r)
    BY DEF Asked
  <2>3. s[q] # <<>>
    OBVIOUS
  <2>4. QED  BY <2>1, <2>2, <2>3
<1>2. c2 = "recv" \/ (f # <<>> /\ c2 # "return") => Unreturned(prog[p], i) # {}
  BY DEF RankOK
<1>3. ASSUME FlushesInTime(prog[p]), c2 # "flush", NEW r \in Proc
      PROVE  Len(s2[r]) <= Cardinality(Unflushed(prog[p], i, r))
  <2>1. Len(s[r]) <= Cardinality(Unflushed(prog[p], i, r))
    BY <1>3 DEF RankOK
  <2>2. Cardinality(Unflushed(prog[p], i, r)) \in Int
    <3>1. i \in Nat \ {0}
      BY DEF RankOK
    <3>2. Unflushed(prog[p], i, r) \subseteq 1 .. i - 1
      BY DEF Unflushed
    <3>3. Cardinality(Unflushed(prog[p], i, r)) \in Nat
      BY <3>1, <3>2, SetBefore, Zenon
    <3>4. QED  BY <3>3
  <2>3. QED  BY <2>1, <2>2
<1>4. ASSUME OneWay(prog, p), NEW r \in Proc
      PROVE  Len(s2[r]) <= MaxSendWr /\ (c2 # "throttle" => Len(s2[r]) < MaxSendWr)
  <2>1. Len(s[r]) <= MaxSendWr /\ (c # "throttle" => Len(s[r]) < MaxSendWr)
    BY <1>4 DEF RankOK
  <2>2. CASE r = q
    BY <2>1, <2>2, QueueAssumption
  <2>3. CASE r # q
    <3>1. Targets(prog[p], q) /\ (s[r] # <<>> => Targets(prog[p], r))
      BY DEF RankOK
    <3>2. s[r] = <<>>
      BY <1>4, <2>3, <3>1 DEF OneWay
    <3>3. Len(s2[r]) = 0
      BY <2>3, <3>2
    <3>4. QED  BY <3>3, QueueAssumption
  <2>4. QED  BY <2>2, <2>3
<1>5. i \in 1 .. Len(prog[p]) + 1 /\ rt = 0 /\ l = {} /\ c2 # "exit"
  BY DEF RankOK
<1>6. QED  BY <1>1, <1>2, <1>3, <1>4, <1>5 DEF RankOK

\* The label changes and neither queues nor counts.
LEMMA RankGoto ==
  ASSUME NEW prog, NEW p \in Proc, NEW i, NEW c,
         NEW s, NEW n, NEW g, NEW src, NEW f, NEW l, NEW rt, NEW c2, NEW f2,
         RankOK(prog, p, i, c, s, rt, n, g, src, f, l),
         \/ c2 = c /\ f2 = f
         \/ c = "throttle" /\ c2 = "idle" /\ ~ OneWay(prog, p) /\ f2 = f
         \/ c = "return" /\ c2 = "return"
         \/ c = "return" /\ c2 = "idle" /\ f2 = <<>>
  PROVE  RankOK(prog, p, i, c2, s, rt, n, g, src, f2, l)
<1>1. \A r \in Proc : Asked(c, src, r) = Asked(c2, src, r)
  BY DEF Asked
<1>2. QED  BY <1>1 DEF RankOK

LEMMA RankFlushed ==
  ASSUME NEW prog, NEW p \in Proc, NEW i,
         NEW s, NEW n, NEW g, NEW src, NEW f, NEW l, NEW rt,
         \A r \in Proc : Len(s[r]) = 0,
         RankOK(prog, p, i, "flush", s, rt, n, g, src, f, l)
  PROVE  RankOK(prog, p, i, "idle", s, rt, n, g, src, f, l)
<1>1. \A r \in Proc : Asked("flush", src, r) = Asked("idle", src, r)
  BY DEF Asked
<1>2. \A r \in Proc : Cardinality(Unflushed(prog[p], i, r)) \in Nat
  <2>1. i \in Nat \ {0} /\ \A r \in Proc : Unflushed(prog[p], i, r) \subseteq 1 .. i - 1
    BY DEF RankOK, Unflushed
  <2>2. QED  BY <2>1, SetBefore
<1>3. QED  BY <1>1, <1>2 DEF RankOK

LEMMA RankReceived ==
  ASSUME NEW prog, NEW p \in Proc, NEW i, NEW g2, NEW f2,
         NEW s, NEW n, NEW g, NEW src \in Proc, NEW f, NEW l, NEW rt,
         \A r \in Proc : Len(g[r]) \in Nat,
         \A r \in Proc : IF r = src THEN Len(g2[r]) = Len(g[r]) + 1 ELSE g2[r] = g[r],
         RankOK(prog, p, i, "recv", s, rt, n, g, src, f, l)
  PROVE  RankOK(prog, p, i, "idle", s, rt, n, g2, src, f2, l)
<1>1. ASSUME NEW r \in Proc PROVE Len(g2[r]) + Asked("idle", src, r) = Len(g[r]) + Asked("recv", src, r)
  <2>1. Asked("idle", src, r) = 0 /\ Asked("recv", src, r) = IF src = r THEN 1 ELSE 0
    BY DEF Asked
  <2>2. Len(g[r]) \in Nat /\ IF r = src THEN Len(g2[r]) = Len(g[r]) + 1 ELSE g2[r] = g[r]
    OBVIOUS
  <2>3. QED  BY <2>1, <2>2
<1>2. QED  BY <1>1 DEF RankOK

--------------------------------------------------------------------------------
(* Each step keeps the counts. *)

LEMMA OtherRank ==
  ASSUME NEW r \in Proc, Rank(r), program' = program, ip'[r] = ip[r], pc'[r] = pc[r], sq'[r] = sq[r],
         ret'[r] = ret[r], sent'[r] = sent[r], got'[r] = got[r], source'[r] = source[r],
         vbuf_fetched'[r] = vbuf_fetched[r], lost'[r] = lost[r]
  PROVE  Rank(r)'
  BY Zenon DEF Rank

LEMMA SilenceKept ==
  ASSUME Silence, program' = program,
         \A p, r \in Proc : OneWay(program, p) /\ rcq[p][r] = <<>> /\ NoSends(sq[r][p])
                             => rcq'[p][r] = <<>> /\ NoSends(sq'[r][p])
  PROVE  Silence'
  BY DEF Silence

\* A call of the program that posts.
LEMMA AppPost ==
  ASSUME Context, NEW p \in Proc, NEW q \in Proc, NEW kind \in {"send", "write"},
         ip[p] <= Len(program[p]), program[p][ip[p]] = (IF kind = "send" THEN Send(q) ELSE Write(q)),
         post(p, q, kind), faults' = faults, Throttled(program),
         ip' = [ip EXCEPT ![p] = @ + 1], ip \in [Proc -> Nat], ip' \in [Proc -> Nat], program' = program
  PROVE  AppInv'
<1> DEFINE i == ip[p]
           L == program[p]
<1>1. /\ program \in [Proc -> Seq(Operation)] /\ Silence /\ faults = 0 /\ Rank(p) /\ TypeOK
      /\ \A r \in Proc : /\ sq[p][r] \in Seq(WR) /\ Len(sq[p][r]) \in Nat
                         /\ qp_pending_send_wr[p][r] = Len(sq[p][r])
                         /\ sent[p][r] \in Nat /\ Len(got[p][r]) \in Nat
  BY ContextFacts
<1>2. pc[p] = "idle"
  BY DEF post, At
<1>3. Posts(L[i], q) /\ (L[i] = Send(q) <=> kind = "send") /\ \A r \in Proc : r # q => L[i] # Send(r)
  BY OperationsDiffer DEF Posts
<1>4. RankOK(program, p, i, "idle", sq[p], ret[p], sent[p], got[p], source[p], vbuf_fetched[p], lost[p])
  BY <1>1, <1>2 DEF Rank
<1>5. Len(sq[p][q]) < SqDepth
  BY <1>1, <1>3, <1>4, RankRoom
<1>6. post_accepted(p, q, kind)
  <2>1. ~ post_rejected(p, q)
    <3>1. faults \in 0 .. MaxFaults
      BY <1>1 DEF TypeOK
    <3>2. SqDepth \in Nat /\ Len(sq[p][q]) \in Nat
      BY <1>1, QueueAssumption
    <3>3. QED  BY <1>5, <3>1, <3>2 DEF post_rejected
  <2>2. QED  BY <2>1 DEF post
<1> DEFINE wr == [kind |-> kind, n |-> IF kind = "send" THEN sent[p][q] + 1 ELSE 0]
<1>7. /\ sq' = [sq EXCEPT ![p][q] = Append(sq[p][q], wr)]
      /\ sent' = IF kind = "send" THEN [sent EXCEPT ![p][q] = sent[p][q] + 1] ELSE sent
      /\ ret' = [ret EXCEPT ![p] = 0] /\ source' = source
      /\ pc' = [pc EXCEPT ![p] = IF qp_pending_send_wr[p][q] + 1 = MaxSendWr THEN "throttle" ELSE "idle"]
      /\ vbuf_fetched' = vbuf_fetched /\ got' = got /\ lost' = lost /\ rcq' = rcq
  BY <1>6, Zenon DEF post_accepted, post, rx_win, recvq, Goto
<1>8. /\ pc \in [Proc -> Labels] /\ sq \in PairOf(Seq(WR)) /\ sent \in PairOf(Nat) /\ ret \in [Proc -> {0, -1}]
  BY <1>1 DEF TypeOK
<1>9. Len(Append(sq[p][q], wr)) = Len(sq[p][q]) + 1
  <2>1. sq[p][q] \in Seq(WR)
    BY <1>1
  <2> HIDE DEF wr
  <2>2. QED  BY <2>1
<1>10. /\ \A r \in Proc : IF r = q THEN Len(sq'[p][r]) = Len(sq[p][r]) + 1 ELSE sq'[p][r] = sq[p][r]
       /\ \A o, r \in Proc : o # p \/ r # q => sq'[o][r] = sq[o][r]
       /\ \A o \in Proc : o # p => sq'[o] = sq[o]
       /\ sq'[p][q] = Append(sq[p][q], wr)
  <2> HIDE DEF wr
  <2>1. QED  BY <1>7, <1>8, <1>9 DEF PairOf
<1>11. /\ \A r \in Proc : sent'[p][r] = sent[p][r] + (IF L[i] = Send(r) THEN 1 ELSE 0)
       /\ \A o \in Proc : o # p => sent'[o] = sent[o]
  <2>1. CASE kind = "send"
    <3>1. sent' = [sent EXCEPT ![p][q] = sent[p][q] + 1]
      BY <1>7, <2>1
    <3>2. /\ \A r \in Proc : sent'[p][r] = IF r = q THEN sent[p][r] + 1 ELSE sent[p][r]
          /\ \A o \in Proc : o # p => sent'[o] = sent[o]
      BY <1>8, <3>1 DEF PairOf
    <3>3. \A r \in Proc : L[i] = Send(r) <=> r = q
      BY <1>3, <2>1
    <3> HIDE DEF L, i
    <3>4. ASSUME NEW r \in Proc PROVE sent'[p][r] = sent[p][r] + (IF L[i] = Send(r) THEN 1 ELSE 0)
      <4>1. sent[p][r] \in Nat
        BY <1>1
      <4>2. CASE r = q
        BY <3>2, <3>3, <4>1, <4>2
      <4>3. CASE r # q
        BY <3>2, <3>3, <4>1, <4>3
      <4>4. QED  BY <4>2, <4>3
    <3>5. QED  BY <3>2, <3>4
  <2>2. CASE kind # "send"
    <3>1. sent' = sent /\ \A r \in Proc : L[i] # Send(r)
      BY <1>3, <1>7, <2>2
    <3> HIDE DEF L, i
    <3>2. QED  BY <1>1, <3>1
  <2>3. QED  BY <2>1, <2>2
<1>12. /\ pc'[p] = IF Len(sq[p][q]) + 1 = MaxSendWr THEN "throttle" ELSE "idle"
       /\ \A o \in Proc : o # p => pc'[o] = pc[o] /\ ret'[o] = ret[o] /\ ip'[o] = ip[o]
       /\ ret'[p] = 0 /\ ip'[p] = i + 1
  BY <1>1, <1>7, <1>8
<1>13. RankOK(program, p, i + 1, pc'[p], sq'[p], 0, sent'[p], got[p], source[p], vbuf_fetched[p], lost[p])
  <2> DEFINE s == sq[p]
             g == got[p]
             n == sent[p]
             rt == ret[p]
             src == source[p]
             f == vbuf_fetched[p]
             l == lost[p]
             s2 == sq'[p]
             n2 == sent'[p]
             c == pc'[p]
  <2>1. program \in [Proc -> Seq(Operation)] /\ i \in Nat /\ i <= Len(program[p])
    BY <1>1
  <2>2. RankOK(program, p, i, "idle", s, rt, n, g, src, f, l)
    BY <1>4
  <2>3. Posting(program, p, q, i, s, n, g, s2, n2, c)
    <3>1. Posts(program[p][i], q)
      BY <1>3
    <3>2. \A r \in Proc : /\ Len(s[r]) \in Nat /\ Len(g[r]) \in Nat
                          /\ IF r = q THEN Len(s2[r]) = Len(s[r]) + 1 ELSE s2[r] = s[r]
                          /\ n2[r] = n[r] + (IF program[p][i] = Send(r) THEN 1 ELSE 0)
      BY <1>1, <1>10, <1>11
    <3>3. c = IF Len(s[q]) + 1 = MaxSendWr THEN "throttle" ELSE "idle"
      BY <1>12
    <3> HIDE DEF i, s, g, n, s2, n2, c
    <3>4. QED  BY <2>1, <3>1, <3>2, <3>3 DEF Posting
  <2> HIDE DEF i, s, g, n, rt, src, f, l, s2, n2, c
  <2>4. RankOK(program, p, i + 1, c, s2, 0, n2, g, src, f, l)
    BY <2>1, <2>2, <2>3, RankPost
  <2>5. QED  BY <2>4 DEF i, s, g, n, rt, src, f, l, s2, n2, c
<1>14. Rank(p)'
  BY <1>7, <1>12, <1>13, Zenon DEF Rank
<1>15. ASSUME NEW r \in Proc, r # p PROVE Rank(r)'
  <2>1. Rank(r)
    BY <1>1 DEF Context, AppInv
  <2>2. QED  BY <1>7, <1>10, <1>11, <1>12, <1>15, <2>1, OtherRank
<1>16. Silence'
  <2>1. ASSUME OneWay(program, q), NoSends(sq[p][q]) PROVE NoSends(sq'[p][q])
    <3>1. kind # "send"
      <4>1. i \in 1 .. Len(L)
        <5>1. i \in 1 .. Len(L) + 1 /\ Len(L) \in Nat
          BY <1>1, <1>4 DEF RankOK
        <5>2. QED  BY <5>1
      <4>2. L[i] # Send(q)
        BY <2>1, <4>1 DEF OneWay
      <4>3. QED  BY <1>3, <4>2
    <3>2. wr.kind # "send"
      BY <3>1
    <3>3. sq[p][q] \in Seq(WR)
      BY <1>1
    <3> HIDE DEF wr
    <3>4. QED  BY <1>9, <1>10, <2>1, <3>2, <3>3 DEF NoSends
  <2>2. \A r, o \in Proc : OneWay(program, o) /\ NoSends(sq[r][o]) => NoSends(sq'[r][o])
    BY <1>10, <2>1, Zenon
  <2>3. QED  BY <1>1, <1>7, <2>2, SilenceKept
<1>17. QED
  BY <1>14, <1>15, <1>16 DEF AppInv, Context

\* A call that does not post: of p alone, or the barrier of all.
LEMMA AppEnter ==
  ASSUME Context, NEW p \in Proc, ip[p] <= Len(program[p]), ip \in [Proc -> Nat],
         faults' = faults, program' = program, ip'[p] = ip[p] + 1, pc[p] = "idle",
         \/ program[p][ip[p]] = Flush /\ pc'[p] = "flush" /\ source'[p] = source[p]
         \/ program[p][ip[p]] = Return /\ pc'[p] = "return" /\ source'[p] = source[p]
         \/ program[p][ip[p]] = Barrier /\ pc'[p] = "idle" /\ source'[p] = source[p]
         \/ program[p][ip[p]] = Receive(source'[p]) /\ source'[p] \in Proc /\ pc'[p] = "recv",
         UNCHANGED <<sq, ret, sent, got, vbuf_fetched, lost>>
  PROVE  Rank(p)'
<1>1. /\ program \in [Proc -> Seq(Operation)] /\ Rank(p)
      /\ \A r \in Proc : Len(sq[p][r]) \in Nat /\ Len(got[p][r]) \in Nat
  BY ContextFacts
<1> DEFINE i == ip[p]
           s == sq[p]
           n == sent[p]
           g == got[p]
           src == source[p]
           f == vbuf_fetched[p]
           l == lost[p]
           c == pc'[p]
           src2 == source'[p]
<1>2. RankOK(program, p, i, "idle", s, ret[p], n, g, src, f, l) /\ ret[p] = 0
  BY <1>1 DEF Rank, RankOK
<1>3. RankOK(program, p, i, "idle", s, 0, n, g, src, f, l)
  BY <1>2, Zenon
<1>4. i \in Nat /\ i <= Len(program[p])
  OBVIOUS
<1>5. \A r \in Proc : Len(s[r]) \in Nat /\ Len(g[r]) \in Nat
  BY <1>1
<1>6. \/ program[p][i] = Flush /\ c = "flush" /\ src2 = src
      \/ program[p][i] = Return /\ c = "return" /\ src2 = src
      \/ program[p][i] = Barrier /\ c = "idle" /\ src2 = src
      \/ program[p][i] = Receive(src2) /\ src2 \in Proc /\ c = "recv"
  OBVIOUS
<1> HIDE DEF i, s, n, g, src, f, l, c, src2
<1>7. RankOK(program, p, i + 1, c, s, 0, n, g, src2, f, l)
  BY <1>1, <1>3, <1>4, <1>5, <1>6, RankCall
<1>8. Rank(p)'
  BY <1>2, <1>7, Zenon DEF Rank, i, s, n, g, f, l, c, src2
<1>9. QED  BY <1>8

LEMMA SilenceSame ==
  ASSUME Silence, program' = program, rcq' = rcq, sq' = sq
  PROVE  Silence'
  BY Zenon DEF Silence

LEMMA AppCallKeeps ==
  ASSUME Context, Throttled(program), NEW p \in Proc, AppCall(p), ip \in [Proc -> Nat], faults' = faults
  PROVE  AppInv'
<1> DEFINE op == program[p][ip[p]]
<1>1. /\ program \in [Proc -> Seq(Operation)] /\ Len(program[p]) \in Nat /\ Silence /\ Rank(p)
      /\ pc \in [Proc -> Labels] /\ source \in [Proc -> Proc]
  BY ContextFacts DEF TypeOK
<1>2. /\ ip[p] <= Len(program[p]) /\ ip' = [ip EXCEPT ![p] = @ + 1] /\ program' = program
      /\ ip' \in [Proc -> Nat]
  BY DEF AppCall, Running
<1>3. op \in Operation
  <2>1. ip[p] \in 1 .. Len(program[p]) + 1
    BY <1>1 DEF Rank, RankOK
  <2>2. ip[p] \in 1 .. Len(program[p])
    BY <1>1, <1>2, <2>1
  <2>3. QED  BY <1>1, <2>2
<1>4. CASE op.call = "YMPI_Zsend" /\ YMPI_Zsend(p, op.peer)
  <2>1. PICK q \in Proc : op = Send(q) /\ op.peer = q
    BY <1>3, <1>4, OperationCases
  <2>2. post(p, q, "send")
    BY <1>4, <2>1 DEF YMPI_Zsend
  <2>3. QED  BY <1>2, <2>1, <2>2, AppPost
<1>5. CASE op.call = "YMPI_Write" /\ YMPI_Write(p, op.peer)
  <2>1. PICK q \in Proc : op = Write(q) /\ op.peer = q
    BY <1>3, <1>5, OperationCases
  <2>2. post(p, q, "write")
    BY <1>5, <2>1 DEF YMPI_Write
  <2>3. QED  BY <1>2, <2>1, <2>2, AppPost
<1>6. CASE \/ op.call = "YMPI_Zrecv" /\ YMPI_Zrecv(p, op.peer)
           \/ op.call = "YMPI_Zflush" /\ YMPI_Zflush(p)
           \/ op.call = "YMPI_Return" /\ YMPI_Return(p)
  <2>1. \/ \E q \in Proc : op = Receive(q) /\ YMPI_Zrecv(p, q)
        \/ op = Flush /\ YMPI_Zflush(p)
        \/ op = Return /\ YMPI_Return(p)
    BY <1>3, <1>6, OperationCases
  <2>2. /\ pc[p] = "idle"
        /\ UNCHANGED <<sq, done, ret, sent, got, vbuf_fetched, lost, rcq>>
    BY <2>1 DEF YMPI_Zrecv, YMPI_Zflush, YMPI_Return, Enter, At, rx_win, sendq, recvq, history
  <2>3. /\ \A o \in Proc : o # p => pc'[o] = pc[o] /\ source'[o] = source[o]
        /\ \/ op = Flush /\ pc'[p] = "flush" /\ source'[p] = source[p]
           \/ op = Return /\ pc'[p] = "return" /\ source'[p] = source[p]
           \/ op = Receive(source'[p]) /\ source'[p] \in Proc /\ pc'[p] = "recv"
    <3> HIDE DEF op
    <3>1. QED  BY <1>1, <2>1 DEF YMPI_Zrecv, YMPI_Zflush, YMPI_Return, Enter, Goto
  <2>4. ip'[p] = ip[p] + 1 /\ \A o \in Proc : o # p => ip'[o] = ip[o]
    BY <1>2
  <2>5. Rank(p)'
    BY <1>2, <2>2, <2>3, <2>4, AppEnter
  <2>6. ASSUME NEW r \in Proc, r # p PROVE Rank(r)'
    <3>1. Rank(r)
      BY ContextFacts
    <3>2. QED  BY <1>2, <2>2, <2>3, <2>4, <2>6, <3>1, OtherRank
  <2>7. Silence'
    BY <1>1, <1>2, <2>2, SilenceSame
  <2>8. QED  BY <1>2, <2>5, <2>6, <2>7 DEF AppInv, Context
<1>7. QED  BY <1>4, <1>5, <1>6 DEF AppCall, NextCall

LEMMA AppBarrierKeeps ==
  ASSUME Context, AppBarrier, ip \in [Proc -> Nat]
  PROVE  AppInv'
<1>1. /\ UNCHANGED <<vars, program>> /\ \A p \in Proc : ip'[p] = ip[p] + 1
      /\ \A p \in Proc : Running(p) /\ NextCall(p) = "MPI_Barrier" /\ At(p, "idle")
  BY DEF AppBarrier, AllAtBarrier
<1>2. UNCHANGED <<sq, ret, sent, got, vbuf_fetched, lost, faults, rcq, source, pc, program>>
  BY <1>1 DEF vars, context, rx_win, sendq, recvq, history
<1>3. ASSUME NEW p \in Proc PROVE Rank(p)'
  <2>1. /\ program \in [Proc -> Seq(Operation)] /\ Len(program[p]) \in Nat /\ Rank(p)
    BY <1>2, ContextFacts
  <2>2. ip[p] <= Len(program[p]) /\ pc[p] = "idle"
    BY <1>1 DEF Running, At
  <2>3. program[p][ip[p]] \in Operation
    <3>1. ip[p] \in 1 .. Len(program[p]) + 1
      BY <2>1 DEF Rank, RankOK
    <3>2. ip[p] \in 1 .. Len(program[p])
      BY <2>1, <2>2, <3>1
    <3>3. QED  BY <2>1, <3>2
  <2>4. program[p][ip[p]] = Barrier
    BY <1>1, <2>3, OperationCases DEF NextCall
  <2>5. QED  BY <1>1, <1>2, <2>2, <2>4, AppEnter
<1>4. Silence'
  <2>1. Silence
    BY <1>2 DEF Context, AppInv
  <2>2. QED  BY <1>2, <2>1, SilenceSame
<1>5. ip' \in [Proc -> Nat]
  BY DEF AppBarrier
<1>6. QED  BY <1>2, <1>3, <1>4, <1>5 DEF AppInv, Context

LEMMA EndOfWcLabel ==
  ASSUME NEW p \in Proc, EndOfWc(p), pc \in [Proc -> Labels]
  PROVE  /\ pc'[p] = pc[p] \/ (pc[p] = "throttle" /\ pc'[p] = "idle")
         /\ \A o \in Proc : o # p => pc'[o] = pc[o]
  BY DEF EndOfWc, At

LEMMA SentKeeps ==
  ASSUME Context, NEW p \in Proc, NEW q \in Proc, process_wc_sent(p, q), UNCHANGED <<program, ip>>
  PROVE  AppInv'
<1>1. /\ UNCHANGED <<ret, sent, source, lost, faults, got, vbuf_fetched, rcq>>
      /\ sq' = [sq EXCEPT ![p][q] = Tail(sq[p][q])] /\ done[p][q] > 0
  BY Zenon DEF process_wc_sent, rx_win, recvq, history
<1>2. /\ program \in [Proc -> Seq(Operation)] /\ Silence /\ Rank(p) /\ TypeOK
      /\ \A r \in Proc : sq[p][r] \in Seq(WR) /\ Len(sq[p][r]) \in Nat /\ Len(got[p][r]) \in Nat
  BY <1>1, ContextFacts
<1>3. sq \in PairOf(Seq(WR)) /\ pc \in [Proc -> Labels] /\ done[p][q] <= Len(sq[p][q]) /\ done[p][q] \in Nat
  BY <1>2, FlowTypes DEF TypeOK
<1>4. Len(sq[p][q]) > 0
  BY <1>1, <1>2, <1>3
<1>5. /\ \A r \in Proc : IF r = q THEN Len(sq'[p][r]) = Len(sq[p][r]) - 1 ELSE sq'[p][r] = sq[p][r]
      /\ \A o, r \in Proc : o # p \/ r # q => sq'[o][r] = sq[o][r]
      /\ \A o \in Proc : o # p => sq'[o] = sq[o]
      /\ sq'[p][q] = Tail(sq[p][q]) /\ Len(sq'[p][q]) = Len(sq[p][q]) - 1
  <2>1. sq[p][q] \in Seq(WR) /\ sq[p][q] # <<>>
    BY <1>2, <1>4
  <2>2. Len(Tail(sq[p][q])) = Len(sq[p][q]) - 1
    BY <2>1
  <2>3. QED  BY <1>1, <1>3, <2>2 DEF PairOf
<1>6. /\ pc'[p] = pc[p] \/ (pc[p] = "throttle" /\ pc'[p] = "idle")
      /\ \A o \in Proc : o # p => pc'[o] = pc[o]
  BY <1>3, EndOfWcLabel DEF process_wc_sent
<1>7. Rank(p)'
  <2> DEFINE s == sq[p]
             s2 == sq'[p]
             c == pc[p]
             c2 == pc'[p]
             g == got[p]
  <2>1. RankOK(program, p, ip[p], c, s, ret[p], sent[p], g, source[p], vbuf_fetched[p], lost[p])
    BY <1>2 DEF Rank
  <2>2. \A r \in Proc : Len(s[r]) \in Nat /\ (Len(s[r]) # 0 => s[r] # <<>>) /\ Len(g[r]) \in Nat
    BY <1>2
  <2>3. \A r \in Proc : IF r = q THEN Len(s2[r]) = Len(s[r]) - 1 ELSE s2[r] = s[r]
    BY <1>5
  <2>4. Len(s[q]) > 0 /\ (c2 = c \/ (c = "throttle" /\ c2 = "idle"))
    BY <1>4, <1>6
  <2> HIDE DEF s, s2, c, c2, g
  <2>5. Sending(q, s, s2, c, c2, g)
    BY <2>2, <2>3, <2>4 DEF Sending
  <2>6. RankOK(program, p, ip[p], c2, s2, ret[p], sent[p], g, source[p], vbuf_fetched[p], lost[p])
    BY <2>1, <2>5, RankSent
  <2>7. QED  BY <1>1, <2>6, Zenon DEF Rank, s2, c2, g
<1>8. ASSUME NEW r \in Proc, r # p PROVE Rank(r)'
  <2>1. Rank(r)
    BY <1>1, ContextFacts
  <2>2. QED  BY <1>1, <1>5, <1>6, <1>8, <2>1, OtherRank
<1>9. Silence'
  <2>1. ASSUME NoSends(sq[p][q]) PROVE NoSends(sq'[p][q])
    <3>1. sq[p][q] \in Seq(WR) /\ sq[p][q] # <<>>
      BY <1>2, <1>4
    <3>2. \A j \in 1 .. Len(sq'[p][q]) : sq'[p][q][j] = sq[p][q][j + 1] /\ j + 1 \in 1 .. Len(sq[p][q])
      BY <1>5, <3>1
    <3>3. QED  BY <2>1, <3>2 DEF NoSends
  <2>2. \A r, o \in Proc : NoSends(sq[r][o]) => NoSends(sq'[r][o])
    BY <1>5, <2>1, Zenon
  <2>3. QED  BY <1>1, <1>2, <2>2, SilenceKept
<1>10. QED  BY <1>1, <1>7, <1>8, <1>9 DEF AppInv, Context

\* A step that changes the queues of vbufs, and the label, of p.
LEMMA LabelKeeps ==
  ASSUME Context, NEW p \in Proc,
         UNCHANGED <<program, ip, sq, ret, sent, got, source, lost, faults>>,
         \A o \in Proc : o # p => pc'[o] = pc[o] /\ vbuf_fetched'[o] = vbuf_fetched[o],
         \/ pc'[p] = pc[p] /\ vbuf_fetched'[p] = vbuf_fetched[p]
         \/ pc[p] = "throttle" /\ pc'[p] = "idle" /\ ~ OneWay(program, p) /\ vbuf_fetched'[p] = vbuf_fetched[p]
         \/ pc[p] = "return" /\ pc'[p] = "return"
         \/ pc[p] = "return" /\ pc'[p] = "idle" /\ vbuf_fetched'[p] = <<>>,
         Silence'
  PROVE  AppInv'
<1>1. Rank(p)'
  <2> DEFINE c == pc[p]
             c2 == pc'[p]
             f == vbuf_fetched[p]
             f2 == vbuf_fetched'[p]
  <2>1. RankOK(program, p, ip[p], c, sq[p], ret[p], sent[p], got[p], source[p], f, lost[p])
    BY ContextFacts DEF Rank
  <2>2. \/ c2 = c /\ f2 = f
        \/ c = "throttle" /\ c2 = "idle" /\ ~ OneWay(program, p) /\ f2 = f
        \/ c = "return" /\ c2 = "return"
        \/ c = "return" /\ c2 = "idle" /\ f2 = <<>>
    OBVIOUS
  <2> HIDE DEF c, c2, f, f2
  <2>3. RankOK(program, p, ip[p], c2, sq[p], ret[p], sent[p], got[p], source[p], f2, lost[p])
    BY <2>1, <2>2, RankGoto
  <2>4. QED  BY <2>3, Zenon DEF Rank, c2, f2
<1>2. ASSUME NEW r \in Proc, r # p PROVE Rank(r)'
  <2>1. Rank(r)
    BY ContextFacts
  <2>2. QED  BY <1>2, <2>1, OtherRank
<1>3. QED  BY <1>1, <1>2 DEF AppInv, Context

LEMMA RecvKeeps ==
  ASSUME Context, NEW p \in Proc, NEW q \in Proc, process_wc_recv(p, q), UNCHANGED <<program, ip>>
  PROVE  AppInv'
<1>1. /\ UNCHANGED <<sq, ret, sent, source, lost, faults, got, vbuf_fetched>>
      /\ rcq' = [rcq EXCEPT ![p][q] = Tail(rcq[p][q])] /\ rcq[p][q] # <<>>
      /\ EndOfWc(p) \/ Goto(p, "exit")
  BY Zenon DEF process_wc_recv, sendq, history
<1>2. Silence /\ TypeOK /\ pc'[p] # "exit" /\ pc \in [Proc -> Labels] /\ rcq \in PairOf(Seq(Recv))
  BY <1>1, ContextFacts DEF TypeOK
<1>3. ~ OneWay(program, p)
  BY <1>1, <1>2 DEF Silence
<1>4. ~ Goto(p, "exit")
  BY <1>2 DEF Goto
<1>5. /\ pc'[p] = pc[p] \/ (pc[p] = "throttle" /\ pc'[p] = "idle")
      /\ \A o \in Proc : o # p => pc'[o] = pc[o]
  BY <1>1, <1>2, <1>4, EndOfWcLabel
<1>6. Silence'
  <2>1. \A o, r \in Proc : o # p => rcq'[o][r] = rcq[o][r]
    BY <1>1, <1>2 DEF PairOf
  <2>2. QED  BY <1>1, <1>2, <1>3, <2>1 DEF Silence
<1>7. QED  BY <1>1, <1>3, <1>5, <1>6, LabelKeeps

LEMMA ReturnKeeps ==
  ASSUME Context, NEW p \in Proc, Return_post(p) \/ Return_return(p), UNCHANGED <<program, ip>>, faults' = faults
  PROVE  AppInv'
<1>1. pc \in [Proc -> Labels] /\ vbuf_fetched \in [Proc -> Seq(Vbuf)] /\ faults \in Nat /\ Silence
  BY ContextFacts DEF TypeOK
<1>2. UNCHANGED <<sq, ret, sent, source, got, rcq>>
  BY Zenon DEF Return_post, Return_return, sendq, history, rx_win, recvq
<1>3. Silence'
  BY <1>1, <1>2, SilenceSame
<1>4. CASE Return_post(p)
  <2>1. pc[p] = "return" /\ pc' = pc /\ lost' = lost
    BY <1>1, <1>4 DEF Return_post, At
  <2>2. \A o \in Proc : o # p => vbuf_fetched'[o] = vbuf_fetched[o]
    BY <1>1, <1>4 DEF Return_post
  <2>3. QED  BY <1>2, <1>3, <2>1, <2>2, LabelKeeps
<1>5. CASE Return_return(p)
  <2>1. pc[p] = "return" /\ vbuf_fetched' = vbuf_fetched /\ vbuf_fetched[p] = <<>> /\ lost' = lost
        /\ pc' = [pc EXCEPT ![p] = "idle"]
    BY <1>5 DEF Return_return, At, Goto, rx_win, history
  <2>2. pc'[p] = "idle" /\ \A o \in Proc : o # p => pc'[o] = pc[o]
    BY <1>1, <2>1
  <2>3. QED  BY <1>2, <1>3, <2>1, <2>2, LabelKeeps
<1>6. QED  BY <1>4, <1>5

LEMMA FlushKeeps ==
  ASSUME Context, NEW p \in Proc, Zflush_return(p), UNCHANGED <<program, ip>>
  PROVE  AppInv'
<1>1. /\ UNCHANGED <<sq, ret, sent, source, lost, faults, got, vbuf_fetched, rcq>>
      /\ pc[p] = "flush" /\ pc' = [pc EXCEPT ![p] = "idle"]
  BY Zenon DEF Zflush_return, Goto, At, sendq, history, rx_win, recvq
<1>2. Silence /\ TypeOK /\ pc \in [Proc -> Labels] /\ Rank(p)
  BY <1>1, ContextFacts DEF TypeOK
<1>3. \A q \in Proc : Len(sq[p][q]) = 0
  <2>1. \A q \in Proc : sq'[p][q] = <<>>
    BY FlushEmpties DEF Context, CoreInv
  <2>2. QED  BY <1>1, <2>1
<1>4. Rank(p)'
  <2>1. RankOK(program, p, ip[p], "flush", sq[p], ret[p], sent[p], got[p], source[p], vbuf_fetched[p], lost[p])
    BY <1>1, <1>2 DEF Rank
  <2> DEFINE s == sq[p]
  <2>2. \A q \in Proc : Len(s[q]) = 0
    BY <1>3
  <2> HIDE DEF s
  <2>3. RankOK(program, p, ip[p], "idle", s, ret[p], sent[p], got[p], source[p], vbuf_fetched[p], lost[p])
    BY <2>1, <2>2, RankFlushed DEF s
  <2>4. pc'[p] = "idle"
    BY <1>1, <1>2
  <2>5. QED  BY <1>1, <2>3, <2>4, Zenon DEF Rank, s
<1>5. ASSUME NEW r \in Proc, r # p PROVE Rank(r)'
  <2>1. Rank(r) /\ pc'[r] = pc[r]
    BY <1>1, <1>2, <1>5, ContextFacts
  <2>2. QED  BY <1>1, <1>5, <2>1, OtherRank
<1>6. Silence'
  BY <1>1, <1>2, SilenceSame
<1>7. QED  BY <1>1, <1>4, <1>5, <1>6 DEF AppInv, Context

LEMMA ZrecvKeeps ==
  ASSUME Context, NEW p \in Proc, Zrecv_return(p), UNCHANGED <<program, ip>>
  PROVE  AppInv'
<1> DEFINE q == source[p]
           v == Head(pending_recv_queue[p][q])
           m == [data |-> data[p][v], len |-> buf_bytes[p][v]]
<1>0. UNCHANGED <<sq, ret, sent, source, lost, faults, rcq>> /\ pc[p] = "recv"
  BY Zenon DEF Zrecv_return, At, sendq, recvq
<1>1. /\ Silence /\ TypeOK /\ pc \in [Proc -> Labels] /\ Rank(p) /\ pc'[p] # "exit" /\ q \in Proc
      /\ got \in PairOf(Seq(Got)) /\ vbuf_fetched \in [Proc -> Seq(Vbuf)]
      /\ \A r \in Proc : got[p][r] \in Seq(Got) /\ Len(got[p][r]) \in Nat
  BY <1>0, ContextFacts DEF TypeOK, Got
<1>2. /\ vbuf_fetched' = [vbuf_fetched EXCEPT ![p] = Append(vbuf_fetched[p], v)]
      /\ got' = [got EXCEPT ![p][q] = Append(got[p][q], m)]
      /\ pc' = [pc EXCEPT ![p] = "idle"]
  <2>1. ~ Goto(p, "exit")
    BY <1>1 DEF Goto
  <2>2. QED  BY <2>1, Zenon DEF Zrecv_return, Goto
<1>3. /\ \A r \in Proc : IF r = q THEN Len(got'[p][r]) = Len(got[p][r]) + 1 ELSE got'[p][r] = got[p][r]
      /\ \A o \in Proc : o # p => got'[o] = got[o] /\ vbuf_fetched'[o] = vbuf_fetched[o] /\ pc'[o] = pc[o]
      /\ pc'[p] = "idle"
  <2>1. got[p][q] \in Seq(Got)
    BY <1>1
  <2> HIDE DEF q, v, m
  <2>2. Len(Append(got[p][q], m)) = Len(got[p][q]) + 1
    BY <2>1
  <2>3. QED  BY <1>1, <1>2, <2>2 DEF PairOf
<1>4. Rank(p)'
  <2> DEFINE g == got[p]
             g2 == got'[p]
             f2 == vbuf_fetched'[p]
             src == source[p]
  <2>1. RankOK(program, p, ip[p], "recv", sq[p], ret[p], sent[p], g, src, vbuf_fetched[p], lost[p])
    BY <1>0, <1>1 DEF Rank
  <2>2. src \in Proc /\ \A r \in Proc : Len(g[r]) \in Nat
    BY <1>1
  <2>3. \A r \in Proc : IF r = src THEN Len(g2[r]) = Len(g[r]) + 1 ELSE g2[r] = g[r]
    BY <1>3
  <2> HIDE DEF g, g2, f2, src
  <2>4. RankOK(program, p, ip[p], "idle", sq[p], ret[p], sent[p], g2, src, f2, lost[p])
    BY <2>1, <2>2, <2>3, RankReceived
  <2>5. QED  BY <1>0, <1>3, <2>4, Zenon DEF Rank, g2, f2, src
<1>5. ASSUME NEW r \in Proc, r # p PROVE Rank(r)'
  <2>1. Rank(r)
    BY <1>0, ContextFacts
  <2>2. QED  BY <1>0, <1>3, <1>5, <2>1, OtherRank
<1>6. Silence'
  BY <1>0, <1>1, SilenceSame
<1>7. QED  BY <1>0, <1>4, <1>5, <1>6 DEF AppInv, Context

LEMMA HcaKeeps ==
  ASSUME Context, NEW p \in Proc, NEW q \in Proc, hca_deliver(p, q), UNCHANGED <<program, ip>>
  PROVE  AppInv'
<1> DEFINE wr == sq[p][q][done[p][q] + 1]
<1>1. /\ UNCHANGED <<sq, ret, sent, got, source, lost, faults, pc, vbuf_fetched>>
      /\ done[p][q] < Len(sq[p][q])
      /\ IF wr.kind = "send"
           THEN \E c : rcq' = [rcq EXCEPT ![q][p] = Append(rcq[q][p], c)]
           ELSE rcq' = rcq
  BY Zenon DEF hca_deliver, context, history
<1>2. Silence /\ TypeOK /\ rcq \in PairOf(Seq(Recv)) /\ done[p][q] \in Nat /\ Len(sq[p][q]) \in Nat
  BY <1>1, ContextFacts, FlowTypes DEF TypeOK
<1>3. Silence'
  <2>1. CASE wr.kind # "send"
    BY <1>1, <1>2, <2>1, SilenceSame
  <2>2. CASE wr.kind = "send"
    <3>1. ~ NoSends(sq[p][q])
      <4>1. done[p][q] + 1 \in 1 .. Len(sq[p][q])
        BY <1>1, <1>2
      <4>2. QED  BY <2>2, <4>1 DEF NoSends
    <3>2. \A o, r \in Proc : o # q \/ r # p => rcq'[o][r] = rcq[o][r]
      BY <1>1, <1>2, <2>2 DEF PairOf
    <3>3. \A o, r \in Proc : NoSends(sq[r][o]) => rcq'[o][r] = rcq[o][r]
      BY <3>1, <3>2, Zenon
    <3>4. QED  BY <1>1, <1>2, <3>3, SilenceKept
  <2>3. QED  BY <2>1, <2>2
<1>4. QED  BY <1>1, <1>3, LabelKeeps

LEMMA FaultsGrow ==
  ASSUME Next
  PROVE  faults' = faults \/ faults' = faults + 1
<1>1. ASSUME NEW p \in Proc, NEW q \in Proc, NEW kind \in {"send", "write", "read"}, post(p, q, kind)
      PROVE  faults' = faults \/ faults' = faults + 1
  BY <1>1 DEF post, post_rejected, post_accepted
<1>2. ASSUME NEW p \in Proc, NEW q \in Proc,
             \/ YMPI_Zrecv(p, q) \/ process_wc_sent(p, q) \/ process_wc_recv(p, q)
             \/ process_wc_failed(p, q) \/ hca_deliver(p, q)
      PROVE  faults' = faults \/ faults' = faults + 1
  BY <1>2, Zenon DEF YMPI_Zrecv, Enter, process_wc_sent, process_wc_recv, process_wc_failed, hca_deliver,
                     history
<1>3. ASSUME NEW p \in Proc,
             \/ YMPI_Zflush(p) \/ YMPI_Return(p) \/ poll_failed(p) \/ Zflush_return(p)
             \/ Return_post(p) \/ Return_return(p) \/ Zrecv_return(p)
      PROVE  faults' = faults \/ faults' = faults + 1
  BY <1>3, Zenon DEF YMPI_Zflush, YMPI_Return, Enter, poll_failed, Zflush_return, Return_post,
                     Return_return, Zrecv_return, history
<1>4. QED
  BY <1>1, <1>2, <1>3
     DEF Next, Call, Step, Hca, YMPI_Zsend, YMPI_Write, YMPI_Read

LEMMA AppStepKeeps ==
  ASSUME Context, NEW p \in Proc, AppStep(p), faults' = faults
  PROVE  AppInv'
<1>1. UNCHANGED <<program, ip>> /\ Step(p)
  BY DEF AppStep
<1>2. faults \in Int /\ \A q \in Proc : pc[q] # "exit"
  <2>1. faults \in Nat
    <3>1. faults \in 0 .. MaxFaults
      BY DEF Context, CoreInv, TypeOK
    <3>2. QED  BY <3>1, BoundAssumption
  <2>2. QED  BY <2>1, ContextFacts
<1>3. ASSUME NEW q \in Proc, process_wc_failed(p, q) PROVE FALSE
  BY <1>2, <1>3 DEF process_wc_failed, At
<1>4. ~ poll_failed(p)
  BY <1>2 DEF poll_failed
<1>5. QED
  BY <1>1, <1>3, <1>4, SentKeeps, RecvKeeps, FlushKeeps, ZrecvKeeps, ReturnKeeps DEF Step

LEMMA AppInvStep ==
  ASSUME Typed, \A prog \in Programs : Throttled(prog), AppInv, CoreInv, CoreInv', [AppNext]_appvars
  PROVE  AppInv'
<1>1. CASE UNCHANGED appvars
  <2>1. UNCHANGED <<program, ip, faults, pc, sq, rcq, ret, sent, got, source, vbuf_fetched, lost>>
    BY <1>1 DEF appvars, vars, context, rx_win, sendq, recvq, history
  <2>2. \A p \in Proc : Rank(p) => Rank(p)'
    BY <2>1, OtherRank
  <2>3. Silence => Silence'
    BY <2>1, SilenceSame
  <2>4. QED  BY <2>1, <2>2, <2>3 DEF AppInv
<1>2. CASE AppNext
  <2>1. program' = program /\ ip' \in [Proc -> Nat] /\ ip \in [Proc -> Nat]
    <3>1. program' = program
      BY <1>2 DEF AppNext, AppCall, AppStep, AppHca, AppBarrier
    <3>2. \/ ip' = ip
          \/ \E p \in Proc : ip' = [ip EXCEPT ![p] = @ + 1]
          \/ ip' = [p \in Proc |-> ip[p] + 1]
      BY <1>2, Zenon DEF AppNext, AppCall, AppStep, AppHca, AppBarrier
    <3>3. ip \in [Proc -> Nat]
      BY DEF AppInv
    <3>4. QED  BY <3>1, <3>2, <3>3
  <2>2. CASE faults' # 0
    BY <2>1, <2>2 DEF AppInv
  <2>3. CASE faults' = 0
    <3>1. Context
      BY <2>3 DEF Context
    <3>2. Throttled(program)
      BY DEF AppInv
    <3>3. faults' = faults
      <4>1. faults \in Nat
        <5>1. faults \in 0 .. MaxFaults
          BY DEF CoreInv, TypeOK
        <5>2. QED  BY <5>1, BoundAssumption
      <4>2. CASE AppBarrier
        BY <4>2 DEF AppBarrier, vars, history
      <4>3. CASE ~ AppBarrier
        <5>1. Next
          BY <1>2, <4>3, AppCallIsCall DEF AppNext, AppStep, AppHca, Next
        <5>2. QED  BY <2>3, <4>1, <5>1, FaultsGrow
      <4>4. QED  BY <4>2, <4>3
    <3>4. CASE AppBarrier
      BY <2>1, <3>1, <3>4, AppBarrierKeeps
    <3>5. ASSUME NEW p \in Proc, AppCall(p) PROVE AppInv'
      BY <2>1, <3>1, <3>2, <3>3, <3>5, AppCallKeeps
    <3>6. ASSUME NEW p \in Proc, AppStep(p) PROVE AppInv'
      BY <3>1, <3>3, <3>6, AppStepKeeps
    <3>7. ASSUME NEW p \in Proc, AppHca(p) PROVE AppInv'
      BY <3>1, <3>7, HcaKeeps DEF AppHca, Hca
    <3>8. QED  BY <1>2, <3>4, <3>5, <3>6, <3>7 DEF AppNext
  <2>4. QED  BY <2>2, <2>3
<1>3. QED  BY <1>1, <1>2

LEMMA CoreHolds == AppSafety => []CoreInv
<1>1. AppSafety => Spec
  <2>1. AppInit => Init
    BY DEF AppInit
  <2>2. [AppNext]_appvars => [Next]_vars
    BY AppNextIsNext
  <2>3. QED  BY <2>1, <2>2, PTL DEF AppSafety, Spec
<1>2. CoreInv <=> TypeOK /\ CountersInv /\ BuffersInv /\ FlowInv /\ ExitsOnlyOnFault
  BY DEF CoreInv
<1>3. QED
  BY <1>1, <1>2, TypeCorrect, CountersInvariant, BuffersInvariant, FlowInvariant, ExitsCorrect, PTL

LEMMA AppInvariant ==
  ASSUME Typed, \A prog \in Programs : Throttled(prog)
  PROVE  AppSafety => [](AppInv /\ CoreInv)
<1>1. AppInit => AppInv
  BY AppStart
<1>2. AppInv /\ CoreInv /\ CoreInv' /\ [AppNext]_appvars => AppInv'
  BY AppInvStep
<1>3. QED  BY <1>1, <1>2, CoreHolds, PTL DEF AppSafety

(***************************************************************************)
(* As long as no verbs call fails, no post returns -1 in a program whose   *)
(* ranks either post no more between two flushes than a send queue holds,  *)
(* or post to one rank and are sent nothing (Throttled): there the         *)
(* throttle, which leaves after one batch of completions whosesoever they  *)
(* are (lines 869-878), is enough.  Programs of the repository are of      *)
(* either kind.                                                            *)
(***************************************************************************)
THEOREM PostsSucceedCorrect ==
  ASSUME Programs \subseteq [Proc -> Seq(Operation)], \A prog \in Programs : Throttled(prog)
  PROVE  AppSafety => [](faults = 0 => PostsSucceed)
<1>1. Typed
  BY DEF Typed
<1>2. AppInv => (faults = 0 => PostsSucceed)
  BY DEF AppInv, Rank, RankOK, PostsSucceed
<1>3. QED  BY <1>1, <1>2, AppInvariant, PTL

LEMMA SequenceIsFunction ==
  ASSUME NEW S, NEW s \in Seq(S)
  PROVE  s = [i \in 1 .. Len(s) |-> s[i]]
  OBVIOUS

\* Nothing of what p sent to q is left on its way.
LEMMA NothingLeft ==
  ASSUME TypeOK, FlowInv, NEW p \in Proc, NEW q \in Proc, Len(got[q][p]) = sent[p][q]
  PROVE  /\ pending_recv_queue[q][p] = <<>> /\ rcq[q][p] = <<>>
         /\ got[q][p] = [i \in 1 .. sent[p][q] |-> Channel!Message(p, i)]
<1> DEFINE n == Len(got[q][p]) + Len(pending_recv_queue[q][p]) + Len(rcq[q][p])
<1>1. /\ got[q][p] \in Seq(Got) /\ pending_recv_queue[q][p] \in Seq(Vbuf) /\ rcq[q][p] \in Seq(Recv)
      /\ sq[p][q] \in Seq(WR) /\ done[p][q] \in Nat /\ sent[p][q] \in Nat
  BY FlowTypes
<1>2. FlowOK(p, got[q][p], pending_recv_queue[q][p], rcq[q][p], data[q], buf_bytes[q],
             sq[p][q], done[p][q], sent[p][q])
  BY DEF FlowInv, Flow
<1>3. n \in Nat /\ SendsOK(sq[p][q], done[p][q], n, sent[p][q])
  BY <1>1, <1>2, FlowSends
<1>4. n <= sent[p][q]
  <2> HIDE DEF n
  <2>1. Cardinality({i \in done[p][q] + 1 .. Len(sq[p][q]) : sq[p][q][i].kind = "send"}) = sent[p][q] - n
    BY <1>1, <1>3, SendsCount
  <2>2. IsFiniteSet({i \in done[p][q] + 1 .. Len(sq[p][q]) : sq[p][q][i].kind = "send"})
    <3>1. Len(sq[p][q]) \in Nat
      BY <1>1
    <3>2. done[p][q] + 1 \in Int /\ Len(sq[p][q]) \in Int
      BY <1>1, <3>1
    <3>3. IsFiniteSet(done[p][q] + 1 .. Len(sq[p][q]))
      BY <3>2, FS_Interval
    <3>4. QED  BY <3>3, FS_Subset
  <2>3. sent[p][q] - n \in Nat
    BY <2>1, <2>2, FS_CardinalityType
  <2>4. QED  BY <1>1, <1>3, <2>3
<1>5. Len(pending_recv_queue[q][p]) = 0 /\ Len(rcq[q][p]) = 0
  <2>1. Len(pending_recv_queue[q][p]) \in Nat /\ Len(rcq[q][p]) \in Nat /\ Len(got[q][p]) \in Nat
    BY <1>1
  <2> DEFINE a == Len(got[q][p])
             b == Len(pending_recv_queue[q][p])
             c == Len(rcq[q][p])
  <2>2. a \in Nat /\ b \in Nat /\ c \in Nat /\ a + b + c <= a
    BY <1>4, <2>1
  <2> HIDE DEF a, b, c
  <2>3. b = 0 /\ c = 0
    BY <2>2
  <2>4. QED  BY <2>3 DEF b, c
<1>6. ReturnedOK(p, got[q][p])
  BY <1>2 DEF FlowOK
<1>7. got[q][p] = [i \in 1 .. Len(got[q][p]) |-> got[q][p][i]]
  <2>1. got[q][p] \in Seq(Got)
    BY <1>1
  <2>2. QED  BY <2>1, SequenceIsFunction
<1>8. QED  BY <1>1, <1>5, <1>6, <1>7 DEF ReturnedOK

\* All vbufs of a rank that is owed nothing and holds nothing are in its SRQ.
LEMMA AllPosted ==
  ASSUME TypeOK, BuffersInv, NEW p \in Proc, vbuf_fetched[p] = <<>>, lost[p] = {},
         \A q \in Proc : pending_recv_queue[p][q] = <<>> /\ rcq[p][q] = <<>>
  PROVE  srq[p] = Vbuf
<1>1. srq[p] \subseteq Vbuf
  BY DEF TypeOK
<1>2. ASSUME NEW v \in Vbuf PROVE v \in srq[p]
  <2>1. PICK h \in Place : v \in Held(p)[h]
    BY DEF BuffersInv, Partitions
  <2>2. PICK where \in {"pending", "cq", "fetched", "srq", "lost"}, q \in Proc : h = <<where, q>>
    BY DEF Place
  <2>3. Elems(<<>>) = {} /\ Elems(Ids(<<>>)) = {}
    BY DEF Elems, Ids
  <2>4. /\ Held(p)[<<"pending", q>>] = {} /\ Held(p)[<<"cq", q>>] = {}
        /\ Held(p)[<<"fetched", q>>] = {} /\ Held(p)[<<"lost", q>>] = {}
        /\ Held(p)[<<"srq", q>>] \subseteq srq[p]
    BY <2>3, HeldAt
  <2>5. QED  BY <2>1, <2>2, <2>4
<1>3. QED  BY <1>1, <1>2

LEMMA AllReceivedAtEnd ==
  ASSUME Typed, \A prog \in Programs : Matched(prog), AppInv, CoreInv, faults = 0
  PROVE  AllReceived
<1> SUFFICES ASSUME Finished PROVE \A p, q \in Proc :
                /\ got[q][p] = [i \in 1 .. sent[p][q] |-> Channel!Message(p, i)]
                /\ srq[p] = Vbuf
  BY DEF AllReceived
<1>1. program \in [Proc -> Seq(Operation)] /\ Matched(program) /\ TypeOK /\ BuffersInv /\ FlowInv
  BY DEF AppInv, CoreInv, Typed
<1>2. ASSUME NEW p \in Proc
      PROVE  /\ pc[p] = "idle" /\ ip[p] = Len(program[p]) + 1
             /\ lost[p] = {} /\ vbuf_fetched[p] = <<>>
             /\ \A q \in Proc : /\ sent[p][q] = Made(program[p], Len(program[p]) + 1, Send(q))
                                /\ Len(got[p][q]) = Made(program[p], Len(program[p]) + 1, Receive(q))
  <2>1. Rank(p) /\ pc[p] = "idle" /\ ~ (ip[p] <= Len(program[p]))
    BY DEF AppInv, Finished, Running, At
  <2>2. Len(program[p]) \in Nat
    BY <1>1
  <2>3. ip[p] = Len(program[p]) + 1
    BY <2>1, <2>2 DEF Rank, RankOK
  <2>4. Unreturned(program[p], ip[p]) = {}
    BY <1>1, <2>3 DEF Matched
  <2>5. lost[p] = {} /\ vbuf_fetched[p] = <<>>
    BY <2>1, <2>4 DEF Rank, RankOK
  <2>6. ASSUME NEW q \in Proc
        PROVE  /\ sent[p][q] = Made(program[p], ip[p], Send(q))
               /\ Len(got[p][q]) = Made(program[p], ip[p], Receive(q))
    <3>1. /\ sent[p][q] = Made(program[p], ip[p], Send(q))
          /\ Len(got[p][q]) + Asked("idle", source[p], q) = Made(program[p], ip[p], Receive(q))
      BY <2>1 DEF Rank, RankOK
    <3>2. Asked("idle", source[p], q) = 0
      BY DEF Asked
    <3>3. Len(got[p][q]) \in Nat
      <4>1. got[p][q] \in Seq(Got)
        BY <1>1, FlowTypes
      <4>2. QED  BY <4>1
    <3>4. QED  BY <3>1, <3>2, <3>3
  <2>7. QED  BY <2>1, <2>3, <2>5, <2>6
<1>3. ASSUME NEW p \in Proc, NEW q \in Proc PROVE Len(got[q][p]) = sent[p][q]
  BY <1>1, <1>2 DEF Matched
<1>4. \A p, q \in Proc : /\ pending_recv_queue[q][p] = <<>> /\ rcq[q][p] = <<>>
                         /\ got[q][p] = [i \in 1 .. sent[p][q] |-> Channel!Message(p, i)]
  BY <1>1, <1>3, NothingLeft
<1>5. \A p \in Proc : srq[p] = Vbuf
  BY <1>1, <1>2, <1>4, AllPosted
<1>6. QED  BY <1>4, <1>5

(***************************************************************************)
(* A program in which each send is matched by a receive and each message   *)
(* is given back (Matched), and whose posts succeed (Throttled), ends with *)
(* every message returned once, in order and in full, and every vbuf back  *)
(* in the SRQ, if nothing failed: what test_ympi.c asserts (lines 62-63)   *)
(* of one order of events holds of all.                                    *)
(***************************************************************************)
THEOREM AllReceivedCorrect ==
  ASSUME Programs \subseteq [Proc -> Seq(Operation)],
         \A prog \in Programs : Throttled(prog) /\ Matched(prog)
  PROVE  AppSafety => [](faults = 0 => AllReceived)
<1>1. Typed
  BY DEF Typed
<1>2. (\A prog \in Programs : Throttled(prog)) /\ (\A prog \in Programs : Matched(prog))
  OBVIOUS
<1>3. AppInv /\ CoreInv => (faults = 0 => AllReceived)
  BY <1>1, <1>2, AllReceivedAtEnd
<1>4. AppSafety => [](AppInv /\ CoreInv)
  BY <1>1, <1>2, AppInvariant
<1>5. QED  BY <1>3, <1>4, PTL

--------------------------------------------------------------------------------
(* Why the ranks of a program that keeps going never all wait: a rank in a call has one *)
(* of its list behind it, it holds no more vbufs than it did not return, and the ranks  *)
(* passed the same barriers (WaitInv).  What a batch holds besides the completion that  *)
(* is handled is still in the CQ (BatchInv), so that a rank that waits is at the        *)
(* condition of its loop.                                                               *)

BatchOK(p) == batch[p] > 0 => Completions(p) # {}

BatchInv == \A p \in Proc : BatchOK(p)

\* Rank p runs the list s and is before the i-th call, or in the one before: its label c,
\* the source src it receives from, and the vbufs f it fetched.
InCallOK(s, i, c, src, f) ==
  /\ c # "idle" => i > 1
  /\ c = "recv" => s[i - 1] = Receive(src)
  /\ c = "flush" => s[i - 1] = Flush
  /\ c = "throttle" => \E q \in Proc : Posts(s[i - 1], q)
  /\ c # "return" => Len(f) + (IF c = "recv" THEN 1 ELSE 0) <= Cardinality(Unreturned(s, i))

InCall(p) == InCallOK(program[p], ip[p], pc[p], source[p], vbuf_fetched[p])

SameBarriers ==
  \A p, q \in Proc : Made(program[p], ip[p], Barrier) = Made(program[q], ip[q], Barrier)

WaitInv == faults = 0 => SameBarriers /\ \A p \in Proc : InCall(p)

LEMMA AnotherOne ==
  ASSUME NEW S, NEW x, Cardinality(S) > 1
  PROVE  \E y \in S : y # x
<1>1. S # {}
  BY FS_EmptySet
<1>2. S # {x}
  BY FS_Singleton
<1>3. QED  BY <1>1, <1>2

LEMMA CompletionsAt ==
  ASSUME TypeOK, NEW p \in Proc
  PROVE  Completions(p) # {} <=> \E q \in Proc : done[p][q] > 0 \/ rcq[p][q] # <<>>
<1>1. \A q \in Proc : done[p][q] \in Nat /\ rcq[p][q] \in Seq(Recv)
  BY FlowTypes
<1>2. ASSUME NEW c \in Completions(p) PROVE \E q \in Proc : done[p][q] > 0 \/ rcq[p][q] # <<>>
  <2>1. \E q \in Proc : (\E i \in 1 .. done[p][q] : TRUE) \/ (\E i \in 1 .. Len(rcq[p][q]) : TRUE)
    BY <1>2 DEF Completions
  <2>2. QED  BY <1>1, <2>1
<1>3. ASSUME NEW q \in Proc, done[p][q] > 0 PROVE Completions(p) # {}
  <2>1. 1 \in 1 .. done[p][q]
    BY <1>1, <1>3
  <2>2. <<"sent", q, 1>> \in Completions(p)
    BY <2>1 DEF Completions
  <2>3. QED  BY <2>2
<1>4. ASSUME NEW q \in Proc, rcq[p][q] # <<>> PROVE Completions(p) # {}
  <2>1. 1 \in 1 .. Len(rcq[p][q])
    <3>1. rcq[p][q] \in Seq(Recv)
      BY <1>1
    <3>2. QED  BY <1>4, <3>1
  <2>2. <<"received", q, 1>> \in Completions(p)
    BY <2>1 DEF Completions
  <2>3. QED  BY <2>2
<1>5. QED  BY <1>2, <1>3, <1>4

\* Completions come and nothing is polled.
LEMMA BatchSame ==
  ASSUME TypeOK, TypeOK', NEW p \in Proc, BatchOK(p), batch'[p] = batch[p],
         \A q \in Proc : /\ done[p][q] > 0 => done'[p][q] > 0
                         /\ rcq[p][q] # <<>> => rcq'[p][q] # <<>>
  PROVE  BatchOK(p)'
<1>1. Completions(p) # {} => Completions(p)' # {}
  <2>1. Completions(p) # {} <=> \E q \in Proc : done[p][q] > 0 \/ rcq[p][q] # <<>>
    BY CompletionsAt
  <2>2. (Completions(p) # {} <=> \E q \in Proc : done[p][q] > 0 \/ rcq[p][q] # <<>>)'
    BY CompletionsAt, PTL
  <2>3. QED  BY <2>1, <2>2
<1>2. QED  BY <1>1 DEF BatchOK

\* A completion c is handled; the batch goes on only if it held another.
LEMMA BatchHandled ==
  ASSUME NEW p \in Proc, NEW c, Completions(p) \ {c} \subseteq Completions(p)', EndOfWc(p),
         batch \in [Proc -> 0 .. PollBatch - 1]
  PROVE  BatchOK(p)'
<1>1. CASE Cardinality(Completions(p)) > 1
  <2>1. \E d \in Completions(p) : d # c
    BY <1>1, AnotherOne
  <2>2. QED  BY <2>1 DEF BatchOK
<1>2. CASE ~ (Cardinality(Completions(p)) > 1)
  <2>1. batch' = [batch EXCEPT ![p] = 0]
    BY <1>2 DEF EndOfWc
  <2>2. QED  BY <2>1 DEF BatchOK
<1>3. QED  BY <1>1, <1>2

LEMMA BatchSent ==
  ASSUME TypeOK, NEW p \in Proc, NEW q \in Proc, process_wc_sent(p, q)
  PROVE  BatchOK(p)'
<1>1. /\ done' = [done EXCEPT ![p][q] = @ - 1] /\ rcq' = rcq /\ EndOfWc(p)
  BY DEF process_wc_sent, recvq
<1>2. /\ done \in PairOf(Nat) /\ batch \in [Proc -> 0 .. PollBatch - 1] /\ \A r \in Proc : done[p][r] \in Nat
  BY FlowTypes DEF TypeOK
<1>3. \A r \in Proc : done'[p][r] = IF r = q THEN done[p][r] - 1 ELSE done[p][r]
  BY <1>1, <1>2 DEF PairOf
<1>4. ASSUME NEW x \in Completions(p), x # <<"sent", q, done[p][q]>>
      PROVE  x \in Completions(p)'
  <2>1. CASE \E r \in Proc : \E i \in 1 .. done[p][r] : x = <<"sent", r, i>>
    <3>0. PICK r \in Proc : \E i \in 1 .. done[p][r] : x = <<"sent", r, i>>
      BY <2>1
    <3>1. PICK i \in 1 .. done[p][r] : x = <<"sent", r, i>>
      BY <3>0
    <3>2. i \in 1 .. done'[p][r]
      <4>1. r = q => i # done[p][q]
        BY <1>4, <3>1
      <4>2. done[p][r] \in Nat
        BY <1>2
      <4>3. QED  BY <1>3, <4>1, <4>2
    <3>3. QED  BY <3>1, <3>2 DEF Completions
  <2>2. CASE \E r \in Proc : \E i \in 1 .. Len(rcq[p][r]) : x = <<"received", r, i>>
    <3>0. PICK r \in Proc : \E i \in 1 .. Len(rcq[p][r]) : x = <<"received", r, i>>
      BY <2>2
    <3>1. PICK i \in 1 .. Len(rcq[p][r]) : x = <<"received", r, i>>
      BY <3>0
    <3>2. i \in 1 .. Len(rcq'[p][r])
      BY <1>1, <3>1
    <3>3. QED  BY <3>1, <3>2 DEF Completions
  <2>3. QED  BY <2>1, <2>2 DEF Completions
<1>5. Completions(p) \ {<<"sent", q, done[p][q]>>} \subseteq Completions(p)'
  BY <1>4
<1>6. QED  BY <1>1, <1>2, <1>5, BatchHandled

LEMMA BatchReceived ==
  ASSUME TypeOK, BuffersInv, NEW p \in Proc, NEW q \in Proc, process_wc_recv(p, q)
  PROVE  BatchOK(p)'
<1>1. /\ rcq' = [rcq EXCEPT ![p][q] = Tail(rcq[p][q])] /\ rcq[p][q] # <<>> /\ done' = done
  BY DEF process_wc_recv, sendq
<1>2. EndOfWc(p)
  BY <1>1, PendingNotFull DEF process_wc_recv
<1>3. /\ rcq \in PairOf(Seq(Recv)) /\ batch \in [Proc -> 0 .. PollBatch - 1]
      /\ \A r \in Proc : rcq[p][r] \in Seq(Recv) /\ Len(rcq[p][r]) \in Nat
  <2>1. \A r \in Proc : rcq[p][r] \in Seq(Recv)
    BY FlowTypes
  <2>2. QED  BY <2>1 DEF TypeOK
<1>4. \A r \in Proc : Len(rcq'[p][r]) = IF r = q THEN Len(rcq[p][r]) - 1 ELSE Len(rcq[p][r])
  <2>1. \A r \in Proc : rcq'[p][r] = IF r = q THEN Tail(rcq[p][r]) ELSE rcq[p][r]
    BY <1>1, <1>3 DEF PairOf
  <2>2. Len(Tail(rcq[p][q])) = Len(rcq[p][q]) - 1
    <3>1. rcq[p][q] \in Seq(Recv) /\ rcq[p][q] # <<>>
      BY <1>1, <1>3
    <3>2. QED  BY <3>1
  <2>3. QED  BY <2>1, <2>2
<1>5. ASSUME NEW x \in Completions(p), x # <<"received", q, Len(rcq[p][q])>>
      PROVE  x \in Completions(p)'
  <2>1. CASE \E r \in Proc : \E i \in 1 .. done[p][r] : x = <<"sent", r, i>>
    <3>0. PICK r \in Proc : \E i \in 1 .. done[p][r] : x = <<"sent", r, i>>
      BY <2>1
    <3>1. PICK i \in 1 .. done[p][r] : x = <<"sent", r, i>>
      BY <3>0
    <3>2. i \in 1 .. done'[p][r]
      BY <1>1, <3>1
    <3>3. QED  BY <3>1, <3>2 DEF Completions
  <2>2. CASE \E r \in Proc : \E i \in 1 .. Len(rcq[p][r]) : x = <<"received", r, i>>
    <3>0. PICK r \in Proc : \E i \in 1 .. Len(rcq[p][r]) : x = <<"received", r, i>>
      BY <2>2
    <3>1. PICK i \in 1 .. Len(rcq[p][r]) : x = <<"received", r, i>>
      BY <3>0
    <3>2. i \in 1 .. Len(rcq'[p][r])
      <4>1. r = q => i # Len(rcq[p][q])
        BY <1>5, <3>1
      <4>2. Len(rcq[p][r]) \in Nat
        BY <1>3
      <4>3. QED  BY <1>4, <4>1, <4>2
    <3>3. QED  BY <3>1, <3>2 DEF Completions
  <2>3. QED  BY <2>1, <2>2 DEF Completions
<1>6. Completions(p) \ {<<"received", q, Len(rcq[p][q])>>} \subseteq Completions(p)'
  BY <1>5
<1>7. QED  BY <1>2, <1>3, <1>6, BatchHandled

\* The steps that poll nothing leave the batches and the completions alone.
LEMMA NothingPolled ==
  ASSUME Next
  PROVE  \/ UNCHANGED <<batch, done, rcq>>
         \/ \E p, q \in Proc : process_wc_sent(p, q) \/ process_wc_recv(p, q) \/ hca_deliver(p, q)
<1>1. ASSUME NEW p \in Proc, NEW q \in Proc, NEW kind \in {"send", "write", "read"}, post(p, q, kind)
      PROVE  UNCHANGED <<batch, done, rcq>>
  BY <1>1 DEF post, post_rejected, post_accepted, sendq, recvq
<1>2. ASSUME NEW p \in Proc, NEW q \in Proc, YMPI_Zrecv(p, q) \/ process_wc_failed(p, q)
      PROVE  UNCHANGED <<batch, done, rcq>>
  BY <1>2, Zenon DEF YMPI_Zrecv, Enter, process_wc_failed, sendq, recvq
<1>3. ASSUME NEW p \in Proc,
             \/ YMPI_Zflush(p) \/ YMPI_Return(p) \/ poll_failed(p) \/ Zflush_return(p)
             \/ Return_post(p) \/ Return_return(p) \/ Zrecv_return(p)
      PROVE  UNCHANGED <<batch, done, rcq>>
  BY <1>3, Zenon DEF YMPI_Zflush, YMPI_Return, Enter, poll_failed, Zflush_return, Return_post,
                     Return_return, Zrecv_return, sendq, recvq
<1>4. QED
  BY <1>1, <1>2, <1>3
     DEF Next, Call, Step, Hca, YMPI_Zsend, YMPI_Write, YMPI_Read

LEMMA BatchStep ==
  ASSUME TypeOK, TypeOK', BuffersInv, BatchInv, [Next]_vars
  PROVE  BatchInv'
<1>0. /\ batch \in [Proc -> 0 .. PollBatch - 1] /\ done \in PairOf(Nat) /\ rcq \in PairOf(Seq(Recv))
  BY DEF TypeOK
<1>1. CASE UNCHANGED <<batch, done, rcq>>
  BY <1>1, BatchSame DEF BatchInv
<1>2. ASSUME NEW p \in Proc, NEW q \in Proc, process_wc_sent(p, q) PROVE BatchInv'
  <2>1. ASSUME NEW o \in Proc, o # p
        PROVE  batch'[o] = batch[o] /\ done'[o] = done[o] /\ rcq'[o] = rcq[o]
    BY <1>0, <1>2, <2>1 DEF process_wc_sent, EndOfWc, recvq, PairOf
  <2>2. QED  BY <1>2, <2>1, BatchSent, BatchSame DEF BatchInv
<1>3. ASSUME NEW p \in Proc, NEW q \in Proc, process_wc_recv(p, q) PROVE BatchInv'
  <2>1. ASSUME NEW o \in Proc, o # p
        PROVE  batch'[o] = batch[o] /\ done'[o] = done[o] /\ rcq'[o] = rcq[o]
    BY <1>0, <1>3, <2>1 DEF process_wc_recv, EndOfWc, sendq, PairOf
  <2>2. QED  BY <1>3, <2>1, BatchReceived, BatchSame DEF BatchInv
<1>4. ASSUME NEW p \in Proc, NEW q \in Proc, hca_deliver(p, q) PROVE BatchInv'
  <2>1. /\ batch' = batch /\ done' = [done EXCEPT ![p][q] = @ + 1]
        /\ rcq' = rcq \/ \E c : rcq' = [rcq EXCEPT ![q][p] = Append(@, c)]
    BY <1>4, Zenon DEF hca_deliver, context
  <2>2. ASSUME NEW o \in Proc, NEW r \in Proc, done[o][r] > 0 PROVE done'[o][r] > 0
    <3>1. done[o][r] \in Nat /\ done'[o][r] \in {done[o][r], done[o][r] + 1}
      BY <1>0, <2>1 DEF PairOf
    <3>2. QED  BY <2>2, <3>1
  <2>3. ASSUME NEW o \in Proc, NEW r \in Proc, rcq[o][r] # <<>> PROVE rcq'[o][r] # <<>>
    <3>1. rcq[o][r] \in Seq(Recv)
      BY FlowTypes
    <3>2. ASSUME NEW c, rcq' = [rcq EXCEPT ![q][p] = Append(@, c)] PROVE rcq'[o][r] # <<>>
      <4>1. rcq'[o][r] = rcq[o][r] \/ rcq'[o][r] = Append(rcq[o][r], c)
        BY <1>0, <3>2 DEF PairOf
      <4>2. Append(rcq[o][r], c) # <<>>
        BY <3>1
      <4>3. QED  BY <2>3, <4>1, <4>2
    <3>3. QED  BY <2>1, <2>3, <3>2
  <2>4. QED  BY <2>1, <2>2, <2>3, BatchSame DEF BatchInv
<1>5. CASE UNCHANGED vars
  <2>1. UNCHANGED <<batch, done, rcq>>
    BY <1>5 DEF vars, context, sendq, recvq
  <2>2. QED  BY <1>1, <2>1
<1>6. QED  BY <1>1, <1>2, <1>3, <1>4, <1>5, NothingPolled

LEMMA UnreturnedCount ==
  ASSUME NEW s, NEW i \in Nat \ {0}
  PROVE  /\ IsFiniteSet(Unreturned(s, i)) /\ Cardinality(Unreturned(s, i)) \in Nat
         /\ s[i] # Return => Cardinality(Unreturned(s, i + 1)) =
              Cardinality(Unreturned(s, i)) + (IF \E q \in Proc : s[i] = Receive(q) THEN 1 ELSE 0)
<1> DEFINE T == Unreturned(s, i)
           U == Unreturned(s, i + 1)
           receives == \E q \in Proc : s[i] = Receive(q)
<1>1. ASSUME NEW j \in 1 .. i - 1, s[i] # Return
      PROVE  j \in U <=> j \in T
  <2>1. j \in 1 .. (i + 1) - 1 /\ j + 1 .. (i + 1) - 1 = (j + 1 .. i - 1) \cup {i}
    OBVIOUS
  <2>2. QED  BY <1>1, <2>1 DEF Unreturned
<1>2. i \in U <=> receives
  <2>1. i \in 1 .. (i + 1) - 1 /\ i + 1 .. (i + 1) - 1 = {}
    OBVIOUS
  <2>2. QED  BY <2>1 DEF Unreturned
<1>3. U \subseteq (1 .. i - 1) \cup {i} /\ T \subseteq 1 .. i - 1
  <2>1. 1 .. (i + 1) - 1 = (1 .. i - 1) \cup {i}
    OBVIOUS
  <2>2. QED  BY <2>1 DEF Unreturned
<1>4. IsFiniteSet(T) /\ Cardinality(T) \in Nat /\ i \notin T /\ Cardinality(T \cup {i}) = Cardinality(T) + 1
  BY <1>3, SetBefore
<1> HIDE DEF T, U, receives
<1>5. s[i] # Return => U = IF receives THEN T \cup {i} ELSE T
  <2> DEFINE D == 1 .. i - 1
  <2>1. U \subseteq D \cup {i} /\ T \subseteq D /\ (s[i] # Return => \A j \in D : j \in U <=> j \in T)
    BY <1>1, <1>3
  <2> HIDE DEF D
  <2>2. QED  BY <1>2, <1>4, <2>1
<1>6. QED  BY <1>4, <1>5 DEF T, U, receives

\* A call begins.
LEMMA CallBegins ==
  ASSUME NEW s, NEW i \in Nat \ {0}, NEW src, NEW f, Len(f) \in Nat, NEW c, NEW src2,
         InCallOK(s, i, "idle", src, f),
         \/ s[i] = Flush /\ c = "flush"
         \/ s[i] = Return /\ c = "return"
         \/ s[i] = Barrier /\ c = "idle"
         \/ s[i] = Receive(src2) /\ src2 \in Proc /\ c = "recv"
         \/ (\E q \in Proc : Posts(s[i], q)) /\ c \in {"idle", "throttle"}
  PROVE  InCallOK(s, i + 1, c, src2, f)
<1> DEFINE k == Cardinality(Unreturned(s, i))
           k2 == Cardinality(Unreturned(s, i + 1))
           receives == \E q \in Proc : s[i] = Receive(q)
<1>1. i + 1 > 1 /\ (i + 1) - 1 = i
  OBVIOUS
<1>2. k \in Nat /\ (s[i] # Return => k2 = k + (IF receives THEN 1 ELSE 0))
  BY UnreturnedCount
<1>3. Len(f) <= k
  BY <1>2 DEF InCallOK
<1>4. /\ c = "recv" => s[i] = Receive(src2) /\ src2 \in Proc
      /\ c = "flush" => s[i] = Flush
      /\ c = "throttle" => \E q \in Proc : Posts(s[i], q)
      /\ c # "return" => s[i] # Return
  BY OperationsDiffer DEF Posts
<1>5. c = "recv" => receives
  BY <1>4
<1> HIDE DEF k, k2, receives
<1>6. c # "return" => Len(f) + (IF c = "recv" THEN 1 ELSE 0) <= k2
  <2>1. ASSUME c # "return" PROVE k2 = k + (IF receives THEN 1 ELSE 0)
    BY <1>2, <1>4, <2>1
  <2>2. QED  BY <1>2, <1>3, <1>5, <2>1
<1>7. QED  BY <1>1, <1>4, <1>6 DEF InCallOK, k2

\* A call goes on or ends.
LEMMA CallGoesOn ==
  ASSUME NEW s, NEW i \in Nat \ {0}, NEW src, NEW f, Len(f) \in Nat, NEW c, NEW c2, NEW f2,
         InCallOK(s, i, c, src, f),
         \/ c2 = c /\ f2 = f
         \/ c \in {"throttle", "flush"} /\ c2 = "idle" /\ f2 = f
         \/ c = "recv" /\ c2 = "idle" /\ Len(f2) = Len(f) + 1
         \/ c = "return" /\ c2 = "return"
         \/ c = "return" /\ c2 = "idle" /\ f2 = <<>>
  PROVE  InCallOK(s, i, c2, src, f2)
<1> DEFINE k == Cardinality(Unreturned(s, i))
<1>1. k \in Nat
  BY UnreturnedCount
<1>2. c # "return" => Len(f) + (IF c = "recv" THEN 1 ELSE 0) <= k
  BY DEF InCallOK
<1> HIDE DEF k
<1>3. c2 # "return" => Len(f2) + (IF c2 = "recv" THEN 1 ELSE 0) <= k
  <2>1. Len(<<>>) = 0
    OBVIOUS
  <2>2. QED  BY <1>1, <1>2, <2>1
<1>4. QED  BY <1>3 DEF InCallOK, k

LEMMA InCallSame ==
  ASSUME NEW r \in Proc, InCall(r), program' = program, ip'[r] = ip[r], pc'[r] = pc[r],
         source'[r] = source[r], vbuf_fetched'[r] = vbuf_fetched[r]
  PROVE  InCall(r)'
  BY Zenon DEF InCall

\* What a rank knows of itself while nothing fails.
LEMMA AtPlace ==
  ASSUME Context, faults' = faults, NEW p \in Proc
  PROVE  /\ program \in [Proc -> Seq(Operation)] /\ ip \in [Proc -> Nat]
         /\ ip[p] \in Nat \ {0} /\ Len(vbuf_fetched[p]) \in Nat
         /\ pc \in [Proc -> Labels] /\ source \in [Proc -> Proc] /\ vbuf_fetched \in [Proc -> Seq(Vbuf)]
         /\ ip[p] <= Len(program[p]) => program[p][ip[p]] \in Operation
<1>1. program \in [Proc -> Seq(Operation)] /\ Len(program[p]) \in Nat /\ Rank(p) /\ TypeOK
  BY ContextFacts
<1>2. ip[p] \in 1 .. Len(program[p]) + 1
  BY <1>1 DEF Rank, RankOK
<1>3. vbuf_fetched[p] \in Seq(Vbuf)
  BY <1>1 DEF TypeOK
<1>4. Len(vbuf_fetched[p]) \in Nat
  BY <1>3
<1>5. ip[p] <= Len(program[p]) => program[p][ip[p]] \in Operation
  <2>1. program[p] \in Seq(Operation)
    BY <1>1
  <2>2. QED  BY <1>1, <1>2, <2>1
<1>6. ip \in [Proc -> Nat]
  BY DEF Context, AppInv
<1>7. QED  BY <1>1, <1>2, <1>4, <1>5, <1>6 DEF TypeOK

\* A call of one rank passes no barrier; that of all is passed by all.
LEMMA BarriersKept ==
  ASSUME Context, faults' = faults, SameBarriers, program' = program,
         \/ ip' = ip
         \/ \E p \in Proc : program[p][ip[p]] # Barrier /\ ip' = [ip EXCEPT ![p] = @ + 1]
         \/ (\A p \in Proc : program[p][ip[p]] = Barrier) /\ ip' = [p \in Proc |-> ip[p] + 1]
  PROVE  SameBarriers'
<1>1. ip \in [Proc -> Nat] /\ \A p \in Proc : ip[p] \in Nat \ {0}
  BY AtPlace DEF Context, AppInv
<1>2. \A p \in Proc : /\ Made(program[p], ip[p], Barrier) \in Nat
                      /\ Made(program[p], ip[p] + 1, Barrier) =
                           Made(program[p], ip[p], Barrier) + (IF program[p][ip[p]] = Barrier THEN 1 ELSE 0)
  BY <1>1, MadeNext
<1>3. CASE ip' = ip
  BY <1>3 DEF SameBarriers
<1>4. ASSUME NEW p \in Proc, program[p][ip[p]] # Barrier, ip' = [ip EXCEPT ![p] = @ + 1]
      PROVE  SameBarriers'
  <2>1. ASSUME NEW o \in Proc
        PROVE  Made(program[o], ip'[o], Barrier) = Made(program[o], ip[o], Barrier)
    <3>1. CASE o = p
      <4>1. ip'[o] = ip[o] + 1
        BY <1>1, <1>4, <3>1
      <4>2. Made(program[o], ip[o] + 1, Barrier) = Made(program[o], ip[o], Barrier) + 0
        BY <1>2, <1>4, <3>1
      <4>3. QED  BY <1>2, <4>1, <4>2
    <3>2. CASE o # p
      BY <1>1, <1>4, <3>2
    <3>3. QED  BY <3>1, <3>2
  <2>2. QED  BY <2>1 DEF SameBarriers
<1>5. CASE (\A p \in Proc : program[p][ip[p]] = Barrier) /\ ip' = [p \in Proc |-> ip[p] + 1]
  <2>1. ASSUME NEW o \in Proc
        PROVE  Made(program[o], ip'[o], Barrier) = Made(program[o], ip[o], Barrier) + 1
    <3>1. ip'[o] = ip[o] + 1
      BY <1>5
    <3>2. Made(program[o], ip[o] + 1, Barrier) = Made(program[o], ip[o], Barrier) + 1
      BY <1>2, <1>5
    <3>3. QED  BY <3>1, <3>2
  <2>2. QED  BY <2>1 DEF SameBarriers
<1>6. QED  BY <1>3, <1>4, <1>5

LEMMA WaitBegins ==
  ASSUME Context, faults' = faults, NEW p \in Proc, InCall(p), pc[p] = "idle",
         program' = program, ip'[p] = ip[p] + 1, vbuf_fetched'[p] = vbuf_fetched[p],
         \/ program[p][ip[p]] = Flush /\ pc'[p] = "flush"
         \/ program[p][ip[p]] = Return /\ pc'[p] = "return"
         \/ program[p][ip[p]] = Barrier /\ pc'[p] = "idle"
         \/ program[p][ip[p]] = Receive(source'[p]) /\ source'[p] \in Proc /\ pc'[p] = "recv"
         \/ (\E q \in Proc : Posts(program[p][ip[p]], q)) /\ pc'[p] \in {"idle", "throttle"}
  PROVE  InCall(p)'
<1> DEFINE s == program[p]
           i == ip[p]
           src == source[p]
           f == vbuf_fetched[p]
           c == pc'[p]
           src2 == source'[p]
<1>1. i \in Nat \ {0} /\ Len(f) \in Nat
  BY AtPlace
<1>2. InCallOK(s, i, "idle", src, f)
  BY DEF InCall
<1>3. \/ s[i] = Flush /\ c = "flush"
      \/ s[i] = Return /\ c = "return"
      \/ s[i] = Barrier /\ c = "idle"
      \/ s[i] = Receive(src2) /\ src2 \in Proc /\ c = "recv"
      \/ (\E q \in Proc : Posts(s[i], q)) /\ c \in {"idle", "throttle"}
  OBVIOUS
<1> HIDE DEF s, i, src, f, c, src2
<1>4. InCallOK(s, i + 1, c, src2, f)
  BY <1>1, <1>2, <1>3, CallBegins
<1>5. QED  BY <1>4, Zenon DEF InCall, s, i, f, c, src2

LEMMA WaitCall ==
  ASSUME Context, WaitInv, NEW p \in Proc, AppCall(p), faults' = faults
  PROVE  WaitInv'
<1> DEFINE op == program[p][ip[p]]
<1>1. /\ op \in Operation /\ pc \in [Proc -> Labels] /\ source \in [Proc -> Proc] /\ ip \in [Proc -> Nat]
      /\ program' = program /\ ip' = [ip EXCEPT ![p] = @ + 1]
  BY AtPlace DEF AppCall, Running
<1>2. SameBarriers /\ (\A o \in Proc : InCall(o)) /\ faults' = 0
  BY DEF WaitInv, Context
<1>3. \/ \E q \in Proc, kind \in {"send", "write"} : Posts(op, q) /\ post(p, q, kind)
      \/ \E q \in Proc : op = Receive(q) /\ YMPI_Zrecv(p, q)
      \/ op = Flush /\ YMPI_Zflush(p)
      \/ op = Return /\ YMPI_Return(p)
  BY <1>1, OperationCases DEF AppCall, NextCall, YMPI_Zsend, YMPI_Write, Posts
<1>4. op # Barrier
  BY <1>3, OperationsDiffer DEF Posts
<1>5. /\ pc[p] = "idle" /\ vbuf_fetched' = vbuf_fetched
      /\ \A o \in Proc : o # p => pc'[o] = pc[o] /\ source'[o] = source[o]
      /\ \/ op = Flush /\ pc'[p] = "flush"
         \/ op = Return /\ pc'[p] = "return"
         \/ op = Receive(source'[p]) /\ source'[p] \in Proc /\ pc'[p] = "recv"
         \/ (\E q \in Proc : Posts(op, q)) /\ pc'[p] \in {"idle", "throttle"}
  <2> HIDE DEF op
  <2>1. ASSUME NEW q \in Proc, NEW kind \in {"send", "write"}, Posts(op, q), post(p, q, kind)
        PROVE  /\ pc[p] = "idle" /\ vbuf_fetched' = vbuf_fetched /\ source' = source
               /\ \A o \in Proc : o # p => pc'[o] = pc[o]
               /\ pc'[p] \in {"idle", "throttle"}
    <3>1. pc[p] = "idle" /\ vbuf_fetched' = vbuf_fetched /\ source' = source
      BY <2>1, Zenon DEF post, At, rx_win, post_rejected, post_accepted
    <3>2. pc' = pc \/ \E l \in {"idle", "throttle"} : pc' = [pc EXCEPT ![p] = l]
      BY <2>1 DEF post, post_rejected, post_accepted, Goto
    <3>3. QED  BY <1>1, <3>1, <3>2
  <2>2. ASSUME NEW q \in Proc, op = Receive(q), YMPI_Zrecv(p, q)
        PROVE  /\ pc[p] = "idle" /\ vbuf_fetched' = vbuf_fetched
               /\ \A o \in Proc : o # p => pc'[o] = pc[o] /\ source'[o] = source[o]
               /\ op = Receive(source'[p]) /\ source'[p] \in Proc /\ pc'[p] = "recv"
    BY <1>1, <2>2 DEF YMPI_Zrecv, Enter, At, Goto, rx_win
  <2>3. ASSUME NEW l \in {"flush", "return"}, Enter(p, l), UNCHANGED source
        PROVE  /\ pc[p] = "idle" /\ vbuf_fetched' = vbuf_fetched
               /\ \A o \in Proc : o # p => pc'[o] = pc[o] /\ source'[o] = source[o]
               /\ pc'[p] = l
    BY <1>1, <2>3 DEF Enter, At, Goto, rx_win
  <2>4. QED  BY <1>3, <2>1, <2>2, <2>3 DEF YMPI_Zflush, YMPI_Return
<1>6. InCall(p)'
  <2>1. ip'[p] = ip[p] + 1
    BY <1>1
  <2>2. QED  BY <1>1, <1>2, <1>5, <2>1, WaitBegins
<1>7. ASSUME NEW o \in Proc, o # p PROVE InCall(o)'
  <2>1. ip'[o] = ip[o]
    BY <1>1, <1>7
  <2>2. QED  BY <1>1, <1>2, <1>5, <1>7, <2>1, InCallSame
<1>8. SameBarriers'
  BY <1>1, <1>2, <1>4, BarriersKept
<1>9. QED  BY <1>6, <1>7, <1>8 DEF WaitInv

\* What a step of p does to the call it is in.
LEMMA StepOfCall ==
  ASSUME Context, faults' = faults, NEW p \in Proc, Step(p)
  PROVE  /\ source' = source
         /\ \A o \in Proc : o # p => pc'[o] = pc[o] /\ vbuf_fetched'[o] = vbuf_fetched[o]
         /\ \/ pc'[p] = pc[p] /\ vbuf_fetched'[p] = vbuf_fetched[p]
            \/ pc[p] \in {"throttle", "flush"} /\ pc'[p] = "idle" /\ vbuf_fetched'[p] = vbuf_fetched[p]
            \/ pc[p] = "recv" /\ pc'[p] = "idle" /\ Len(vbuf_fetched'[p]) = Len(vbuf_fetched[p]) + 1
            \/ pc[p] = "return" /\ pc'[p] = "return"
            \/ pc[p] = "return" /\ pc'[p] = "idle" /\ vbuf_fetched'[p] = <<>>
<1> DEFINE Goes ==
       /\ source' = source
       /\ \A o \in Proc : o # p => pc'[o] = pc[o] /\ vbuf_fetched'[o] = vbuf_fetched[o]
       /\ \/ pc'[p] = pc[p] /\ vbuf_fetched'[p] = vbuf_fetched[p]
          \/ pc[p] \in {"throttle", "flush"} /\ pc'[p] = "idle" /\ vbuf_fetched'[p] = vbuf_fetched[p]
          \/ pc[p] = "recv" /\ pc'[p] = "idle" /\ Len(vbuf_fetched'[p]) = Len(vbuf_fetched[p]) + 1
          \/ pc[p] = "return" /\ pc'[p] = "return"
          \/ pc[p] = "return" /\ pc'[p] = "idle" /\ vbuf_fetched'[p] = <<>>
<1>1. /\ pc \in [Proc -> Labels] /\ vbuf_fetched \in [Proc -> Seq(Vbuf)] /\ pc'[p] # "exit"
      /\ ~ Goto(p, "exit")
  BY AtPlace, ContextFacts DEF Goto
<1>2. ASSUME NEW q \in Proc, process_wc_sent(p, q) \/ process_wc_recv(p, q) PROVE Goes
  <2>1. EndOfWc(p) /\ vbuf_fetched' = vbuf_fetched /\ source' = source
    BY <1>1, <1>2, Zenon DEF process_wc_sent, process_wc_recv, rx_win
  <2>2. QED  BY <1>1, <2>1, EndOfWcLabel
<1>3. ASSUME NEW q \in Proc PROVE ~ process_wc_failed(p, q)
  BY <1>1 DEF process_wc_failed
<1>4. ~ poll_failed(p)
  <2>1. faults \in Nat
    BY ContextFacts
  <2>2. QED  BY <2>1 DEF poll_failed
<1>5. CASE Zflush_return(p)
  BY <1>1, <1>5 DEF Zflush_return, At, Goto, rx_win
<1>6. CASE Zrecv_return(p)
  <2> DEFINE v == Head(pending_recv_queue[p][source[p]])
  <2>1. /\ source' = source /\ pc[p] = "recv" /\ pc' = [pc EXCEPT ![p] = "idle"]
        /\ vbuf_fetched' = [vbuf_fetched EXCEPT ![p] = Append(@, v)]
    BY <1>1, <1>6, Zenon DEF Zrecv_return, At, Goto
  <2> HIDE DEF v
  <2>2. Len(Append(vbuf_fetched[p], v)) = Len(vbuf_fetched[p]) + 1
    <3>1. vbuf_fetched[p] \in Seq(Vbuf)
      BY <1>1
    <3>2. QED  BY <3>1
  <2>3. QED  BY <1>1, <2>1, <2>2
<1>7. CASE Return_post(p)
  <2>1. source' = source /\ pc[p] = "return" /\ pc' = pc
    <3>1. faults \in Nat
      BY ContextFacts
    <3>2. QED  BY <1>7, <3>1 DEF Return_post, At
  <2>2. \A o \in Proc : o # p => vbuf_fetched'[o] = vbuf_fetched[o]
    BY <1>1, <1>7 DEF Return_post
  <2>3. QED  BY <2>1, <2>2
<1>8. CASE Return_return(p)
  BY <1>1, <1>8 DEF Return_return, At, Goto, rx_win
<1>9. QED  BY <1>2, <1>3, <1>4, <1>5, <1>6, <1>7, <1>8 DEF Step

LEMMA WaitStep ==
  ASSUME Context, WaitInv, NEW p \in Proc, AppStep(p), faults' = faults
  PROVE  WaitInv'
<1>1. UNCHANGED <<program, ip>> /\ Step(p)
  BY DEF AppStep
<1>2. SameBarriers /\ (\A o \in Proc : InCall(o)) /\ faults' = 0
  BY DEF WaitInv, Context
<1>3. InCall(p)'
  <2> DEFINE s == program[p]
             i == ip[p]
             src == source[p]
             f == vbuf_fetched[p]
             f2 == vbuf_fetched'[p]
             c == pc[p]
             c2 == pc'[p]
  <2>1. i \in Nat \ {0} /\ Len(f) \in Nat /\ InCallOK(s, i, c, src, f)
    BY <1>2, AtPlace DEF InCall
  <2>2. \/ c2 = c /\ f2 = f
        \/ c \in {"throttle", "flush"} /\ c2 = "idle" /\ f2 = f
        \/ c = "recv" /\ c2 = "idle" /\ Len(f2) = Len(f) + 1
        \/ c = "return" /\ c2 = "return"
        \/ c = "return" /\ c2 = "idle" /\ f2 = <<>>
    BY <1>1, StepOfCall
  <2>3. source' = source
    BY <1>1, StepOfCall
  <2> HIDE DEF s, i, src, f, f2, c, c2
  <2>4. InCallOK(s, i, c2, src, f2)
    BY <2>1, <2>2, CallGoesOn
  <2>5. QED  BY <1>1, <2>3, <2>4, Zenon DEF InCall, s, i, src, f2, c2
<1>4. ASSUME NEW o \in Proc, o # p PROVE InCall(o)'
  BY <1>1, <1>2, <1>4, StepOfCall, InCallSame
<1>5. SameBarriers'
  BY <1>1, <1>2 DEF SameBarriers
<1>6. QED  BY <1>3, <1>4, <1>5 DEF WaitInv

LEMMA WaitSame ==
  ASSUME WaitInv, UNCHANGED <<program, ip, pc, source, vbuf_fetched, faults>>
  PROVE  WaitInv'
  BY InCallSame DEF WaitInv, SameBarriers

LEMMA WaitBarrier ==
  ASSUME Context, WaitInv, AppBarrier
  PROVE  WaitInv'
<1>1. /\ UNCHANGED <<vars, program>> /\ ip' = [p \in Proc |-> ip[p] + 1]
      /\ \A p \in Proc : Running(p) /\ NextCall(p) = "MPI_Barrier" /\ At(p, "idle")
  BY DEF AppBarrier, AllAtBarrier
<1>2. UNCHANGED <<vbuf_fetched, faults, source, pc, program>>
  BY <1>1 DEF vars, context, rx_win, history
<1>3. SameBarriers /\ (\A o \in Proc : InCall(o)) /\ faults' = 0
  BY <1>2 DEF WaitInv, Context
<1>4. ASSUME NEW p \in Proc PROVE program[p][ip[p]] = Barrier /\ pc[p] = "idle" /\ ip'[p] = ip[p] + 1
  <2>1. program[p][ip[p]] \in Operation
    BY <1>1, <1>2, AtPlace DEF Running
  <2>2. QED  BY <1>1, <2>1, OperationCases DEF NextCall, At
<1>5. ASSUME NEW p \in Proc PROVE InCall(p)'
  BY <1>2, <1>3, <1>4, WaitBegins
<1>6. SameBarriers'
  BY <1>1, <1>2, <1>3, <1>4, BarriersKept
<1>7. QED  BY <1>5, <1>6 DEF WaitInv

LEMMA WaitInvStep ==
  ASSUME Typed, AppInv, CoreInv, CoreInv', WaitInv, [AppNext]_appvars
  PROVE  WaitInv'
<1>1. CASE faults' # 0
  BY <1>1 DEF WaitInv
<1>2. CASE UNCHANGED appvars
  <2>1. UNCHANGED <<program, ip, pc, source, vbuf_fetched, faults>>
    BY <1>2 DEF appvars, vars, context, rx_win, history
  <2>2. QED  BY <2>1, WaitSame
<1>3. CASE AppNext /\ faults' = 0
  <2>1. Context
    BY <1>3 DEF Context
  <2>2. faults' = faults
    <3>1. faults \in Nat
      <4>1. faults \in 0 .. MaxFaults
        BY DEF CoreInv, TypeOK
      <4>2. QED  BY <4>1, BoundAssumption
    <3>2. CASE AppBarrier
      BY <3>2 DEF AppBarrier, vars, history
    <3>3. CASE ~ AppBarrier
      <4>1. Next
        BY <1>3, <3>3, AppCallIsCall DEF AppNext, AppStep, AppHca, Next
      <4>2. QED  BY <1>3, <3>1, <4>1, FaultsGrow
    <3>4. QED  BY <3>2, <3>3
  <2>3. CASE AppBarrier
    BY <2>1, <2>3, WaitBarrier
  <2>4. ASSUME NEW p \in Proc, AppHca(p) PROVE WaitInv'
    <3>1. UNCHANGED <<program, ip, pc, source, vbuf_fetched, faults>>
      BY <2>4, Zenon DEF AppHca, Hca, hca_deliver, context, history
    <3>2. QED  BY <3>1, WaitSame
  <2>5. QED  BY <1>3, <2>1, <2>2, <2>3, <2>4, WaitCall, WaitStep DEF AppNext
<1>4. QED  BY <1>1, <1>2, <1>3

\* A rank that is about to poll in the loop of a post has something to wait for.
ThrottleOK(p) == pc[p] = "throttle" /\ batch[p] = 0 => \E q \in Proc : sq[p][q] # <<>>

ThrottleInv == \A p \in Proc : ThrottleOK(p)

LEMMA ThrottleSame ==
  ASSUME NEW o \in Proc, ThrottleOK(o), pc'[o] = "throttle" => pc[o] = "throttle",
         batch'[o] = batch[o], sq'[o] = sq[o]
  PROVE  ThrottleOK(o)'
  BY Zenon DEF ThrottleOK

LEMMA ThrottlePolls ==
  ASSUME TypeOK, NEW p \in Proc, EndOfWc(p)
  PROVE  ThrottleOK(p)'
<1>1. pc \in [Proc -> Labels] /\ batch \in [Proc -> 0 .. PollBatch - 1] /\ batch[p] \in Nat
  BY QueueAssumption DEF TypeOK
<1>2. CASE /\ Cardinality(Completions(p)) > 1
           /\ batch[p] + 1 < PollBatch
           /\ batch' = [batch EXCEPT ![p] = @ + 1]
           /\ UNCHANGED pc
  BY <1>1, <1>2 DEF ThrottleOK
<1>3. CASE /\ batch' = [batch EXCEPT ![p] = 0]
           /\ pc' = IF At(p, "throttle") THEN [pc EXCEPT ![p] = "idle"] ELSE pc
  BY <1>1, <1>3 DEF ThrottleOK, At
<1>4. QED  BY <1>2, <1>3 DEF EndOfWc

\* The steps that neither post nor handle a completion.
LEMMA QueuesLeft ==
  ASSUME TypeOK, Next
  PROVE  \/ /\ UNCHANGED <<batch, sq>>
            /\ \A o \in Proc : pc'[o] = "throttle" => pc[o] = "throttle"
         \/ \E p, q \in Proc : process_wc_sent(p, q) \/ process_wc_recv(p, q)
         \/ \E p, q \in Proc, kind \in {"send", "write", "read"} : post(p, q, kind)
<1>1. pc \in [Proc -> Labels]
  BY DEF TypeOK
<1>2. ASSUME NEW p \in Proc, NEW l \in Labels \ {"throttle"}, Goto(p, l)
      PROVE  \A o \in Proc : pc'[o] = "throttle" => pc[o] = "throttle"
  BY <1>1, <1>2 DEF Goto
<1>3. {"idle", "exit", "flush", "recv", "return"} \subseteq Labels \ {"throttle"}
  BY DEF Labels
<1>4. ASSUME NEW p \in Proc, NEW q \in Proc, YMPI_Zrecv(p, q) \/ process_wc_failed(p, q)
      PROVE  UNCHANGED <<batch, sq>> /\ \E l \in {"recv", "exit"} : Goto(p, l)
  BY <1>4, Zenon DEF YMPI_Zrecv, Enter, process_wc_failed, sendq
<1>5. ASSUME NEW p \in Proc, NEW q \in Proc, hca_deliver(p, q)
      PROVE  UNCHANGED <<batch, sq, pc>>
  BY <1>5, Zenon DEF hca_deliver, context
<1>6. ASSUME NEW p \in Proc,
             \/ YMPI_Zflush(p) \/ YMPI_Return(p) \/ poll_failed(p) \/ Zflush_return(p)
             \/ Return_post(p) \/ Return_return(p) \/ Zrecv_return(p)
      PROVE  /\ UNCHANGED <<batch, sq>>
             /\ pc' = pc \/ \E l \in {"flush", "return", "idle", "exit"} : Goto(p, l)
  BY <1>6 DEF YMPI_Zflush, YMPI_Return, Enter, poll_failed, Zflush_return, Return_post,
              Return_return, Zrecv_return, sendq
<1>7. QED
  BY <1>2, <1>3, <1>4, <1>5, <1>6
     DEF Next, Call, Step, Hca, YMPI_Zsend, YMPI_Write, YMPI_Read

LEMMA ThrottleStep ==
  ASSUME TypeOK, BuffersInv, ThrottleInv, [Next]_vars
  PROVE  ThrottleInv'
<1>0. /\ batch \in [Proc -> 0 .. PollBatch - 1] /\ pc \in [Proc -> Labels] /\ sq \in PairOf(Seq(WR))
  BY DEF TypeOK
<1>1. CASE /\ UNCHANGED <<batch, sq>>
           /\ \A o \in Proc : pc'[o] = "throttle" => pc[o] = "throttle"
  BY <1>1, ThrottleSame DEF ThrottleInv
<1>2. ASSUME NEW p \in Proc, NEW q \in Proc, process_wc_sent(p, q) \/ process_wc_recv(p, q)
      PROVE  ThrottleInv'
  <2>1. EndOfWc(p)
    BY <1>2, PendingNotFull DEF process_wc_sent, process_wc_recv
  <2>2. sq' = sq \/ sq' = [sq EXCEPT ![p][q] = Tail(@)]
    BY <1>2 DEF process_wc_sent, process_wc_recv, sendq
  <2>3. ASSUME NEW o \in Proc, o # p PROVE batch'[o] = batch[o] /\ sq'[o] = sq[o] /\ pc'[o] = pc[o]
    <3>1. sq'[o] = sq[o]
      BY <1>0, <2>2, <2>3 DEF PairOf
    <3>2. QED  BY <1>0, <2>1, <2>3, <3>1 DEF EndOfWc
  <2>4. QED  BY <2>1, <2>3, ThrottlePolls, ThrottleSame DEF ThrottleInv
<1>3. ASSUME NEW p \in Proc, NEW q \in Proc, NEW kind \in {"send", "write", "read"}, post(p, q, kind)
      PROVE  ThrottleInv'
  <2>1. CASE post_rejected(p, q)
    <3>1. UNCHANGED <<batch, sq, pc>>
      BY <2>1 DEF post_rejected, sendq
    <3>2. QED  BY <1>1, <3>1
  <2>2. CASE post_accepted(p, q, kind)
    <3> DEFINE wr == [kind |-> kind, n |-> IF kind = "send" THEN sent[p][q] + 1 ELSE 0]
               l == IF qp_pending_send_wr[p][q] + 1 = MaxSendWr THEN "throttle" ELSE "idle"
    <3>1. batch' = batch /\ sq' = [sq EXCEPT ![p][q] = Append(@, wr)] /\ pc' = [pc EXCEPT ![p] = l]
      BY <2>2, Zenon DEF post_accepted, Goto
    <3> HIDE DEF wr, l
    <3>2. sq'[p][q] = Append(sq[p][q], wr) /\ \A o \in Proc : o # p => sq'[o] = sq[o] /\ pc'[o] = pc[o]
      BY <1>0, <3>1 DEF PairOf
    <3>3. sq'[p][q] # <<>>
      <4>1. sq[p][q] \in Seq(WR)
        BY FlowTypes
      <4>2. Append(sq[p][q], wr) # <<>>
        BY <4>1
      <4>3. QED  BY <3>2, <4>2
    <3>4. ThrottleOK(p)'
      BY <3>3 DEF ThrottleOK
    <3>5. QED  BY <3>1, <3>2, <3>4, ThrottleSame DEF ThrottleInv
  <2>3. QED  BY <1>3, <2>1, <2>2 DEF post
<1>4. CASE UNCHANGED vars
  <2>1. UNCHANGED <<batch, sq, pc>>
    BY <1>4 DEF vars, context, sendq
  <2>2. QED  BY <1>1, <2>1
<1>5. QED  BY <1>1, <1>2, <1>3, <1>4, QueuesLeft

LEMMA WaitStart ==
  ASSUME AppInit
  PROVE  WaitInv /\ BatchInv /\ ThrottleInv
<1>1. ASSUME NEW p \in Proc
      PROVE  InCall(p) /\ BatchOK(p) /\ ThrottleOK(p) /\ Made(program[p], ip[p], Barrier) = 0
  <2>1. ip[p] = 1 /\ pc[p] = "idle" /\ vbuf_fetched[p] = <<>> /\ batch[p] = 0
    BY DEF AppInit, Init
  <2>2. Cardinality(Unreturned(program[p], 1)) \in Nat
    BY UnreturnedCount, 1 \in Nat \ {0}
  <2>3. Len(<<>>) = 0
    OBVIOUS
  <2>4. QED  BY <2>1, <2>2, <2>3, MadeFirst DEF InCall, InCallOK, BatchOK, ThrottleOK
<1>2. QED  BY <1>1 DEF WaitInv, BatchInv, ThrottleInv, SameBarriers

LEMMA WaitInvariant ==
  ASSUME Typed, \A prog \in Programs : Throttled(prog)
  PROVE  AppSafety => [](AppInv /\ CoreInv /\ WaitInv /\ BatchInv /\ ThrottleInv)
<1>1. AppInit => WaitInv /\ BatchInv /\ ThrottleInv
  BY WaitStart
<1>2. AppInv /\ CoreInv /\ CoreInv' /\ WaitInv /\ [AppNext]_appvars => WaitInv'
  BY WaitInvStep
<1>3. CoreInv /\ CoreInv' /\ BatchInv /\ [AppNext]_appvars => BatchInv'
  BY AppNextIsNext, BatchStep DEF CoreInv
<1>4. CoreInv /\ ThrottleInv /\ [AppNext]_appvars => ThrottleInv'
  BY AppNextIsNext, ThrottleStep DEF CoreInv
<1>5. AppSafety => [](AppInv /\ CoreInv)
  BY AppInvariant
<1>6. QED  BY <1>1, <1>2, <1>3, <1>4, <1>5, PTL DEF AppSafety

--------------------------------------------------------------------------------
(* A state in which everyone waits. *)

\* The vbufs of p with messages of r that YMPI_Zrecv did not return.
OnWay(p, r) == pending_recv_queue[p][r] \o Ids(rcq[p][r])

LEMMA ConcatParts ==
  ASSUME NEW S, NEW a \in Seq(S), NEW b \in Seq(S)
  PROVE  /\ a \o b \in Seq(S) /\ Len(a \o b) = Len(a) + Len(b) /\ Len(a) \in Nat /\ Len(b) \in Nat
         /\ \A i \in 1 .. Len(a) + Len(b) : (a \o b)[i] = IF i <= Len(a) THEN a[i] ELSE b[i - Len(a)]
  OBVIOUS

LEMMA OnWayParts ==
  ASSUME TypeOK, NEW p \in Proc, NEW r \in Proc
  PROVE  /\ OnWay(p, r) \in Seq(Vbuf)
         /\ Len(OnWay(p, r)) = Len(pending_recv_queue[p][r]) + Len(rcq[p][r])
         /\ Elems(OnWay(p, r)) = Elems(pending_recv_queue[p][r]) \cup Elems(Ids(rcq[p][r]))
<1> DEFINE a == pending_recv_queue[p][r]
           b == Ids(rcq[p][r])
<1>1. a \in Seq(Vbuf) /\ rcq[p][r] \in Seq(Recv)
  BY FlowTypes
<1>2. b \in Seq(Vbuf) /\ Len(b) = Len(rcq[p][r])
  BY <1>1, IdsType
<1> HIDE DEF a, b
<1>3. a \o b \in Seq(Vbuf) /\ Len(a \o b) = Len(a) + Len(b) /\ Len(a) \in Nat /\ Len(b) \in Nat
  BY <1>1, <1>2, ConcatParts
<1>4. \A i \in 1 .. Len(a) + Len(b) : (a \o b)[i] = IF i <= Len(a) THEN a[i] ELSE b[i - Len(a)]
  BY <1>1, <1>2, ConcatParts
<1>5. Elems(a) \cup Elems(b) \subseteq Elems(a \o b)
  <2>1. ASSUME NEW i \in 1 .. Len(a) PROVE a[i] \in Elems(a \o b)
    <3>1. i \in 1 .. Len(a \o b) /\ (a \o b)[i] = a[i]
      BY <1>3, <1>4
    <3>2. QED  BY <3>1 DEF Elems
  <2>2. ASSUME NEW i \in 1 .. Len(b) PROVE b[i] \in Elems(a \o b)
    <3>1. i + Len(a) \in 1 .. Len(a \o b) /\ (a \o b)[i + Len(a)] = b[i]
      BY <1>3, <1>4
    <3>2. QED  BY <3>1 DEF Elems
  <2>3. QED  BY <2>1, <2>2 DEF Elems
<1>6. Elems(a \o b) \subseteq Elems(a) \cup Elems(b)
  <2>1. ASSUME NEW i \in 1 .. Len(a \o b) PROVE (a \o b)[i] \in Elems(a) \cup Elems(b)
    <3>1. CASE i <= Len(a)
      <4>1. i \in 1 .. Len(a) /\ (a \o b)[i] = a[i]
        BY <1>3, <1>4, <3>1
      <4>2. QED  BY <4>1 DEF Elems
    <3>2. CASE ~ (i <= Len(a))
      <4>1. i - Len(a) \in 1 .. Len(b) /\ (a \o b)[i] = b[i - Len(a)]
        BY <1>3, <1>4, <3>2
      <4>2. QED  BY <4>1 DEF Elems
    <3>3. QED  BY <3>1, <3>2
  <2>2. QED  BY <2>1 DEF Elems
<1>7. QED  BY <1>2, <1>3, <1>5, <1>6 DEF OnWay, a, b

LEMMA NothingOnWay ==
  ASSUME TypeOK, NEW p \in Proc, NEW r \in Proc, pending_recv_queue[p][r] = <<>>, rcq[p][r] = <<>>
  PROVE  Len(OnWay(p, r)) = 0
<1>1. Len(OnWay(p, r)) = Len(<<>>) + Len(<<>>)
  BY OnWayParts, Zenon
<1>2. Len(<<>>) = 0
  OBVIOUS
<1>3. QED  BY <1>1, <1>2

\* Without a vbuf in its SRQ, p holds as many as there are: fetched, or with a message of B.
LEMMA VbufsTaken ==
  ASSUME TypeOK, BuffersInv, NEW p \in Proc, srq[p] = {}, lost[p] = {}, NEW B, IsFiniteSet(B),
         \A r \in Proc : Len(got[p][r]) \in Nat,
         \A r \in Proc : \A i \in 1 .. Len(OnWay(p, r)) : <<r, Len(got[p][r]) + i>> \in B
  PROVE  PrepostDepth <= Len(vbuf_fetched[p]) + Cardinality(B)
<1> DEFINE f == vbuf_fetched[p]
           F == Elems(f)
           P == Vbuf \ F
<1>1. f \in Seq(Vbuf) /\ Len(f) \in Nat
  <2>1. f \in Seq(Vbuf)
    BY DEF TypeOK
  <2>2. QED  BY <2>1
<1>2. IsFiniteSet(F) /\ Cardinality(F) <= Len(f)
  <2>1. f \in Surjection(1 .. Len(f), F)
    <3>1. f \in [1 .. Len(f) -> F]
      BY <1>1 DEF Elems
    <3>2. \A x \in F : \E i \in 1 .. Len(f) : f[i] = x
      BY DEF Elems
    <3>3. QED  BY <3>1, <3>2 DEF Surjection
  <2>2. IsFiniteSet(1 .. Len(f)) /\ Cardinality(1 .. Len(f)) = Len(f)
    BY <1>1, FS_Interval
  <2>3. QED  BY <2>1, <2>2, FS_Surjection
<1>3. ASSUME NEW v \in P
      PROVE  \E x \in Proc \X Nat : x[2] \in 1 .. Len(OnWay(p, x[1])) /\ OnWay(p, x[1])[x[2]] = v
  <2>1. PICK h \in Place : v \in Held(p)[h]
    BY DEF BuffersInv, Partitions
  <2>2. PICK where \in {"pending", "cq", "fetched", "srq", "lost"}, q \in Proc : h = <<where, q>>
    BY DEF Place
  <2>3. v \in Elems(OnWay(p, q))
    <3>1. /\ Held(p)[<<"fetched", q>>] \subseteq F
          /\ Held(p)[<<"srq", q>>] = {} /\ Held(p)[<<"lost", q>>] = {}
          /\ Held(p)[<<"pending", q>>] = Elems(pending_recv_queue[p][q])
          /\ Held(p)[<<"cq", q>>] = Elems(Ids(rcq[p][q]))
      BY HeldAt
    <3>2. v \notin F
      OBVIOUS
    <3>3. v \in Elems(pending_recv_queue[p][q]) \cup Elems(Ids(rcq[p][q]))
      BY <2>1, <2>2, <3>1, <3>2
    <3>4. QED  BY <3>3, OnWayParts
  <2>4. PICK i \in 1 .. Len(OnWay(p, q)) : OnWay(p, q)[i] = v
    BY <2>3 DEF Elems
  <2>5. <<q, i>> \in Proc \X Nat
    OBVIOUS
  <2>6. QED  BY <2>4, <2>5
<1> DEFINE at == [v \in P |-> CHOOSE x \in Proc \X Nat :
                                 x[2] \in 1 .. Len(OnWay(p, x[1])) /\ OnWay(p, x[1])[x[2]] = v]
           g == [v \in P |-> <<at[v][1], Len(got[p][at[v][1]]) + at[v][2]>>]
<1>4. \A v \in P : /\ at[v] \in Proc \X Nat
                   /\ at[v][2] \in 1 .. Len(OnWay(p, at[v][1])) /\ OnWay(p, at[v][1])[at[v][2]] = v
  BY <1>3
<1> HIDE DEF at
<1>5. g \in Injection(P, B)
  <2>1. g \in [P -> B]
    BY <1>4
  <2>2. ASSUME NEW v \in P, NEW w \in P, g[v] = g[w] PROVE v = w
    <3>1. at[v][1] = at[w][1] /\ Len(got[p][at[v][1]]) + at[v][2] = Len(got[p][at[w][1]]) + at[w][2]
      BY <2>2
    <3>2. at[v][1] \in Proc /\ at[v][2] \in Nat /\ at[w][2] \in Nat
      BY <1>4
    <3>3. at[v][2] = at[w][2]
      BY <3>1, <3>2
    <3>4. QED  BY <1>4, <3>1, <3>3
  <2>3. QED  BY <2>1, <2>2 DEF Injection, IsInjective
<1>6. Cardinality(P) <= Cardinality(B)
  BY <1>5, FS_Injection
<1>7. /\ Cardinality(Vbuf) = Cardinality(P) + Cardinality(Vbuf \cap F)
      /\ Cardinality(Vbuf \cap F) <= Cardinality(F)
      /\ Cardinality(P) \in Nat /\ Cardinality(Vbuf \cap F) \in Nat /\ Cardinality(F) \in Nat
      /\ Cardinality(Vbuf) \in Nat /\ Cardinality(B) \in Nat
  <2>1. IsFiniteSet(Vbuf) /\ IsFiniteSet(F) /\ IsFiniteSet(Vbuf \cap F) /\ IsFiniteSet(P)
    BY <1>2, VbufAssumption, FS_Subset
  <2>2. Cardinality(P) = Cardinality(Vbuf) - Cardinality(Vbuf \cap F)
    BY <2>1, FS_Difference
  <2>3. Cardinality(Vbuf \cap F) <= Cardinality(F)
    BY <2>1, FS_Subset
  <2>4. QED
    <3>1. /\ Cardinality(P) \in Nat /\ Cardinality(Vbuf \cap F) \in Nat /\ Cardinality(F) \in Nat
          /\ Cardinality(Vbuf) \in Nat /\ Cardinality(B) \in Nat
      BY <2>1, FS_CardinalityType
    <3>2. QED  BY <2>2, <2>3, <3>1
<1>8. QED
  <2> DEFINE a == Cardinality(P)
             b == Cardinality(Vbuf \cap F)
             c == Cardinality(F)
             d == Cardinality(B)
             n == Len(f)
             m == Cardinality(Vbuf)
  <2>1. /\ m = a + b /\ b <= c /\ a <= d /\ c <= n
        /\ a \in Nat /\ b \in Nat /\ c \in Nat /\ d \in Nat /\ n \in Nat /\ m \in Nat
    BY <1>1, <1>2, <1>6, <1>7
  <2> HIDE DEF a, b, c, d, n, m
  <2>2. m <= n + d
    BY <2>1
  <2>3. QED  BY <2>2 DEF m, n, d, PrepostDepth

\* The state in which everyone may wait.
Everything == /\ Typed /\ AppInv /\ CoreInv /\ WaitInv /\ BatchInv /\ ThrottleInv
              /\ faults = 0

LEMMA EverythingFacts ==
  ASSUME Everything
  PROVE  /\ TypeOK /\ BuffersInv /\ FlowInv /\ CountersInv /\ SameBarriers
         /\ program \in [Proc -> Seq(Operation)] /\ ip \in [Proc -> Nat]
         /\ \A p \in Proc : /\ InCall(p) /\ lost[p] = {} /\ Len(program[p]) \in Nat
                            /\ ip[p] \in 1 .. Len(program[p]) + 1 /\ ip[p] \in Nat \ {0}
                            /\ Len(vbuf_fetched[p]) \in Nat
         /\ \A p, q \in Proc :
              /\ Len(got[p][q]) \in Nat /\ sent[p][q] \in Nat
              /\ sent[p][q] = Made(program[p], ip[p], Send(q))
              /\ Len(got[p][q]) + Asked(pc[p], source[p], q) = Made(program[p], ip[p], Receive(q))
<1>1. TypeOK /\ BuffersInv /\ FlowInv /\ CountersInv /\ SameBarriers /\ \A p \in Proc : InCall(p) /\ Rank(p)
  BY DEF Everything, CoreInv, WaitInv, AppInv
<1>2. program \in [Proc -> Seq(Operation)] /\ ip \in [Proc -> Nat]
  BY DEF Everything, AppInv, Typed
<1>3. ASSUME NEW p \in Proc
      PROVE  Len(program[p]) \in Nat /\ vbuf_fetched[p] \in Seq(Vbuf) /\ Len(vbuf_fetched[p]) \in Nat
  <2>1. program[p] \in Seq(Operation) /\ vbuf_fetched[p] \in Seq(Vbuf)
    BY <1>1, <1>2 DEF TypeOK
  <2>2. QED  BY <2>1
<1>4. ASSUME NEW p \in Proc PROVE ip[p] \in 1 .. Len(program[p]) + 1 /\ lost[p] = {} /\ ip[p] \in Nat \ {0}
  <2>1. ip[p] \in 1 .. Len(program[p]) + 1 /\ lost[p] = {}
    BY <1>1 DEF Rank, RankOK
  <2>2. QED  BY <1>3, <2>1
<1>5. ASSUME NEW p \in Proc, NEW q \in Proc
      PROVE  /\ Len(got[p][q]) \in Nat /\ sent[p][q] \in Nat
             /\ sent[p][q] = Made(program[p], ip[p], Send(q))
             /\ Len(got[p][q]) + Asked(pc[p], source[p], q) = Made(program[p], ip[p], Receive(q))
  <2>1. got[p][q] \in Seq(Got) /\ sent[p][q] \in Nat
    BY <1>1, FlowTypes
  <2>2. Len(got[p][q]) \in Nat
    BY <2>1
  <2>3. QED  BY <1>1, <2>1, <2>2 DEF Rank, RankOK
<1>6. QED  BY <1>1, <1>2, <1>3, <1>4, <1>5

\* What q sent to p and p did not take is on the list, in the CQ or in the send queue.
LEMMA NotTaken ==
  ASSUME TypeOK, FlowInv, NEW p \in Proc, NEW q \in Proc
  PROVE  /\ Len(got[p][q]) \in Nat /\ Len(OnWay(p, q)) \in Nat
         /\ Len(got[p][q]) + Len(OnWay(p, q)) <= sent[q][p]
         /\ Len(got[p][q]) + Len(OnWay(p, q)) < sent[q][p] => done[q][p] < Len(sq[q][p])
         /\ (\E i \in done[q][p] + 1 .. Len(sq[q][p]) : sq[q][p][i].kind = "send")
              => Len(got[p][q]) + Len(OnWay(p, q)) < sent[q][p]
<1> DEFINE n == Len(got[p][q]) + Len(pending_recv_queue[p][q]) + Len(rcq[p][q])
           s == sq[q][p]
           d == done[q][p]
           last == sent[q][p]
<1>1. /\ got[p][q] \in Seq(Got) /\ pending_recv_queue[p][q] \in Seq(Vbuf) /\ rcq[p][q] \in Seq(Recv)
      /\ s \in Seq(WR) /\ d \in Nat /\ last \in Nat
  BY FlowTypes
<1>2. FlowOK(q, got[p][q], pending_recv_queue[p][q], rcq[p][q], data[p], buf_bytes[p], s, d, last)
  BY DEF FlowInv, Flow
<1>3. n \in Nat /\ SendsOK(s, d, n, last)
  BY <1>1, <1>2, FlowSends
<1>4. Len(got[p][q]) \in Nat /\ Len(pending_recv_queue[p][q]) \in Nat /\ Len(rcq[p][q]) \in Nat /\ Len(s) \in Nat
  BY <1>1
<1>5. n = Len(got[p][q]) + Len(OnWay(p, q)) /\ Len(OnWay(p, q)) \in Nat
  <2> DEFINE a == Len(got[p][q])
             b == Len(pending_recv_queue[p][q])
             c == Len(rcq[p][q])
             w == Len(OnWay(p, q))
  <2>1. w = b + c
    BY OnWayParts
  <2>2. n = a + b + c /\ a \in Nat /\ b \in Nat /\ c \in Nat
    BY <1>4
  <2> HIDE DEF a, b, c, w, n
  <2>3. n = a + w /\ w \in Nat
    BY <2>1, <2>2
  <2>4. QED  BY <2>3 DEF a, w
<1> HIDE DEF n, s, d, last
<1>6. n <= last
  BY <1>3 DEF SendsOK
<1>7. n < last => d < Len(s)
  <2>1. ASSUME n < last PROVE d < Len(s)
    <3>1. n + 1 \in n + 1 .. last
      BY <1>1, <1>3, <2>1
    <3>2. \E i \in d + 1 .. Len(s) : s[i].kind = "send" /\ s[i].n = n + 1
      BY <1>3, <3>1 DEF SendsOK
    <3>3. QED  BY <1>1, <1>4, <3>2
  <2>2. QED  BY <2>1
<1>8. (\E i \in d + 1 .. Len(s) : s[i].kind = "send") => n < last
  <2>1. ASSUME NEW i \in d + 1 .. Len(s), s[i].kind = "send" PROVE n < last
    <3>1. s[i].n \in n + 1 .. last
      BY <1>3, <2>1 DEF SendsOK
    <3>2. QED  BY <1>1, <1>3, <3>1
  <2>2. QED  BY <2>1
<1>9. QED  BY <1>4, <1>5, <1>6, <1>7, <1>8 DEF s, d, last

LEMMA BacklogFinite ==
  ASSUME NEW prog, NEW v \in [Proc -> Nat \ {0}], NEW p \in Proc, NEW S \in SUBSET Proc
  PROVE  /\ IsFiniteSet(Backlog(prog, v, p, S)) /\ Cardinality(Backlog(prog, v, p, S)) \in Nat
<1> DEFINE From(q) == {q} \X (Made(prog[p], v[p], Receive(q)) + 1 .. Made(prog[q], v[q], Send(p)))
           f == [q \in S |-> From(q)]
           T == {From(q) : q \in S}
<1>1. IsFiniteSet(S)
  BY ProcAssumption, FS_Subset
<1>2. IsFiniteSet(T)
  <2> HIDE DEF From
  <2>1. f \in Surjection(S, T)
    <3>1. f \in [S -> T]
      OBVIOUS
    <3>2. \A x \in T : \E q \in S : f[q] = x
      OBVIOUS
    <3>3. QED  BY <3>1, <3>2 DEF Surjection
  <2>2. QED  BY <1>1, <2>1, FS_Surjection
<1>3. \A q \in S : IsFiniteSet(From(q))
  <2>1. ASSUME NEW q \in S PROVE IsFiniteSet(From(q))
    <3>1. Made(prog[p], v[p], Receive(q)) \in Nat /\ Made(prog[q], v[q], Send(p)) \in Nat
      BY MadeNext
    <3>2. IsFiniteSet(Made(prog[p], v[p], Receive(q)) + 1 .. Made(prog[q], v[q], Send(p)))
      BY <3>1, FS_Interval
    <3>3. QED  BY <3>2, FS_Singleton, FS_Product
  <2>2. QED  BY <2>1
<1>4. \A X \in T : IsFiniteSet(X)
  BY <1>3
<1>5. IsFiniteSet(UNION T)
  <2> HIDE DEF T
  <2>1. QED  BY <1>2, <1>4, FS_UNION
<1>6. Backlog(prog, v, p, S) = UNION T
  BY DEF Backlog
<1>7. QED  BY <1>5, <1>6, FS_CardinalityType

LEMMA InBacklog ==
  ASSUME NEW prog, NEW v \in [Proc -> Nat \ {0}], NEW p \in Proc, NEW S \in SUBSET Proc, NEW q \in S, NEW n \in Nat,
         Made(prog[p], v[p], Receive(q)) < n, n <= Made(prog[q], v[q], Send(p))
  PROVE  <<q, n>> \in Backlog(prog, v, p, S)
<1>1. Made(prog[p], v[p], Receive(q)) \in Nat /\ Made(prog[q], v[q], Send(p)) \in Nat
  BY MadeNext
<1>2. n \in Made(prog[p], v[p], Receive(q)) + 1 .. Made(prog[q], v[q], Send(p))
  BY <1>1
<1>3. QED  BY <1>2 DEF Backlog

\* Where a rank that waits is.
LEMMA WaitsAt ==
  ASSUME Everything, NEW p \in Proc, Waits(p)
  PROVE  \/ pc[p] = "idle" /\ (Running(p) => NextCall(p) = "MPI_Barrier")
         \/ /\ \A q \in Proc : done[p][q] = 0 /\ rcq[p][q] = <<>>
            /\ \/ pc[p] \in {"throttle", "flush"} /\ \E q \in Proc : sq[p][q] # <<>>
               \/ pc[p] = "recv" /\ pending_recv_queue[p][source[p]] = <<>>
<1>1. TypeOK /\ CountersInv
  BY EverythingFacts
<1>2. CASE Polling(p) /\ Completions(p) = {}
  <2>1. \A q \in Proc : done[p][q] = 0 /\ rcq[p][q] = <<>>
    <3>1. \A q \in Proc : done[p][q] \in Nat
      BY <1>1, FlowTypes
    <3>2. \A q \in Proc : ~ (done[p][q] > 0) /\ rcq[p][q] = <<>>
      BY <1>1, <1>2, CompletionsAt
    <3>3. QED  BY <3>1, <3>2
  <2>2. PollsNow(p)
    <3>1. ~ (batch[p] > 0)
      BY <1>2 DEF Everything, BatchInv, BatchOK
    <3>2. QED  BY <1>2, <3>1 DEF Polling
  <2>3. CASE At(p, "throttle")
    <3>1. \E q \in Proc : sq[p][q] # <<>>
      BY <2>2, <2>3 DEF Everything, ThrottleInv, ThrottleOK, PollsNow, At
    <3>2. QED  BY <2>1, <2>3, <3>1 DEF At
  <2>4. CASE At(p, "flush") /\ pending_send_wr[p] > 0
    <3>1. Outstanding(p) # {}
      <4>1. pending_send_wr[p] = Cardinality(Outstanding(p))
        BY <1>1 DEF CountersInv, CountersOK
      <4>2. QED  BY <2>4, <4>1, FS_EmptySet
    <3>2. \E q \in Proc : \E i \in 1 .. Len(sq[p][q]) : TRUE
      BY <3>1 DEF Outstanding
    <3>3. \E q \in Proc : sq[p][q] # <<>>
      BY <3>2
    <3>4. QED  BY <2>1, <2>4, <3>3 DEF At
  <2>5. CASE At(p, "recv") /\ pending_recv_queue[p][source[p]] = <<>>
    BY <2>1, <2>5 DEF At
  <2>6. QED  BY <2>2, <2>3, <2>4, <2>5 DEF PollsNow
<1>3. CASE At(p, "idle") /\ (Running(p) => NextCall(p) = "MPI_Barrier")
  BY <1>3 DEF At
<1>4. QED  BY <1>2, <1>3 DEF Waits

\* The vbufs of p are fetched or hold what others than q sent, and p asks for more.
LEMMA NoRoomFrom ==
  ASSUME Everything, NEW p \in Proc, NEW q \in Proc, pc[p] = "recv", source[p] = q,
         pending_recv_queue[p][q] = <<>>, rcq[p][q] = <<>>, srq[p] = {}
  PROVE  ~ Room(program, ip, p, Proc \ {q})
<1> DEFINE B == Backlog(program, ip, p, Proc \ {q})
           u == Cardinality(Unreturned(program[p], ip[p]))
           f == Len(vbuf_fetched[p])
<1>1. TypeOK /\ BuffersInv /\ FlowInv /\ lost[p] = {} /\ \A r \in Proc : Len(got[p][r]) \in Nat
  BY EverythingFacts
<1>2. ip \in [Proc -> Nat \ {0}]
  <2>1. ip \in [Proc -> Nat] /\ \A r \in Proc : ip[r] \in Nat \ {0}
    BY EverythingFacts
  <2>2. QED  BY <2>1
<1>3. IsFiniteSet(B) /\ Cardinality(B) \in Nat
  BY <1>2, BacklogFinite
<1>4. ASSUME NEW r \in Proc, NEW i \in 1 .. Len(OnWay(p, r))
      PROVE  <<r, Len(got[p][r]) + i>> \in B
  <2>1. r # q
    <3>1. Len(OnWay(p, q)) = 0
      BY <1>1, NothingOnWay
    <3>2. QED  BY <1>4, <3>1
  <2>2. /\ Len(got[p][r]) = Made(program[p], ip[p], Receive(r))
        /\ sent[r][p] = Made(program[r], ip[r], Send(p)) /\ sent[r][p] \in Nat
    <3>1. /\ Len(got[p][r]) + Asked(pc[p], source[p], r) = Made(program[p], ip[p], Receive(r))
          /\ sent[r][p] = Made(program[r], ip[r], Send(p)) /\ sent[r][p] \in Nat
      BY EverythingFacts
    <3>2. Asked(pc[p], source[p], r) = 0
      BY <2>1 DEF Asked
    <3>3. QED  BY <1>1, <3>1, <3>2
  <2>3. Len(got[p][r]) + Len(OnWay(p, r)) <= sent[r][p] /\ Len(OnWay(p, r)) \in Nat
    BY <1>1, NotTaken
  <2> DEFINE g == Len(got[p][r])
             w == Len(OnWay(p, r))
             last == sent[r][p]
  <2>4. g + i \in Nat /\ g < g + i /\ g + i <= last
    <3>1. g \in Nat /\ w \in Nat /\ last \in Nat /\ g + w <= last /\ i \in 1 .. w
      BY <1>1, <2>2, <2>3
    <3> HIDE DEF g, w, last
    <3>2. QED  BY <3>1
  <2>5. r \in Proc \ {q}
    BY <2>1
  <2>6. QED  BY <1>2, <2>2, <2>4, <2>5, InBacklog
<1>5. PrepostDepth <= f + Cardinality(B)
  <2> HIDE DEF B
  <2>1. QED  BY <1>1, <1>3, <1>4, VbufsTaken
<1>6. f + 1 <= u /\ f \in Nat /\ u \in Nat
  <2>1. InCall(p) /\ f \in Nat
    BY EverythingFacts
  <2>2. u \in Nat
    BY <1>2, UnreturnedCount
  <2>3. QED  BY <2>1, <2>2 DEF InCall, InCallOK
<1>7. PrepostDepth \in Nat
  BY VbufAssumption, FS_CardinalityType DEF PrepostDepth
<1>8. ~ (u + Cardinality(B) <= PrepostDepth)
  <2> DEFINE b == Cardinality(B)
  <2>1. b \in Nat /\ PrepostDepth <= f + b
    BY <1>3, <1>5
  <2> HIDE DEF b, u, f
  <2>2. ~ (u + b <= PrepostDepth)
    BY <1>6, <1>7, <2>1
  <2>3. QED  BY <2>2 DEF b
<1>9. QED  BY <1>8 DEF Room

\* A message from q to p for which there is no vbuf.
LEMMA NoRoomTo ==
  ASSUME Everything, NEW p \in Proc, NEW q \in Proc, Waits(p), srq[p] = {},
         \E i \in done[q][p] + 1 .. Len(sq[q][p]) : sq[q][p][i].kind = "send"
  PROVE  ~ Room(program, ip, p, Proc)
<1> DEFINE A == Backlog(program, ip, p, Proc)
           u == Cardinality(Unreturned(program[p], ip[p]))
           f == Len(vbuf_fetched[p])
<1>1. TypeOK /\ BuffersInv /\ FlowInv /\ lost[p] = {} /\ \A r \in Proc : Len(got[p][r]) \in Nat
  BY EverythingFacts
<1>2. ip \in [Proc -> Nat \ {0}]
  <2>1. ip \in [Proc -> Nat] /\ \A r \in Proc : ip[r] \in Nat \ {0}
    BY EverythingFacts
  <2>2. QED  BY <2>1
<1>3. IsFiniteSet(A) /\ Cardinality(A) \in Nat
  BY <1>2, BacklogFinite, Proc \in SUBSET Proc
<1>4. f \in Nat /\ u \in Nat /\ PrepostDepth \in Nat
  <2>1. PrepostDepth \in Nat
    BY VbufAssumption, FS_CardinalityType DEF PrepostDepth
  <2>2. QED  BY <1>2, <2>1, EverythingFacts, UnreturnedCount
<1>5. CASE pc[p] = "recv"
  <2> DEFINE o == source[p]
             B == Backlog(program, ip, p, Proc \ {o})
  <2>1. o \in Proc /\ pending_recv_queue[p][o] = <<>> /\ rcq[p][o] = <<>>
    <3>1. o \in Proc
      BY <1>1 DEF TypeOK
    <3>2. QED  BY <1>5, <3>1, WaitsAt
  <2>2. ~ Room(program, ip, p, Proc \ {o})
    BY <1>5, <2>1, NoRoomFrom
  <2>3. B \subseteq A
    BY DEF Backlog
  <2>4. Cardinality(B) <= Cardinality(A) /\ Cardinality(B) \in Nat
    <3> HIDE DEF A, B
    <3>1. QED  BY <1>3, <2>3, FS_Subset, FS_CardinalityType
  <2>5. ~ (u + Cardinality(B) <= PrepostDepth)
    BY <2>2 DEF Room
  <2>6. ~ (u + Cardinality(A) <= PrepostDepth)
    <3> DEFINE a == Cardinality(A)
               b == Cardinality(B)
    <3>1. a \in Nat /\ b \in Nat /\ b <= a /\ ~ (u + b <= PrepostDepth)
      BY <1>3, <2>4, <2>5
    <3> HIDE DEF a, b, u, f
    <3>2. ~ (u + a <= PrepostDepth)
      BY <1>4, <3>1
    <3>3. QED  BY <3>2 DEF a
  <2>7. QED  BY <2>6 DEF Room
<1>6. CASE pc[p] # "recv"
  <2> DEFINE last == sent[q][p]
             B == A \ {<<q, last>>}
  <2>1. \A r \in Proc : /\ Len(got[p][r]) = Made(program[p], ip[p], Receive(r))
                        /\ sent[r][p] = Made(program[r], ip[r], Send(p)) /\ sent[r][p] \in Nat
    <3>1. ASSUME NEW r \in Proc
          PROVE  /\ Len(got[p][r]) = Made(program[p], ip[p], Receive(r))
                 /\ sent[r][p] = Made(program[r], ip[r], Send(p)) /\ sent[r][p] \in Nat
      <4>1. /\ Len(got[p][r]) + Asked(pc[p], source[p], r) = Made(program[p], ip[p], Receive(r))
            /\ sent[r][p] = Made(program[r], ip[r], Send(p)) /\ sent[r][p] \in Nat
        BY EverythingFacts
      <4>2. Asked(pc[p], source[p], r) = 0
        BY <1>6 DEF Asked
      <4>3. QED  BY <1>1, <4>1, <4>2
    <3>2. QED  BY <3>1
  <2>2. Len(got[p][q]) + Len(OnWay(p, q)) < last
    BY <1>1, NotTaken
  <2>3. <<q, last>> \in A
    <3> DEFINE g == Len(got[p][q])
               w == Len(OnWay(p, q))
    <3>1. g \in Nat /\ w \in Nat /\ last \in Nat /\ g + w < last
      BY <1>1, <2>1, <2>2, NotTaken
    <3>2. g < last
      <4> HIDE DEF g, w, last
      <4>1. QED  BY <3>1
    <3>3. last <= Made(program[q], ip[q], Send(p)) /\ Made(program[p], ip[p], Receive(q)) < last
      BY <2>1, <3>1, <3>2
    <3>4. QED  BY <1>2, <3>1, <3>3, InBacklog, Proc \in SUBSET Proc
  <2>4. ASSUME NEW r \in Proc, NEW i \in 1 .. Len(OnWay(p, r))
        PROVE  <<r, Len(got[p][r]) + i>> \in B
    <3> DEFINE g == Len(got[p][r])
               w == Len(OnWay(p, r))
               l == sent[r][p]
    <3>1. g \in Nat /\ w \in Nat /\ l \in Nat /\ g + w <= l /\ i \in 1 .. w /\ (r = q => g + w < l)
      BY <1>1, <2>1, <2>2, NotTaken
    <3>2. g + i \in Nat /\ g < g + i /\ g + i <= l /\ (r = q => g + i # l)
      <4> HIDE DEF g, w, l
      <4>1. QED  BY <3>1
    <3>3. <<r, g + i>> \in A
      <4>1. Made(program[p], ip[p], Receive(r)) < g + i /\ g + i <= Made(program[r], ip[r], Send(p))
        BY <2>1, <3>2
      <4>2. g + i \in Nat
        BY <3>2
      <4> DEFINE n == g + i
      <4> HIDE DEF n
      <4>3. <<r, n>> \in A
        BY <1>2, <4>1, <4>2, InBacklog, Proc \in SUBSET Proc DEF n
      <4>4. QED  BY <4>3 DEF n
    <3>4. <<r, g + i>> # <<q, last>>
      BY <3>2
    <3>5. QED  BY <3>3, <3>4
  <2>5. IsFiniteSet(B) /\ Cardinality(B) = Cardinality(A) - 1
    <3> HIDE DEF A, last
    <3>1. QED  BY <1>3, <2>3, FS_RemoveElement
  <2>6. PrepostDepth <= f + Cardinality(B)
    <3> HIDE DEF B
    <3>1. QED  BY <1>1, <2>4, <2>5, VbufsTaken
  <2>7. f <= u
    <3>1. pc[p] # "return"
      BY <1>6, WaitsAt
    <3>2. InCall(p)
      BY EverythingFacts
    <3>3. f + 0 <= u
      BY <1>6, <3>1, <3>2 DEF InCall, InCallOK
    <3>4. QED  BY <1>4, <3>3
  <2>8. ~ (u + Cardinality(A) <= PrepostDepth)
    <3> DEFINE a == Cardinality(A)
               b == Cardinality(B)
    <3>1. a \in Nat /\ b = a - 1 /\ PrepostDepth <= f + b
      BY <1>3, <2>5, <2>6
    <3> HIDE DEF a, b, u, f
    <3>2. ~ (u + a <= PrepostDepth)
      BY <1>4, <2>7, <3>1
    <3>3. QED  BY <3>2 DEF a
  <2>9. QED  BY <2>8 DEF Room
<1>7. QED  BY <1>5, <1>6

\* Whoever waits on a QP has a send there that finds no vbuf.
LEMMA NoVbuf ==
  ASSUME Everything, NEW p \in Proc, NEW q \in Proc, Quiet(q, p), done[q][p] < Len(sq[q][p])
  PROVE  /\ srq[p] = {}
         /\ \E i \in done[q][p] + 1 .. Len(sq[q][p]) : sq[q][p][i].kind = "send"
<1>1. done[q][p] \in Nat /\ sq[q][p] \in Seq(WR)
  BY EverythingFacts, FlowTypes
<1>2. done[q][p] + 1 \in done[q][p] + 1 .. Len(sq[q][p])
  <2>1. Len(sq[q][p]) \in Nat
    BY <1>1
  <2>2. QED  BY <1>1, <2>1
<1>3. QED  BY <1>2 DEF Quiet

LEMMA WaitingStalls ==
  ASSUME Everything, \A p, q \in Proc : Waits(p) /\ Quiet(p, q), NEW p \in Proc, pc[p] # "idle"
  PROVE  ip[p] > 1 /\ Stalls(program, ip, p)
<1> DEFINE op == program[p][ip[p] - 1]
<1>1. InCall(p) /\ TypeOK /\ FlowInv /\ source[p] \in Proc
  <2>1. TypeOK
    BY EverythingFacts
  <2>2. QED  BY <2>1, EverythingFacts DEF TypeOK
<1>2. ip[p] > 1
  BY <1>1 DEF InCall, InCallOK
<1>3. CASE pc[p] = "recv"
  <2> DEFINE q == source[p]
  <2>1. op = Receive(q)
    BY <1>1, <1>3 DEF InCall, InCallOK
  <2>2. pending_recv_queue[p][q] = <<>> /\ rcq[p][q] = <<>>
    BY <1>1, <1>3, WaitsAt
  <2>3. CASE Made(program[q], ip[q], Send(p)) < Made(program[p], ip[p], Receive(q))
    <3>1. Stalls(program, ip, p)
      BY <1>1, <2>1, <2>3, Zenon DEF Stalls
    <3>2. QED  BY <1>2, <3>1
  <2>4. CASE ~ (Made(program[q], ip[q], Send(p)) < Made(program[p], ip[p], Receive(q)))
    <3>1. Len(got[p][q]) + Len(OnWay(p, q)) < sent[q][p]
      <4>1. /\ Len(got[p][q]) + 1 = Made(program[p], ip[p], Receive(q)) /\ Len(got[p][q]) \in Nat
            /\ sent[q][p] = Made(program[q], ip[q], Send(p)) /\ sent[q][p] \in Nat
        <5>1. Asked(pc[p], source[p], q) = 1
          BY <1>3 DEF Asked
        <5>2. QED  BY <1>1, <5>1, EverythingFacts
      <4>2. Len(OnWay(p, q)) = 0
        BY <1>1, <2>2, NothingOnWay
      <4> DEFINE g == Len(got[p][q])
                 w == Len(OnWay(p, q))
                 l == sent[q][p]
      <4>3. g \in Nat /\ w = 0 /\ l \in Nat /\ ~ (l < g + 1)
        BY <2>4, <4>1, <4>2
      <4> HIDE DEF g, w, l
      <4>4. g + w < l
        BY <4>3
      <4>5. QED  BY <4>4 DEF g, w, l
    <3>2. done[q][p] < Len(sq[q][p])
      BY <1>1, <3>1, NotTaken
    <3>3. srq[p] = {}
      BY <1>1, <3>2, NoVbuf
    <3>4. ~ Room(program, ip, p, Proc \ {q})
      BY <1>1, <1>3, <2>2, <3>3, NoRoomFrom
    <3>5. Stalls(program, ip, p)
      BY <1>1, <2>1, <3>4, Zenon DEF Stalls
    <3>6. QED  BY <1>2, <3>5
  <2>5. QED  BY <1>2, <2>3, <2>4
<1>4. CASE pc[p] \in {"throttle", "flush"}
  <2>1. PICK q \in Proc : sq[p][q] # <<>> /\ done[p][q] = 0
    BY <1>4, WaitsAt
  <2>2. done[p][q] < Len(sq[p][q])
    <3>1. sq[p][q] \in Seq(WR)
      BY <1>1, FlowTypes
    <3>2. QED  BY <2>1, <3>1
  <2>3. /\ srq[q] = {}
        /\ \E i \in done[p][q] + 1 .. Len(sq[p][q]) : sq[p][q][i].kind = "send"
    BY <2>2, NoVbuf
  <2>4. ~ Room(program, ip, q, Proc)
    BY <2>3, NoRoomTo
  <2>5. Made(program[p], ip[p], Send(q)) > 0
    <3> DEFINE g == Len(got[q][p])
               w == Len(OnWay(q, p))
               l == sent[p][q]
    <3>1. g \in Nat /\ w \in Nat /\ g + w < l /\ l \in Nat /\ l = Made(program[p], ip[p], Send(q))
      BY <1>1, <2>3, NotTaken, EverythingFacts
    <3> HIDE DEF g, w, l
    <3>2. l > 0
      BY <3>1
    <3>3. QED  BY <3>1, <3>2
  <2>6. op = Flush \/ \E r \in Proc : Posts(op, r)
    BY <1>1, <1>4 DEF InCall, InCallOK
  <2>7. QED  BY <1>2, <2>4, <2>5, <2>6 DEF Stalls
<1>5. QED  BY <1>2, <1>3, <1>4, WaitsAt

LEMMA RanksInStep ==
  ASSUME Everything, NEW busy, \A p \in Proc : p \in busy <=> pc[p] # "idle"
  PROVE  InStep(program, ip, busy)
<1>1. ASSUME NEW p \in Proc, NEW q \in Proc
      PROVE  Made(program[p], IF p \in busy THEN ip[p] - 1 ELSE ip[p], Receive(q))
               <= Made(program[q], ip[q], Send(p))
  <2> DEFINE g == Len(got[p][q])
             w == Len(OnWay(p, q))
             l == sent[q][p]
             a == Asked(pc[p], source[p], q)
             m == Made(program[p], ip[p], Receive(q))
             m1 == Made(program[p], ip[p] - 1, Receive(q))
  <2>1. /\ g \in Nat /\ w \in Nat /\ g + w <= l /\ l \in Nat /\ l = Made(program[q], ip[q], Send(p))
        /\ g + a = m
    BY EverythingFacts, NotTaken
  <2>2. g <= l
    <3> HIDE DEF g, w, l
    <3>1. QED  BY <2>1
  <2>3. CASE pc[p] = "idle"
    <3>1. a = 0
      BY <2>3 DEF Asked
    <3>2. m = g
      <4> HIDE DEF g, a, m
      <4>1. QED  BY <2>1, <3>1
    <3>3. QED  BY <2>1, <2>2, <2>3, <3>2
  <2>4. CASE pc[p] # "idle"
    <3>1. InCall(p) /\ ip[p] \in Nat
      BY EverythingFacts
    <3>2. ip[p] - 1 \in Nat \ {0} /\ (ip[p] - 1) + 1 = ip[p]
      BY <2>4, <3>1 DEF InCall, InCallOK
    <3>3. m1 \in Nat /\ m = m1 + (IF program[p][ip[p] - 1] = Receive(q) THEN 1 ELSE 0)
      <4> DEFINE i == ip[p] - 1
      <4>1. Made(program[p], i, Receive(q)) \in Nat /\ Made(program[p], i + 1, Receive(q)) =
              Made(program[p], i, Receive(q)) + (IF program[p][i] = Receive(q) THEN 1 ELSE 0)
        <5>1. i \in Nat \ {0}
          BY <3>2
        <5> HIDE DEF i
        <5>2. QED  BY <5>1, MadeNext
      <4>2. i + 1 = ip[p]
        BY <3>2
      <4>3. QED  BY <4>1, <4>2
    <3>4. a = 0 \/ (a = 1 /\ program[p][ip[p] - 1] = Receive(q))
      BY <3>1 DEF Asked, InCall, InCallOK
    <3>5. m1 <= g
      <4> HIDE DEF g, a, m, m1
      <4>1. CASE a = 0
        BY <2>1, <3>3, <4>1
      <4>2. CASE a = 1 /\ program[p][ip[p] - 1] = Receive(q)
        BY <2>1, <3>3, <4>2
      <4>3. QED  BY <3>4, <4>1, <4>2
    <3>6. m1 <= l
      <4> HIDE DEF g, l, m1
      <4>1. QED  BY <2>1, <2>2, <3>3, <3>5
    <3>7. QED  BY <2>1, <2>4, <3>6
  <2>5. QED  BY <2>3, <2>4
<1>2. SameBarriers
  BY EverythingFacts
<1>3. QED  BY <1>1, <1>2 DEF InStep, SameBarriers

LEMMA StuckIsOver ==
  ASSUME Everything, KeepsGoing(program)
  PROVE  NeverStuck
<1> SUFFICES ASSUME \A p, q \in Proc : Waits(p) /\ Quiet(p, q)
             PROVE  AllAtBarrier \/ Finished
  BY DEF NeverStuck
<1> DEFINE busy == {p \in Proc : pc[p] # "idle"}
<1>1. /\ program \in [Proc -> Seq(Operation)] /\ ip \in [Proc -> Nat]
      /\ \A p \in Proc : ip[p] \in 1 .. Len(program[p]) + 1 /\ Len(program[p]) \in Nat
  BY EverythingFacts
<1>2. ip \in Indices(program)
  <2>1. \A p \in Proc : ip[p] \in UNION {1 .. Len(program[o]) + 1 : o \in Proc}
    BY <1>1
  <2>2. ip \in [Proc -> UNION {1 .. Len(program[o]) + 1 : o \in Proc}]
    BY <1>1, <2>1
  <2>3. \A p \in Proc : ip[p] <= Len(program[p]) + 1
    BY <1>1
  <2>4. QED  BY <2>2, <2>3 DEF Indices
<1>3. InStep(program, ip, busy)
  BY RanksInStep
<1>4. \A p \in busy : ip[p] > 1 /\ Stalls(program, ip, p)
  BY WaitingStalls
<1>5. ASSUME NEW p \in Proc \ busy
      PROVE  AtBarrier(program, ip, p) \/ AtEnd(program, ip, p)
  <2>1. pc[p] = "idle" /\ (Running(p) => NextCall(p) = "MPI_Barrier")
    BY WaitsAt
  <2>2. CASE Running(p)
    <3>1. program[p][ip[p]] \in Operation
      <4>1. ip[p] \in 1 .. Len(program[p]) /\ program[p] \in Seq(Operation)
        BY <1>1, <2>2 DEF Running
      <4>2. QED  BY <4>1
    <3>2. QED  BY <2>1, <2>2, <3>1, OperationCases DEF AtBarrier, Running, NextCall
  <2>3. CASE ~ Running(p)
    BY <1>1, <2>3 DEF AtEnd, Running
  <2>4. QED  BY <2>2, <2>3
<1>6. \/ busy = {} /\ \A p \in Proc : AtBarrier(program, ip, p)
      \/ busy = {} /\ \A p \in Proc : AtEnd(program, ip, p)
  <2>1. busy \in SUBSET Proc
    OBVIOUS
  <2> HIDE DEF busy
  <2>2. QED  BY <1>2, <1>3, <1>4, <1>5, <2>1 DEF KeepsGoing
<1>7. CASE busy = {} /\ \A p \in Proc : AtBarrier(program, ip, p)
  <2>1. ASSUME NEW p \in Proc PROVE Running(p) /\ NextCall(p) = "MPI_Barrier" /\ At(p, "idle")
    <3>1. Barrier.call = "MPI_Barrier"
      BY DEF Barrier
    <3>2. QED  BY <1>7, <3>1 DEF AtBarrier, Running, NextCall, At
  <2>2. QED  BY <2>1 DEF AllAtBarrier
<1>8. CASE busy = {} /\ \A p \in Proc : AtEnd(program, ip, p)
  BY <1>1, <1>8 DEF AtEnd, Finished, Running, At
<1>9. QED  BY <1>6, <1>7, <1>8

(***************************************************************************)
(* A program that would come to its end if calls and barriers were all     *)
(* there is (KeepsGoing: with what its lists say of messages and of the    *)
(* number of vbufs) does not get stuck on the core either, if its posts    *)
(* succeed and no verbs call fails: the throttle of a post, which waits    *)
(* for completions of any QP (lines 869-878), the flush, which waits for   *)
(* those of all QPs (lines 886-895), and a completion queue that holds     *)
(* sends and receives alike add no way for everyone to wait for everyone.  *)
(* (As long as the completions find place there: see OverrunCorrect.)      *)
(***************************************************************************)
THEOREM NeverStuckCorrect ==
  ASSUME Programs \subseteq [Proc -> Seq(Operation)],
         \A prog \in Programs : Throttled(prog) /\ KeepsGoing(prog)
  PROVE  AppSafety => [](faults = 0 => NeverStuck)
<1>1. Typed
  BY DEF Typed
<1>2. (\A prog \in Programs : Throttled(prog)) /\ (\A prog \in Programs : KeepsGoing(prog))
  OBVIOUS
<1>3. AppInv /\ CoreInv /\ WaitInv /\ BatchInv /\ ThrottleInv => (faults = 0 => NeverStuck)
  <2> SUFFICES ASSUME AppInv, CoreInv, WaitInv, BatchInv, ThrottleInv, faults = 0
               PROVE  NeverStuck
    OBVIOUS
  <2>1. Everything
    BY <1>1 DEF Everything
  <2>2. KeepsGoing(program)
    BY <1>2 DEF AppInv
  <2>3. QED  BY <2>1, <2>2, StuckIsOver
<1>4. AppSafety => [](AppInv /\ CoreInv /\ WaitInv /\ BatchInv /\ ThrottleInv)
  BY <1>1, <1>2, WaitInvariant
<1>5. QED  BY <1>3, <1>4, PTL
=============================================================================
