--------------------------- MODULE LinkedListProofs ---------------------------
(***************************************************************************)
(* Proofs about the queue of include/linkedlist.h for every pool size and  *)
(* every set of elements: its chains stay well formed, no node is lost,    *)
(* and the pointer structure implements the bounded FIFO queue.            *)
(***************************************************************************)
EXTENDS LinkedList, SequenceTheorems, TLAPS

(* The three invariants together are inductive: a step of the pointers is  *)
(* only right when the chains are disjoint and their tails are exact.      *)
Inv == TypeOK /\ ChainsLinked /\ NodesConserved

(* A chain is a function on its positions. *)
LEMMA ChainLen ==
  ASSUME NEW c \in Seq(Node)
  PROVE  Len(c) \in Nat /\ \A i \in 1 .. Len(c) : c[i] \in Node
  OBVIOUS

(* What is left of a chain once the node behind its sentinel is taken. *)
LEMMA WithoutSecondFacts ==
  ASSUME NEW c \in Seq(Node), Len(c) >= 2
  PROVE  /\ WithoutSecond(c) \in Seq(Node)
         /\ Len(WithoutSecond(c)) = Len(c) - 1
         /\ \A i \in 1 .. Len(c) - 1 :
               WithoutSecond(c)[i] = IF i = 1 THEN c[1] ELSE c[i + 1]
<1>1. Len(c) - 1 \in Nat OBVIOUS
<1>2. WithoutSecond(c) \in [1 .. Len(c) - 1 -> Node] BY <1>1 DEF WithoutSecond
<1>3. WithoutSecond(c) \in Seq(Node) BY <1>1, <1>2, SeqDef
<1>4. DOMAIN WithoutSecond(c) = 1 .. Len(c) - 1 BY DEF WithoutSecond
<1>5. Len(WithoutSecond(c)) = Len(c) - 1 BY <1>1, <1>3, <1>4, LenProperties
<1>6. \A i \in 1 .. Len(c) - 1 : WithoutSecond(c)[i] = IF i = 1 THEN c[1] ELSE c[i + 1]
  BY DEF WithoutSecond
<1> QED BY <1>3, <1>5, <1>6

(* What hanging a node behind a chain gives. *)
LEMMA AppendFacts ==
  ASSUME NEW c \in Seq(Node), NEW n \in Node
  PROVE  /\ Append(c, n) \in Seq(Node)
         /\ Len(Append(c, n)) = Len(c) + 1
         /\ \A i \in 1 .. Len(c) + 1 : Append(c, n)[i] = IF i <= Len(c) THEN c[i] ELSE n
  OBVIOUS

(* What hanging a whole chain, without its sentinel, behind another gives. *)
LEMMA ConcatFacts ==
  ASSUME NEW f \in Seq(Node), NEW q \in Seq(Node), Len(q) >= 1
  PROVE  /\ f \o Tail(q) \in Seq(Node)
         /\ Len(f \o Tail(q)) = Len(f) + Len(q) - 1
         /\ \A i \in 1 .. Len(f) + Len(q) - 1 :
               (f \o Tail(q))[i] = IF i <= Len(f) THEN f[i] ELSE q[i - Len(f) + 1]
<1>1. q # <<>> OBVIOUS
<1>2. /\ Tail(q) \in Seq(Node) /\ Len(Tail(q)) = Len(q) - 1
      /\ \A i \in 1 .. Len(Tail(q)) : Tail(q)[i] = q[i + 1]
  BY <1>1, HeadTailProperties
<1>3. /\ f \o Tail(q) \in Seq(Node)
      /\ Len(f \o Tail(q)) = Len(f) + Len(Tail(q))
      /\ \A i \in 1 .. Len(f) + Len(Tail(q)) :
            (f \o Tail(q))[i] = IF i <= Len(f) THEN f[i] ELSE Tail(q)[i - Len(f)]
  BY <1>2, ConcatProperties
<1> QED BY <1>2, <1>3

(* Moving the node behind the sentinel of chain a to the end of chain b    *)
(* keeps the chains apart.  Enqueue and dequeue are this move, each in its *)
(* own direction.                                                          *)
LEMMA MoveApart ==
  ASSUME NEW a \in Seq(Node), NEW b \in Seq(Node), Len(a) >= 2, Apart(a, b)
  PROVE  Apart(WithoutSecond(a), Append(b, a[2]))
<1> DEFINE rest == WithoutSecond(a)
           bs == Append(b, a[2])
<1>0. Len(a) \in Nat /\ Len(b) \in Nat
  BY ChainLen
<1>1. a[2] \in Node
  BY <1>0, ChainLen
<1>2. rest \in Seq(Node) /\ Len(rest) = Len(a) - 1
      /\ \A i \in 1 .. Len(a) - 1 : rest[i] = IF i = 1 THEN a[1] ELSE a[i + 1]
  BY WithoutSecondFacts
<1>3. bs \in Seq(Node) /\ Len(bs) = Len(b) + 1
      /\ \A i \in 1 .. Len(b) + 1 : bs[i] = IF i <= Len(b) THEN b[i] ELSE a[2]
  BY <1>1, AppendFacts
<1> HIDE DEF rest, bs
<1>4. Distinct(rest)
  <2> SUFFICES ASSUME NEW i \in 1 .. Len(rest), NEW j \in 1 .. Len(rest), rest[i] = rest[j]
               PROVE  i = j
    BY DEF Distinct
  <2> DEFINE ki == IF i = 1 THEN 1 ELSE i + 1
             kj == IF j = 1 THEN 1 ELSE j + 1
  <2>1. ki \in 1 .. Len(a) /\ kj \in 1 .. Len(a) BY <1>0, <1>2
  <2>2. rest[i] = a[ki] /\ rest[j] = a[kj] BY <1>2
  <2>3. ki = kj BY <2>1, <2>2 DEF Apart, Distinct
  <2> QED BY <2>3, <1>0, <1>2
<1>5. Distinct(bs)
  <2>1. \A j \in 1 .. Len(b) : b[j] # a[2] BY <1>0 DEF Apart
  <2> QED BY <1>0, <1>3, <2>1 DEF Apart, Distinct
<1>6. ASSUME NEW i \in 1 .. Len(rest), NEW j \in 1 .. Len(bs) PROVE rest[i] # bs[j]
  <2>1. PICK k \in 1 .. Len(a) : rest[i] = a[k] /\ k # 2
    <3> DEFINE k == IF i = 1 THEN 1 ELSE i + 1
    <3>1. k \in 1 .. Len(a) /\ k # 2 BY <1>0, <1>2
    <3>2. rest[i] = a[k] BY <1>2
    <3> QED BY <3>1, <3>2
  <2>2. CASE j <= Len(b)
    <3>1. bs[j] = b[j] /\ j \in 1 .. Len(b) BY <2>2, <1>0, <1>3
    <3> QED BY <2>1, <3>1 DEF Apart
  <2>3. CASE ~(j <= Len(b))
    <3>1. bs[j] = a[2] BY <2>3, <1>0, <1>3
    <3>2. a[k] # a[2] BY <2>1, <1>0 DEF Apart, Distinct
    <3> QED BY <2>1, <3>1, <3>2
  <2> QED BY <2>2, <2>3
<1> QED BY <1>4, <1>5, <1>6 DEF Apart, rest, bs

(* The pointer writes of that move: the node behind the sentinel of a goes *)
(* behind btail, and a's tail falls back to its sentinel when a runs empty. *)
MovePointers(nx, a, btail) ==
  [nx EXCEPT ![a[1]] = nx[a[2]], ![a[2]] = NULL, ![btail] = a[2]]
MoveTail(nx, a, atail) == IF nx[a[2]] = NULL THEN a[1] ELSE atail

(* Being a chain, as a name: the provers see what it means where it is used. *)
IsChain(c) == c \in Seq(Node)

(* These writes leave both chains linked. *)
LEMMA MoveLinked ==
  ASSUME NEW a, NEW b, IsChain(a), IsChain(b), NEW nx \in [Node -> Node \cup {NULL}],
         NEW atail, NEW btail,
         Len(a) >= 2, Apart(a, b), Linked(nx, a, atail), Linked(nx, b, btail)
  PROVE  /\ MovePointers(nx, a, btail) \in [Node -> Node \cup {NULL}]
         /\ Linked(MovePointers(nx, a, btail), WithoutSecond(a), MoveTail(nx, a, atail))
         /\ Linked(MovePointers(nx, a, btail), Append(b, a[2]), a[2])
<1> DEFINE rest == WithoutSecond(a)
           bs == Append(b, a[2])
           la == Len(a)
           lb == Len(b)
           nx2 == MovePointers(nx, a, btail)
           atail2 == MoveTail(nx, a, atail)
<1>0. la \in Nat /\ lb \in Nat /\ lb >= 1 /\ la >= 2
  BY ChainLen DEF Linked, IsChain
<1>1. /\ \A i \in 1 .. la : a[i] \in Node
      /\ \A i \in 1 .. lb : b[i] \in Node
  BY ChainLen DEF IsChain
<1>2. rest \in Seq(Node) /\ Len(rest) = la - 1
      /\ \A i \in 1 .. la - 1 : rest[i] = IF i = 1 THEN a[1] ELSE a[i + 1]
  BY WithoutSecondFacts DEF IsChain
<1>3. bs \in Seq(Node) /\ Len(bs) = lb + 1
      /\ \A i \in 1 .. lb + 1 : bs[i] = IF i <= lb THEN b[i] ELSE a[2]
  BY <1>0, <1>1, AppendFacts DEF IsChain
<1>4. /\ btail = b[lb] /\ nx[b[lb]] = NULL /\ \A i \in 1 .. lb - 1 : nx[b[i]] = b[i + 1]
      /\ atail = a[la] /\ nx[a[la]] = NULL /\ \A i \in 1 .. la - 1 : nx[a[i]] = a[i + 1]
  BY DEF Linked
<1>5. /\ \A i, j \in 1 .. la : a[i] = a[j] => i = j
      /\ \A i, j \in 1 .. lb : b[i] = b[j] => i = j
      /\ \A i \in 1 .. la, j \in 1 .. lb : a[i] # b[j]
  BY DEF Apart, Distinct
<1> HIDE DEF rest, bs, la, lb, nx2, atail2
<1>6. nx2 \in [Node -> Node \cup {NULL}]
  BY <1>0, <1>1, <1>4 DEF nx2, MovePointers
<1>7. /\ \A i \in 3 .. la : nx2[a[i]] = nx[a[i]]
      /\ \A i \in 1 .. lb - 1 : nx2[b[i]] = nx[b[i]]
      /\ nx2[a[1]] = nx[a[2]] /\ nx2[a[2]] = NULL /\ nx2[b[lb]] = a[2]
  <2>1. a[1] \in Node /\ a[2] \in Node /\ btail \in Node
        /\ a[1] # a[2] /\ a[1] # btail /\ a[2] # btail
    BY <1>0, <1>1, <1>4, <1>5
  <2>2. \A i \in 3 .. la : a[i] \in Node /\ a[i] # a[1] /\ a[i] # a[2] /\ a[i] # btail
    BY <1>0, <1>1, <1>4, <1>5
  <2>3. \A i \in 1 .. lb - 1 : b[i] \in Node /\ b[i] # a[1] /\ b[i] # a[2] /\ b[i] # btail
    BY <1>0, <1>1, <1>4, <1>5
  <2> QED BY <2>1, <2>2, <2>3, <1>4 DEF nx2, MovePointers
<1>8. Linked(nx2, bs, a[2])
  <2>1. ASSUME NEW i \in 1 .. lb PROVE nx2[bs[i]] = bs[i + 1]
    <3>1. CASE i < lb
      <4>1. bs[i] = b[i] /\ bs[i + 1] = b[i + 1] BY <3>1, <1>0, <1>3
      <4>2. nx[b[i]] = b[i + 1] /\ nx2[b[i]] = nx[b[i]] BY <3>1, <1>0, <1>4, <1>7
      <4> QED BY <4>1, <4>2
    <3>2. CASE i = lb
      BY <3>2, <1>0, <1>3, <1>7
    <3> QED BY <3>1, <3>2, <1>0
  <2>2. nx2[bs[lb + 1]] = NULL /\ a[2] = bs[lb + 1] BY <1>0, <1>3, <1>7
  <2> QED BY <2>1, <2>2, <1>0, <1>3 DEF Linked
<1>9. Linked(nx2, rest, atail2)
  <2>1. rest[1] = a[1] BY <1>0, <1>2
  <2>2. CASE la = 2
    <3>1. nx[a[2]] = NULL /\ atail2 = a[1] BY <2>2, <1>4 DEF atail2, MoveTail
    <3>2. Len(rest) = 1 BY <2>2, <1>2
    <3> QED BY <2>1, <3>1, <3>2, <1>7 DEF Linked
  <2>3. CASE la >= 3
    <3>1. nx[a[2]] = a[3] /\ a[3] \in Node BY <2>3, <1>0, <1>1, <1>4
    <3>2. a[3] # NULL BY <3>1, PoolSizeAssumption DEF Node, NULL
    <3>3. atail2 = a[la] BY <3>1, <3>2, <1>4 DEF atail2, MoveTail
    <3>4. ASSUME NEW i \in 1 .. la - 2 PROVE nx2[rest[i]] = rest[i + 1]
      <4>1. rest[i + 1] = a[i + 2] BY <1>0, <1>2
      <4>2. CASE i = 1 BY <4>1, <4>2, <2>1, <3>1, <1>7
      <4>3. CASE i >= 2
        <5>1. rest[i] = a[i + 1] BY <4>3, <1>0, <1>2
        <5>2. nx[a[i + 1]] = a[(i + 1) + 1] /\ nx2[a[i + 1]] = nx[a[i + 1]]
          BY <4>3, <1>0, <1>4, <1>7
        <5> QED BY <4>1, <5>1, <5>2
      <4> QED BY <4>2, <4>3, <1>0
    <3>5. rest[la - 1] = a[la] BY <2>3, <1>0, <1>2
    <3>6. nx2[a[la]] = NULL BY <2>3, <1>0, <1>4, <1>7
    <3> QED BY <3>3, <3>4, <3>5, <3>6, <1>0, <1>2 DEF Linked
  <2> QED BY <2>2, <2>3, <1>0
<1> QED BY <1>6, <1>8, <1>9 DEF rest, bs, nx2, atail2

LEMMA InitInv == Init => Inv
<1> SUFFICES ASSUME Init PROVE Inv OBVIOUS
<1> USE PoolSizeAssumption DEF Init
<1>1. fchain \in Seq(Node) /\ Len(fchain) = PoolSize + 1
  <2>1. fchain \in [1 .. PoolSize + 1 -> Node] /\ DOMAIN fchain = 1 .. PoolSize + 1
    BY DEF Node
  <2>2. fchain \in Seq(Node) BY <2>1, SeqDef
  <2> QED BY <2>1, <2>2, LenProperties
<1>2. qchain \in Seq(Node) /\ Len(qchain) = 1 /\ qchain[1] = QHead BY DEF Node, QHead
<1>3. TypeOK BY <1>1, <1>2 DEF TypeOK, Node, NULL, QHead, Elem
<1>4. ChainsLinked BY <1>1, <1>2 DEF ChainsLinked, Linked, Node, NULL, QHead, FHead
<1>5. NodesConserved BY <1>1, <1>2 DEF NodesConserved, Apart, Distinct, QHead
<1> QED BY <1>3, <1>4, <1>5 DEF Inv

(* Apart is symmetric. *)
LEMMA ApartSym == ASSUME NEW c, NEW d, Apart(c, d) PROVE Apart(d, c)
  BY DEF Apart

(* Taking the first free node and hanging it behind the queue. *)
LEMMA EnqueueInv ==
  ASSUME Inv, NEW v \in Value, enqueue(v)
  PROVE  /\ Inv'
         /\ next[FHead] = fchain[2] /\ Len(fchain) >= 2
<1> USE DEF Inv
<1>1. Len(fchain) >= 2 /\ next[FHead] = fchain[2]
  <2>1. Len(fchain) \in Nat /\ ~(Len(fchain) <= 1) /\ Len(fchain) >= 1
    BY ChainLen DEF TypeOK, enqueue, ChainsLinked, Linked
  <2>2. next[fchain[1]] = fchain[1 + 1]
    <3>1. 1 \in 1 .. Len(fchain) - 1 BY <2>1
    <3> QED BY <3>1 DEF ChainsLinked, Linked
  <2>3. fchain[1 + 1] = fchain[2] OBVIOUS
  <2>4. Len(fchain) >= 2 BY <2>1
  <2> QED BY <2>2, <2>3, <2>4 DEF ChainsLinked
<1>2. /\ qchain' = Append(qchain, fchain[2]) /\ fchain' = WithoutSecond(fchain)
      /\ next' = [next EXCEPT ![fchain[1]] = next[fchain[2]], ![fchain[2]] = NULL,
                             ![qtail] = fchain[2]]
      /\ qtail' = fchain[2]
      /\ ftail' = IF next[fchain[2]] = NULL THEN fchain[1] ELSE ftail
      /\ elem' = [elem EXCEPT ![fchain[2]] = v]
      /\ UNCHANGED <<ret, status, cell, alive>>
  BY <1>1 DEF enqueue, ChainsLinked
<1>3. Apart(fchain, qchain) BY ApartSym DEF NodesConserved
<1>4. Apart(fchain', qchain')
  BY <1>1, <1>2, <1>3, MoveApart DEF TypeOK
<1>5. /\ next' \in [Node -> Node \cup {NULL}]
      /\ Linked(next', fchain', ftail') /\ Linked(next', qchain', qtail')
  <2>1. next' = MovePointers(next, fchain, qtail) /\ ftail' = MoveTail(next, fchain, ftail)
    BY <1>2 DEF MovePointers, MoveTail
  <2>2. /\ IsChain(fchain) /\ IsChain(qchain) /\ next \in [Node -> Node \cup {NULL}]
        /\ Linked(next, fchain, ftail) /\ Linked(next, qchain, qtail)
    BY DEF IsChain, TypeOK, ChainsLinked
  <2>3. /\ MovePointers(next, fchain, qtail) \in [Node -> Node \cup {NULL}]
        /\ Linked(MovePointers(next, fchain, qtail), WithoutSecond(fchain),
                  MoveTail(next, fchain, ftail))
        /\ Linked(MovePointers(next, fchain, qtail), Append(qchain, fchain[2]), fchain[2])
    BY <1>1, <1>3, <2>2, MoveLinked
  <2>4. /\ qchain' = Append(qchain, fchain[2]) /\ fchain' = WithoutSecond(fchain)
        /\ qtail' = fchain[2]
    BY <1>2
  <2> QED BY <2>1, <2>3, <2>4
<1>6. /\ qchain' \in Seq(Node) /\ fchain' \in Seq(Node) /\ fchain[2] \in Node
      /\ Len(qchain') + Len(fchain') = PoolSize + 2
      /\ qchain'[1] = QHead /\ fchain'[1] = FHead
  <2>1. fchain[2] \in Node /\ Len(fchain) \in Nat /\ Len(qchain) \in Nat /\ Len(qchain) >= 1
    BY <1>1, ChainLen DEF TypeOK, ChainsLinked, Linked
  <2>2. qchain' \in Seq(Node) /\ Len(qchain') = Len(qchain) + 1 /\ qchain'[1] = qchain[1]
    BY <2>1, <1>2, AppendFacts DEF TypeOK
  <2>3. fchain' \in Seq(Node) /\ Len(fchain') = Len(fchain) - 1 /\ fchain'[1] = fchain[1]
    BY <2>1, <1>1, <1>2, WithoutSecondFacts DEF TypeOK
  <2> QED BY <2>1, <2>2, <2>3 DEF ChainsLinked, NodesConserved
<1>7. TypeOK'
  <2>1. qtail' \in Node /\ ftail' \in Node
    <3>1. fchain[1] \in Node BY <1>1, ChainLen DEF TypeOK
    <3> QED BY <3>1, <1>2, <1>6 DEF TypeOK
  <2> QED BY <2>1, <1>2, <1>5, <1>6 DEF TypeOK, Elem
<1> QED BY <1>1, <1>4, <1>5, <1>6, <1>7, ApartSym DEF ChainsLinked, NodesConserved

(* Taking the first queued node and hanging it behind the free list. *)
LEMMA UnlinkInv ==
  ASSUME Inv, unlink_first, QHead # qtail
  PROVE  /\ ChainsLinked' /\ NodesConserved'
         /\ qtail' \in Node /\ ftail' \in Node
         /\ next' \in [Node -> Node \cup {NULL}] /\ elem' \in [Node -> Elem]
         /\ qchain' \in Seq(Node) /\ fchain' \in Seq(Node)
         /\ next[QHead] = qchain[2] /\ Len(qchain) >= 2
<1> USE DEF Inv
<1>1. Len(qchain) >= 2 /\ next[QHead] = qchain[2]
  <2>1. Len(qchain) \in Nat /\ ~(Len(qchain) <= 1) /\ Len(qchain) >= 1
    BY ChainLen DEF TypeOK, ChainsLinked, Linked
  <2>2. next[qchain[1]] = qchain[1 + 1]
    <3>1. 1 \in 1 .. Len(qchain) - 1 BY <2>1
    <3> QED BY <3>1 DEF ChainsLinked, Linked
  <2>3. qchain[1 + 1] = qchain[2] OBVIOUS
  <2>4. Len(qchain) >= 2 BY <2>1
  <2> QED BY <2>2, <2>3, <2>4 DEF ChainsLinked
<1>2. /\ fchain' = Append(fchain, qchain[2]) /\ qchain' = WithoutSecond(qchain)
      /\ next' = [next EXCEPT ![qchain[1]] = next[qchain[2]], ![qchain[2]] = NULL,
                             ![ftail] = qchain[2]]
      /\ ftail' = qchain[2]
      /\ qtail' = IF next[qchain[2]] = NULL THEN qchain[1] ELSE qtail
      /\ elem' = [elem EXCEPT ![qchain[2]] = Zero]
  BY <1>1 DEF unlink_first, ChainsLinked
<1>3. Apart(qchain', fchain')
  BY <1>1, <1>2, MoveApart DEF TypeOK, NodesConserved
<1>4. /\ next' \in [Node -> Node \cup {NULL}]
      /\ Linked(next', fchain', ftail') /\ Linked(next', qchain', qtail')
  <2>1. next' = MovePointers(next, qchain, ftail) /\ qtail' = MoveTail(next, qchain, qtail)
    BY <1>2 DEF MovePointers, MoveTail
  <2>2. /\ IsChain(fchain) /\ IsChain(qchain) /\ next \in [Node -> Node \cup {NULL}]
        /\ Linked(next, fchain, ftail) /\ Linked(next, qchain, qtail) /\ Apart(qchain, fchain)
    BY DEF IsChain, TypeOK, ChainsLinked, NodesConserved
  <2>3. /\ MovePointers(next, qchain, ftail) \in [Node -> Node \cup {NULL}]
        /\ Linked(MovePointers(next, qchain, ftail), WithoutSecond(qchain),
                  MoveTail(next, qchain, qtail))
        /\ Linked(MovePointers(next, qchain, ftail), Append(fchain, qchain[2]), qchain[2])
    BY <1>1, <2>2, MoveLinked
  <2>4. /\ fchain' = Append(fchain, qchain[2]) /\ qchain' = WithoutSecond(qchain)
        /\ ftail' = qchain[2]
    BY <1>2
  <2> QED BY <2>1, <2>3, <2>4
<1>5. /\ qchain' \in Seq(Node) /\ fchain' \in Seq(Node) /\ qchain[2] \in Node
      /\ Len(qchain') + Len(fchain') = PoolSize + 2
      /\ qchain'[1] = QHead /\ fchain'[1] = FHead
  <2>1. qchain[2] \in Node /\ Len(fchain) \in Nat /\ Len(qchain) \in Nat /\ Len(fchain) >= 1
    BY <1>1, ChainLen DEF TypeOK, ChainsLinked, Linked
  <2>2. fchain' \in Seq(Node) /\ Len(fchain') = Len(fchain) + 1 /\ fchain'[1] = fchain[1]
    BY <2>1, <1>2, AppendFacts DEF TypeOK
  <2>3. qchain' \in Seq(Node) /\ Len(qchain') = Len(qchain) - 1 /\ qchain'[1] = qchain[1]
    BY <2>1, <1>1, <1>2, WithoutSecondFacts DEF TypeOK
  <2> QED BY <2>1, <2>2, <2>3 DEF ChainsLinked, NodesConserved
<1>6. qtail' \in Node /\ ftail' \in Node /\ elem' \in [Node -> Elem]
  <2>1. qchain[1] = QHead /\ QHead \in Node
    BY PoolSizeAssumption DEF ChainsLinked, QHead, Node
  <2>2. qtail \in Node /\ elem \in [Node -> Elem] /\ Zero \in Elem
    BY DEF TypeOK, Elem
  <2>3. elem' \in [Node -> Elem]
    BY <1>2, <2>2
  <2> QED BY <1>2, <1>5, <2>1, <2>2, <2>3
<1> QED BY <1>1, <1>3, <1>4, <1>5, <1>6 DEF ChainsLinked, NodesConserved

(* Handing the whole queue to the free list. *)
LEMMA ClearInv ==
  ASSUME Inv, clear
  PROVE  Inv'
<1> USE PoolSizeAssumption DEF Inv
<1> DEFINE cat == fchain \o Tail(qchain)
           lf == Len(fchain)
           lq == Len(qchain)
<1>1. /\ lq \in Nat /\ lf \in Nat /\ lq >= 1 /\ lf >= 1
      /\ \A i \in 1 .. lq : qchain[i] \in Node
      /\ \A i \in 1 .. lf : fchain[i] \in Node
  BY ChainLen DEF TypeOK, ChainsLinked, Linked
<1>2. /\ cat \in Seq(Node) /\ Len(cat) = lf + lq - 1
      /\ \A i \in 1 .. lf + lq - 1 : cat[i] = IF i <= lf THEN fchain[i] ELSE qchain[i - lf + 1]
  BY <1>1, ConcatFacts DEF TypeOK
<1>3. /\ fchain' = cat /\ qchain' = <<QHead>> /\ qtail' = QHead
      /\ UNCHANGED <<elem, ret, status, cell, alive>>
  BY DEF clear
<1>4. qchain' \in Seq(Node) /\ Len(qchain') = 1 /\ qchain'[1] = QHead /\ QHead \in Node
  BY <1>3 DEF QHead, Node
<1>5. /\ next' = [next EXCEPT ![ftail] = IF lq >= 2 THEN qchain[2] ELSE NULL, ![QHead] = NULL]
      /\ ftail' = IF lq >= 2 THEN qtail ELSE ftail
  <2>1. CASE lq = 1
    <3>1. next[QHead] = NULL /\ next[ftail] = NULL BY <2>1 DEF ChainsLinked, Linked
    <3> QED BY <2>1, <3>1 DEF clear, TypeOK
  <2>2. CASE lq >= 2
    <3>1. next[qchain[1]] = qchain[1 + 1] BY <2>2, <1>1 DEF ChainsLinked, Linked
    <3>2. next[QHead] = qchain[2] /\ qchain[2] # NULL
      BY <2>2, <3>1, <1>1 DEF ChainsLinked, Node, NULL
    <3> QED BY <2>2, <3>2 DEF clear
  <2> HIDE DEF cat, lf, lq
  <2>3. lq \in Nat /\ lq >= 1 BY <1>1
  <2>4. lq = 1 \/ lq >= 2 BY <2>3
  <2> QED BY <2>1, <2>2, <2>4
<1> HIDE DEF cat, lf, lq
<1>6. ftail = fchain[lf] /\ qtail = qchain[lq] /\ lf = Len(fchain) /\ lq = Len(qchain)
  BY DEF ChainsLinked, Linked, lf, lq
<1>7. TypeOK'
  <2>1. qtail' \in Node /\ ftail' \in Node BY <1>3, <1>4, <1>5 DEF TypeOK
  <2>2. next' \in [Node -> Node \cup {NULL}]
    <3>1. lq >= 2 => qchain[2] \in Node BY <1>1
    <3> QED BY <3>1, <1>4, <1>5 DEF TypeOK
  <2> QED BY <2>1, <2>2, <1>2, <1>3, <1>4 DEF TypeOK
<1>8. NodesConserved'
  <2>1. Len(qchain') + Len(fchain') = PoolSize + 2
    BY <1>1, <1>2, <1>3, <1>4, <1>6 DEF NodesConserved
  <2>2. Distinct(qchain') BY <1>4 DEF Distinct
  <2>3. Distinct(cat)
    <3> SUFFICES ASSUME NEW i \in 1 .. Len(cat), NEW j \in 1 .. Len(cat), cat[i] = cat[j]
                 PROVE  i = j
      BY DEF Distinct
    <3>1. CASE i <= lf /\ j <= lf
      BY <3>1, <1>1, <1>2, <1>6 DEF NodesConserved, Apart, Distinct
    <3>2. CASE i <= lf /\ j > lf
      <4>1. cat[i] = fchain[i] /\ cat[j] = qchain[j - lf + 1]
            /\ i \in 1 .. lf /\ j - lf + 1 \in 1 .. lq
        BY <3>2, <1>1, <1>2
      <4> QED BY <4>1, <1>6 DEF NodesConserved, Apart
    <3>3. CASE i > lf /\ j <= lf
      <4>1. cat[j] = fchain[j] /\ cat[i] = qchain[i - lf + 1]
            /\ j \in 1 .. lf /\ i - lf + 1 \in 1 .. lq
        BY <3>3, <1>1, <1>2
      <4> QED BY <4>1, <1>6 DEF NodesConserved, Apart
    <3>4. CASE i > lf /\ j > lf
      <4>1. qchain[i - lf + 1] = qchain[j - lf + 1] BY <3>4, <1>1, <1>2
      <4>2. i - lf + 1 \in 1 .. lq /\ j - lf + 1 \in 1 .. lq BY <3>4, <1>1, <1>2
      <4>3. i - lf + 1 = j - lf + 1 BY <4>1, <4>2, <1>6 DEF NodesConserved, Apart, Distinct
      <4> QED BY <4>3, <1>1, <1>2
    <3> QED BY <3>1, <3>2, <3>3, <3>4, <1>1, <1>2
  <2>4. ASSUME NEW j \in 1 .. Len(cat) PROVE qchain[1] # cat[j]
    <3>1. CASE j <= lf
      BY <3>1, <1>1, <1>2, <1>6 DEF NodesConserved, Apart
    <3>2. CASE j > lf
      <4>1. j - lf + 1 \in 2 .. lq /\ cat[j] = qchain[j - lf + 1] BY <3>2, <1>1, <1>2
      <4> QED BY <4>1, <1>1, <1>6 DEF NodesConserved, Apart, Distinct
    <3> QED BY <3>1, <3>2, <1>1, <1>2
  <2>5. ASSUME NEW i \in 1 .. Len(qchain'), NEW j \in 1 .. Len(fchain')
        PROVE  qchain'[i] # fchain'[j]
    BY <2>4, <1>3, <1>4 DEF ChainsLinked
  <2> QED BY <2>1, <2>2, <2>3, <2>5, <1>3 DEF NodesConserved, Apart
<1>9. Linked(next', qchain', qtail')
  BY <1>3, <1>4, <1>5 DEF TypeOK, Linked
<1>10. Linked(next', fchain', ftail') /\ fchain'[1] = FHead
  <2>1. /\ \A i \in 1 .. lf - 1 : next'[fchain[i]] = next[fchain[i]]
        /\ \A i \in 2 .. lq : next'[qchain[i]] = next[qchain[i]]
        /\ next'[fchain[lf]] = IF lq >= 2 THEN qchain[2] ELSE NULL
    <3>1. ftail \in Node /\ ftail # QHead
      BY <1>1, <1>6 DEF ChainsLinked, NodesConserved, Apart
    <3>2. \A i \in 1 .. lf - 1 : fchain[i] \in Node /\ fchain[i] # ftail /\ fchain[i] # QHead
      BY <1>1, <1>6 DEF ChainsLinked, NodesConserved, Apart, Distinct
    <3>3. \A i \in 2 .. lq : qchain[i] \in Node /\ qchain[i] # ftail /\ qchain[i] # QHead
      BY <1>1, <1>6 DEF ChainsLinked, NodesConserved, Apart, Distinct
    <3> QED BY <3>1, <3>2, <3>3, <1>5, <1>6 DEF TypeOK
  <2>2. fchain'[1] = FHead BY <1>1, <1>2, <1>3 DEF ChainsLinked
  <2>3. ASSUME NEW i \in 1 .. Len(cat) - 1 PROVE next'[cat[i]] = cat[i + 1]
    <3>1. CASE i < lf
      <4>1. cat[i] = fchain[i] /\ cat[i + 1] = fchain[i + 1] BY <3>1, <1>1, <1>2
      <4>2. next[fchain[i]] = fchain[i + 1] BY <3>1, <1>1, <1>6 DEF ChainsLinked, Linked
      <4> QED BY <3>1, <4>1, <4>2, <2>1, <1>1
    <3>2. CASE i = lf
      <4>1. cat[i] = fchain[lf] /\ cat[i + 1] = qchain[2] /\ lq >= 2 BY <3>2, <1>1, <1>2
      <4> QED BY <4>1, <2>1
    <3>3. CASE i > lf
      <4>1. /\ cat[i] = qchain[i - lf + 1] /\ cat[i + 1] = qchain[(i - lf + 1) + 1]
            /\ i - lf + 1 \in 2 .. lq - 1
        BY <3>3, <1>1, <1>2
      <4>2. next[qchain[i - lf + 1]] = qchain[(i - lf + 1) + 1]
        <5>1. \A k \in 1 .. lq - 1 : next[qchain[k]] = qchain[k + 1]
          BY <1>6 DEF ChainsLinked, Linked
        <5>2. i - lf + 1 \in 1 .. lq - 1 BY <4>1, <1>1, <1>2
        <5> QED BY <5>1, <5>2
      <4> QED BY <4>1, <4>2, <2>1, <1>1
    <3> QED BY <3>1, <3>2, <3>3, <1>1, <1>2
  <2>4. next'[cat[Len(cat)]] = NULL /\ ftail' = cat[Len(cat)]
    <3>1. CASE lq = 1
      <4>1. cat[Len(cat)] = fchain[lf] BY <3>1, <1>1, <1>2
      <4> QED BY <3>1, <4>1, <2>1, <1>5, <1>6
    <3>2. CASE lq >= 2
      <4>1. cat[Len(cat)] = qchain[lq] BY <3>2, <1>1, <1>2
      <4>2. next[qchain[lq]] = NULL BY <1>6 DEF ChainsLinked, Linked
      <4>3. lq \in 2 .. lq BY <3>2, <1>1
      <4>4. next'[qchain[lq]] = NULL BY <4>2, <4>3, <2>1
      <4> QED BY <3>2, <4>1, <4>4, <1>5, <1>6
    <3> QED BY <3>1, <3>2, <1>1
  <2> QED BY <2>2, <2>3, <2>4, <1>1, <1>2, <1>3 DEF Linked
<1> QED BY <1>4, <1>7, <1>8, <1>9, <1>10 DEF ChainsLinked

(* Every call leaves both chains intact. *)
LEMMA NextInv == Inv /\ [Next]_vars => Inv'
<1> SUFFICES ASSUME Inv, [Next]_vars PROVE Inv' OBVIOUS
<1>1. CASE enqueue_full
  BY <1>1 DEF enqueue_full, Inv, TypeOK, ChainsLinked, NodesConserved
<1>2. ASSUME NEW v \in Value, enqueue(v) PROVE Inv'
  BY <1>2, EnqueueInv
<1>3. CASE dequeue
  <2>1. CASE QHead = qtail
    BY <1>3, <2>1 DEF dequeue, Inv, TypeOK, ChainsLinked, NodesConserved, Elem
  <2>2. CASE QHead # qtail
    <3>1. unlink_first /\ UNCHANGED <<status, cell, alive>> /\ ret' = elem[next[QHead]]
      BY <1>3, <2>2 DEF dequeue
    <3>2. next[QHead] \in Node
      BY <3>1, <2>2, UnlinkInv, ChainLen DEF Inv, TypeOK
    <3> QED BY <3>1, <3>2, <2>2, UnlinkInv DEF Inv, TypeOK
  <2> QED BY <2>1, <2>2
<1>4. CASE dequeue_inplace
  <2>1. CASE QHead = qtail
    BY <1>4, <2>1 DEF dequeue_inplace, Inv, TypeOK, ChainsLinked, NodesConserved
  <2>2. CASE QHead # qtail
    <3>1. unlink_first /\ UNCHANGED <<ret, alive>> /\ cell' = elem[next[QHead]] /\ status' = 0
      BY <1>4, <2>2 DEF dequeue_inplace
    <3>2. next[QHead] \in Node
      BY <3>1, <2>2, UnlinkInv, ChainLen DEF Inv, TypeOK
    <3> QED BY <3>1, <3>2, <2>2, UnlinkInv DEF Inv, TypeOK
  <2> QED BY <2>1, <2>2
<1>5. CASE clear
  BY <1>5, ClearInv
<1>6. CASE UNCHANGED vars
  BY <1>6 DEF vars, Inv, TypeOK, ChainsLinked, NodesConserved
<1> QED BY <1>1, <1>2, <1>3, <1>4, <1>5, <1>6 DEF Next

LEMMA InvAlways == Spec => []Inv
<1> QED BY InitInv, NextInv, PTL DEF Spec

(* For every pool size the queue's variables keep their types, whatever    *)
(* the calls.                                                              *)
THEOREM TypeCorrect == Spec => []TypeOK
<1>1. Inv => TypeOK BY DEF Inv
<1> QED BY <1>1, InvAlways, PTL

(***************************************************************************)
(* For every pool size the tail pointer of each chain is the last node     *)
(* reached from its sentinel, after any calls.                             *)
(***************************************************************************)
THEOREM ChainsCorrect == Spec => []ChainsLinked
<1>1. Inv => ChainsLinked BY DEF Inv
<1> QED BY <1>1, InvAlways, PTL

(***************************************************************************)
(* For every pool size the queue and the free list share the array, and no *)
(* node is lost or on both, after any calls.                               *)
(***************************************************************************)
THEOREM NodesCorrect == Spec => []NodesConserved
<1>1. Inv => NodesConserved BY DEF Inv
<1> QED BY <1>1, InvAlways, PTL

--------------------------------------------------------------------------------
(* The elements behind the sentinel form a sequence of their own. *)
LEMMA ContentsFacts ==
  ASSUME NEW c \in Seq(Node), NEW el \in [Node -> Elem], Len(c) >= 1
  PROVE  /\ ContentsOf(c, el) \in Seq(Elem)
         /\ Len(ContentsOf(c, el)) = Len(c) - 1
         /\ \A i \in 1 .. Len(c) - 1 : ContentsOf(c, el)[i] = el[c[i + 1]]
<1>1. Len(c) - 1 \in Nat BY ChainLen
<1>2. ContentsOf(c, el) \in [1 .. Len(c) - 1 -> Elem]
  <2>1. \A i \in 1 .. Len(c) - 1 : c[i + 1] \in Node BY <1>1, ChainLen
  <2> QED BY <2>1 DEF ContentsOf
<1>3. ContentsOf(c, el) \in Seq(Elem) BY <1>1, <1>2, SeqDef
<1>4. DOMAIN ContentsOf(c, el) = 1 .. Len(c) - 1 BY DEF ContentsOf
<1>5. Len(ContentsOf(c, el)) = Len(c) - 1 BY <1>1, <1>3, <1>4, LenProperties
<1>6. \A i \in 1 .. Len(c) - 1 : ContentsOf(c, el)[i] = el[c[i + 1]] BY DEF ContentsOf
<1> QED BY <1>3, <1>5, <1>6

(* An enqueue appends its element. *)
LEMMA EnqueueContents ==
  ASSUME Inv, NEW v \in Value, enqueue(v)
  PROVE  Contents' = Append(Contents, v) /\ Len(Contents) < PoolSize
<1> DEFINE x == fchain[2]
           old == ContentsOf(qchain, elem)
           new == ContentsOf(qchain', elem')
           lq == Len(qchain)
<1>0. /\ qchain \in Seq(Node) /\ elem \in [Node -> Elem]
      /\ qchain' \in Seq(Node) /\ elem' \in [Node -> Elem]
      /\ next[FHead] = x /\ Len(fchain) >= 2
  BY EnqueueInv DEF Inv, TypeOK
<1>1. /\ lq \in Nat /\ lq >= 1 /\ x \in Node /\ v \in Elem
      /\ \A i \in 1 .. lq : qchain[i] \in Node /\ qchain[i] # x
  <2>1. x \in Node BY <1>0, ChainLen DEF Inv, TypeOK
  <2>2. \A i \in 1 .. lq : qchain[i] # x
    <3>1. 2 \in 1 .. Len(fchain) BY <1>0, ChainLen DEF Inv, TypeOK
    <3> QED BY <3>1 DEF Inv, NodesConserved, Apart
  <2> QED BY <2>1, <2>2, <1>0, ChainLen DEF Inv, ChainsLinked, Linked, Elem
<1>2. /\ qchain' = Append(qchain, x) /\ elem' = [elem EXCEPT ![x] = v]
  BY <1>0 DEF enqueue
<1>3. /\ Len(qchain') = lq + 1
      /\ \A i \in 1 .. lq + 1 : qchain'[i] = IF i <= lq THEN qchain[i] ELSE x
  BY <1>0, <1>1, <1>2, AppendFacts
<1>4. /\ old \in Seq(Elem) /\ Len(old) = lq - 1
      /\ \A i \in 1 .. lq - 1 : old[i] = elem[qchain[i + 1]]
  BY <1>0, <1>1, ContentsFacts
<1>5. /\ new \in Seq(Elem) /\ Len(new) = lq
      /\ \A i \in 1 .. lq : new[i] = elem'[qchain'[i + 1]]
  <2>1. Len(qchain') >= 1 /\ Len(qchain') - 1 = lq BY <1>1, <1>3
  <2> QED BY <1>0, <2>1, ContentsFacts
<1>6. Len(old) < PoolSize
  <2>1. Len(qchain) + Len(fchain) = PoolSize + 2 /\ Len(fchain) \in Nat
    BY ChainLen DEF Inv, NodesConserved, TypeOK
  <2> QED BY <2>1, <1>0, <1>1, <1>4, PoolSizeAssumption
<1> HIDE DEF old, new, lq, x
<1>7. new = Append(old, v)
  <2>1. /\ Append(old, v) \in Seq(Elem) /\ Len(Append(old, v)) = lq
        /\ \A i \in 1 .. lq : Append(old, v)[i] = IF i <= lq - 1 THEN old[i] ELSE v
    BY <1>1, <1>4, AppendProperties
  <2>2. ASSUME NEW i \in 1 .. lq PROVE new[i] = Append(old, v)[i]
    <3>1. CASE i <= lq - 1
      <4>1. i \in 1 .. lq - 1 /\ i + 1 \in 1 .. lq /\ i + 1 \in 1 .. lq + 1 BY <3>1, <1>1
      <4>2. qchain'[i + 1] = qchain[i + 1] /\ qchain[i + 1] \in Node /\ qchain[i + 1] # x
        BY <4>1, <1>1, <1>3
      <4>3. elem'[qchain[i + 1]] = elem[qchain[i + 1]] BY <4>2, <1>0, <1>2
      <4>4. new[i] = old[i] BY <4>1, <4>2, <4>3, <1>4, <1>5
      <4> QED BY <4>4, <3>1, <2>1
    <3>2. CASE ~(i <= lq - 1)
      <4>1. i = lq /\ qchain'[i + 1] = x BY <3>2, <1>1, <1>3
      <4>2. new[i] = v BY <4>1, <1>0, <1>1, <1>2, <1>5
      <4> QED BY <4>2, <3>2, <2>1
    <3> QED BY <3>1, <3>2
  <2> QED BY <1>5, <2>1, <2>2, <1>1, SeqEqual
<1> QED BY <1>6, <1>7 DEF Contents, old, new

(* A dequeue from a queue that is not empty removes its first element. *)
LEMMA UnlinkContents ==
  ASSUME Inv, unlink_first, QHead # qtail
  PROVE  /\ Contents # <<>> /\ Contents' = Tail(Contents)
         /\ Head(Contents) = elem[next[QHead]]
<1> DEFINE x == qchain[2]
           old == ContentsOf(qchain, elem)
           new == ContentsOf(qchain', elem')
           lq == Len(qchain)
<1>0. /\ qchain \in Seq(Node) /\ elem \in [Node -> Elem]
      /\ qchain' \in Seq(Node) /\ elem' \in [Node -> Elem]
      /\ next[QHead] = x /\ lq >= 2
  BY UnlinkInv DEF Inv, TypeOK
<1>1. /\ lq \in Nat /\ lq >= 2
      /\ \A i \in 1 .. lq : qchain[i] \in Node
      /\ \A i \in 3 .. lq : qchain[i] # x
  <2>1. lq \in Nat /\ lq >= 2 /\ \A i \in 1 .. lq : qchain[i] \in Node BY <1>0, ChainLen
  <2> QED BY <2>1 DEF Inv, NodesConserved, Apart, Distinct
<1>2. qchain' = WithoutSecond(qchain) /\ elem' = [elem EXCEPT ![x] = Zero]
  BY <1>0 DEF unlink_first
<1>3. /\ Len(qchain') = lq - 1
      /\ \A i \in 1 .. lq - 1 : qchain'[i] = IF i = 1 THEN qchain[1] ELSE qchain[i + 1]
  BY <1>0, <1>2, WithoutSecondFacts
<1>4. /\ old \in Seq(Elem) /\ Len(old) = lq - 1
      /\ \A i \in 1 .. lq - 1 : old[i] = elem[qchain[i + 1]]
  BY <1>0, <1>1, ContentsFacts
<1>5. /\ new \in Seq(Elem) /\ Len(new) = lq - 2
      /\ \A i \in 1 .. lq - 2 : new[i] = elem'[qchain'[i + 1]]
  <2>1. Len(qchain') >= 1 /\ Len(qchain') - 1 = lq - 2 BY <1>1, <1>3
  <2> QED BY <1>0, <2>1, ContentsFacts
<1> HIDE DEF old, new, lq, x
<1>6. old # <<>> /\ Head(old) = elem[next[QHead]]
  <2>1. old # <<>> BY <1>1, <1>4
  <2>2. Head(old) = old[1] BY <1>4, <2>1, HeadTailProperties
  <2>3. 1 \in 1 .. lq - 1 BY <1>1
  <2>4. old[1] = elem[qchain[2]] BY <2>3, <1>4
  <2> QED BY <2>1, <2>2, <2>4, <1>0 DEF x
<1>7. new = Tail(old)
  <2>1. /\ Tail(old) \in Seq(Elem) /\ Len(Tail(old)) = lq - 2
        /\ \A i \in 1 .. lq - 2 : Tail(old)[i] = old[i + 1]
    BY <1>1, <1>4, <1>6, HeadTailProperties
  <2>2. ASSUME NEW i \in 1 .. lq - 2 PROVE new[i] = Tail(old)[i]
    <3>1. i + 1 \in 1 .. lq - 1 /\ i + 1 # 1 /\ i + 2 \in 3 .. lq /\ i + 2 \in 1 .. lq BY <1>1
    <3>2. qchain'[i + 1] = qchain[i + 2] BY <3>1, <1>3
    <3>3. elem'[qchain[i + 2]] = elem[qchain[i + 2]] BY <3>1, <1>0, <1>1, <1>2
    <3>4. old[i + 1] = elem[qchain[i + 2]] BY <3>1, <1>4
    <3> QED BY <3>2, <3>3, <3>4, <2>1, <1>5
  <2> QED BY <1>5, <2>1, <2>2, <1>1, SeqEqual
<1> QED BY <1>6, <1>7 DEF Contents, old, new

(* An empty queue has no elements. *)
LEMMA EmptyContents ==
  ASSUME Inv, QHead = qtail
  PROVE  Contents = <<>>
<1>1. Len(qchain) \in Nat /\ Len(qchain) >= 1 BY ChainLen DEF Inv, TypeOK, ChainsLinked, Linked
<1>2. Len(qchain) <= 1
  <2>1. qchain[Len(qchain)] = qchain[1] BY DEF Inv, ChainsLinked, Linked
  <2>2. 1 \in 1 .. Len(qchain) /\ Len(qchain) \in 1 .. Len(qchain) BY <1>1
  <2>3. Len(qchain) = 1 BY <2>1, <2>2 DEF Inv, NodesConserved, Apart, Distinct
  <2> QED BY <2>3, <1>1
<1>3. /\ Contents \in Seq(Elem) /\ Len(Contents) = Len(qchain) - 1
  BY <1>1, ContentsFacts DEF Contents, Inv, TypeOK
<1> QED BY <1>1, <1>2, <1>3

(***************************************************************************)
(* For every pool size and every set of elements, the pointer structure    *)
(* implements the bounded FIFO queue: elements leave in the order they     *)
(* came, none is lost, and the program exits only when pool_size elements  *)
(* are queued.                                                             *)
(***************************************************************************)
THEOREM ImplementsFifo == Spec => FifoSpec
<1>1. Init => Fifo!Init
  <2> SUFFICES ASSUME Init PROVE Fifo!Init OBVIOUS
  <2>1. Contents = <<>>
    <3>1. Inv /\ QHead = qtail BY InitInv DEF Init
    <3> QED BY <3>1, EmptyContents
  <2> QED BY <2>1 DEF Init, Fifo!Init
<1>2. Inv /\ [Next]_vars => [Fifo!Next]_Fifo!vars
  <2> SUFFICES ASSUME Inv, [Next]_vars PROVE [Fifo!Next]_Fifo!vars OBVIOUS
  <2>1. CASE enqueue_full
    <3>1. Len(fchain) \in Nat /\ Len(fchain) >= 1 /\ Len(qchain) \in Nat /\ Len(qchain) >= 1
      BY ChainLen DEF Inv, TypeOK, ChainsLinked, Linked
    <3>2. Len(fchain) = 1
      <4>1. fchain[Len(fchain)] = fchain[1] BY <2>1 DEF enqueue_full, Inv, ChainsLinked, Linked
      <4>2. 1 \in 1 .. Len(fchain) /\ Len(fchain) \in 1 .. Len(fchain) BY <3>1
      <4> QED BY <4>1, <4>2 DEF Inv, NodesConserved, Apart, Distinct
    <3>3. Len(Contents) = Len(qchain) - 1
      BY <3>1, ContentsFacts DEF Contents, Inv, TypeOK
    <3>4. Len(Contents) = PoolSize
      BY <3>1, <3>2, <3>3, PoolSizeAssumption DEF Inv, NodesConserved
    <3>5. Contents' = Contents BY <2>1 DEF enqueue_full, Contents, ContentsOf
    <3> QED BY <2>1, <3>4, <3>5 DEF enqueue_full, Fifo!Next, Fifo!Overflow
  <2>2. ASSUME NEW v \in Value, enqueue(v) PROVE Fifo!Next
    <3>1. Contents' = Append(Contents, v) /\ Len(Contents) < PoolSize BY <2>2, EnqueueContents
    <3>2. alive /\ UNCHANGED <<ret, status, cell, alive>> BY <2>2 DEF enqueue
    <3> QED BY <3>1, <3>2 DEF Fifo!Next, Fifo!Enqueue
  <2>3. CASE dequeue
    <3>1. CASE QHead = qtail
      <4>1. Contents = <<>> /\ Contents' = Contents
        BY <2>3, <3>1, EmptyContents DEF dequeue, Contents, ContentsOf
      <4> QED BY <2>3, <3>1, <4>1 DEF dequeue, Fifo!Next, Fifo!Dequeue
    <3>2. CASE QHead # qtail
      <4>1. unlink_first /\ ret' = elem[next[QHead]] /\ alive /\ UNCHANGED <<status, cell, alive>>
        BY <2>3, <3>2 DEF dequeue
      <4>2. /\ Contents # <<>> /\ Contents' = Tail(Contents)
            /\ Head(Contents) = elem[next[QHead]]
        BY <3>2, <4>1, UnlinkContents
      <4> QED BY <4>1, <4>2 DEF Fifo!Next, Fifo!Dequeue
    <3> QED BY <3>1, <3>2
  <2>4. CASE dequeue_inplace
    <3>1. CASE QHead = qtail
      <4>1. Contents = <<>> /\ Contents' = Contents
        BY <2>4, <3>1, EmptyContents DEF dequeue_inplace, Contents, ContentsOf
      <4> QED BY <2>4, <3>1, <4>1 DEF dequeue_inplace, Fifo!Next, Fifo!DequeueInplace
    <3>2. CASE QHead # qtail
      <4>1. /\ unlink_first /\ status' = 0 /\ cell' = elem[next[QHead]]
            /\ alive /\ UNCHANGED <<ret, alive>>
        BY <2>4, <3>2 DEF dequeue_inplace
      <4>2. /\ Contents # <<>> /\ Contents' = Tail(Contents)
            /\ Head(Contents) = elem[next[QHead]]
        BY <3>2, <4>1, UnlinkContents
      <4> QED BY <4>1, <4>2 DEF Fifo!Next, Fifo!DequeueInplace
    <3> QED BY <3>1, <3>2
  <2>5. CASE clear
    <3>1. Inv' /\ QHead = qtail' BY <2>5, ClearInv DEF clear
    <3>2. qchain' = <<QHead>> /\ alive /\ UNCHANGED <<ret, status, cell, alive>>
      BY <2>5 DEF clear
    <3>3. Contents' = <<>>
      <4>1. Len(qchain') - 1 = 0 BY <3>2
      <4>2. Contents' \in Seq(Elem) /\ Len(Contents') = 0
        BY <3>1, <4>1, ContentsFacts DEF Contents, Inv, TypeOK, ChainsLinked, Linked
      <4> QED BY <4>2
    <3> QED BY <3>2, <3>3 DEF Fifo!Next, Fifo!Clear
  <2>6. CASE UNCHANGED vars
    <3>1. Contents' = Contents BY <2>6 DEF vars, Contents, ContentsOf
    <3> QED BY <2>6, <3>1 DEF vars, Fifo!vars
  <2> QED BY <2>1, <2>2, <2>3, <2>4, <2>5, <2>6 DEF Next
<1> QED BY <1>1, <1>2, InitInv, NextInv, PTL DEF Spec, FifoSpec, Fifo!Spec
================================================================================
