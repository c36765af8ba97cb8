------------------------------ MODULE LinkedList ------------------------------
(***************************************************************************)
(* The intrusive queue of include/linkedlist.h, pointer by pointer.        *)
(*                                                                         *)
(* One array of pool_size + 2 nodes holds two singly linked chains, each   *)
(* behind a sentinel: the queue behind list[0] and the free list behind    *)
(* list[1].  head and freelist.head are set by _init only, so they are the *)
(* constants QHead and FHead here.                                         *)
(*                                                                         *)
(* qchain and fchain are history variables: the nodes each chain ought to  *)
(* hold, sentinel first.  No action reads them; the invariant ChainsLinked *)
(* says that following the next pointers gives exactly these nodes.        *)
(***************************************************************************)
EXTENDS Integers, Sequences

CONSTANTS
  Value,      \* elements a caller may enqueue
  Zero,       \* ZERO_VALUE
  PoolSize    \* pool_size passed to _init

ASSUME PoolSizeAssumption == PoolSize \in Nat \ {0}

Node == 0 .. PoolSize + 1
NULL == -1
QHead == 0
FHead == 1
Elem == Value \cup {Zero}

VARIABLES
  next,       \* list[n].next
  elem,       \* list[n].elem
  qtail,      \* q->tail
  ftail,      \* q->freelist.tail
  ret,        \* value of the last _dequeue
  status,     \* value of the last _dequeue_inplace
  cell,       \* *v of the last _dequeue_inplace
  alive,      \* FALSE after exit(1)
  qchain,     \* history: the queue's nodes, sentinel first
  fchain      \* history: the free list's nodes, sentinel first

vars == <<next, elem, qtail, ftail, ret, status, cell, alive, qchain, fchain>>

TypeOK == /\ next \in [Node -> Node \cup {NULL}]
          /\ elem \in [Node -> Elem]
          /\ qtail \in Node /\ ftail \in Node
          /\ ret \in Elem /\ cell \in Elem
          /\ status \in {-1, 0}
          /\ alive \in BOOLEAN
          /\ qchain \in Seq(Node) /\ fchain \in Seq(Node)

--------------------------------------------------------------------------------
(* Mutant: the last node is not NULL-terminated. *)
Init_unterminated ==
        /\ next = [n \in Node |-> IF n = QHead THEN NULL ELSE n + 1]
        /\ elem = [n \in Node |-> Zero]
        /\ qtail = QHead
        /\ ftail = PoolSize + 1
        /\ ret = Zero /\ status = 0 /\ cell = Zero
        /\ alive = TRUE
        /\ qchain = <<QHead>>
        /\ fchain = [i \in 1 .. PoolSize + 1 |-> i]

(* _init: list[1] .. list[pool_size+1] are chained on the free list. *)
Init == /\ next = [n \in Node |-> IF n = QHead \/ n = PoolSize + 1 THEN NULL ELSE n + 1]
        /\ elem = [n \in Node |-> Zero]
        /\ qtail = QHead
        /\ ftail = PoolSize + 1
        /\ ret = Zero /\ status = 0 /\ cell = Zero
        /\ alive = TRUE
        /\ qchain = <<QHead>>
        /\ fchain = [i \in 1 .. PoolSize + 1 |-> i]

(* A chain without the node behind its sentinel. *)
WithoutSecond(c) == [i \in 1 .. Len(c) - 1 |-> IF i = 1 THEN c[1] ELSE c[i + 1]]

(* Mutant: the last free node counts as none. *)
enqueue_full_early ==
  /\ alive
  /\ next[FHead] \in {NULL, ftail}
  /\ alive' = FALSE
  /\ UNCHANGED <<next, elem, qtail, ftail, ret, status, cell, qchain, fchain>>

(* _enqueue on a full list: the message is printed and the program exits. *)
enqueue_full == /\ alive
                /\ FHead = ftail
                /\ alive' = FALSE
                /\ UNCHANGED <<next, elem, qtail, ftail, ret, status, cell, qchain, fchain>>

(* Mutant: the free list's tail stays behind when its last node is taken. *)
enqueue_stale_tail(v) ==
  LET free == next[FHead] IN
  /\ alive
  /\ free # NULL
  /\ next' = [next EXCEPT ![FHead] = next[free], ![free] = NULL, ![qtail] = free]
  /\ elem' = [elem EXCEPT ![free] = v]
  /\ qtail' = free
  /\ qchain' = Append(qchain, free)
  /\ fchain' = WithoutSecond(fchain)
  /\ UNCHANGED <<ftail, ret, status, cell, alive>>

(* _enqueue: the first free node is moved to the end of the queue. *)
enqueue(v) ==
  LET free == next[FHead] IN
  /\ alive
  /\ FHead # ftail
  /\ next' = [next EXCEPT ![FHead] = next[free], ![free] = NULL, ![qtail] = free]
  /\ ftail' = IF next[free] = NULL THEN FHead ELSE ftail
  /\ elem' = [elem EXCEPT ![free] = v]
  /\ qtail' = free
  /\ qchain' = Append(qchain, free)
  /\ fchain' = WithoutSecond(fchain)
  /\ UNCHANGED <<ret, status, cell, alive>>

(* The common tail of both dequeues: the queue's first node is unlinked,   *)
(* zeroed and appended to the free list.                                   *)
unlink_first ==
  LET e == next[QHead] IN
  /\ next' = [next EXCEPT ![QHead] = next[e], ![e] = NULL, ![ftail] = e]
  /\ qtail' = IF next[e] = NULL THEN QHead ELSE qtail
  /\ elem' = [elem EXCEPT ![e] = Zero]
  /\ ftail' = e
  /\ qchain' = WithoutSecond(qchain)
  /\ fchain' = Append(fchain, e)

dequeue ==
  /\ alive
  /\ \/ /\ QHead = qtail
        /\ ret' = Zero
        /\ UNCHANGED <<next, elem, qtail, ftail, qchain, fchain>>
     \/ /\ QHead # qtail
        /\ ret' = elem[next[QHead]]
        /\ unlink_first
  /\ UNCHANGED <<status, cell, alive>>

dequeue_inplace ==
  /\ alive
  /\ \/ /\ QHead = qtail
        /\ status' = -1
        /\ UNCHANGED <<next, elem, qtail, ftail, cell, qchain, fchain>>
     \/ /\ QHead # qtail
        /\ status' = 0
        /\ cell' = elem[next[QHead]]
        /\ unlink_first
  /\ UNCHANGED <<ret, alive>>

(* Mutant: the queue is emptied, its nodes do not go to the free list. *)
clear_leaking ==
  /\ alive
  /\ next' = [next EXCEPT ![QHead] = NULL]
  /\ qtail' = QHead
  /\ qchain' = <<QHead>>
  /\ UNCHANGED <<ftail, fchain, elem, ret, status, cell, alive>>

(* _clear: the whole chain is hung behind the free list; elem is not reset. *)
clear ==
  LET first == next[QHead] IN
  /\ alive
  /\ IF first # NULL
       THEN /\ next' = [next EXCEPT ![ftail] = first, ![QHead] = NULL]
            /\ ftail' = qtail
       ELSE /\ next' = [next EXCEPT ![QHead] = NULL]
            /\ ftail' = ftail
  /\ qtail' = QHead
  /\ qchain' = <<QHead>>
  /\ fchain' = fchain \o Tail(qchain)
  /\ UNCHANGED <<elem, ret, status, cell, alive>>

Next == \/ enqueue_full
        \/ \E v \in Value : enqueue(v)
        \/ dequeue
        \/ dequeue_inplace
        \/ clear

Spec == Init /\ [][Next]_vars

--------------------------------------------------------------------------------
(* Following the pointers nx from the head of chain c visits c and ends at tail. *)
Linked(nx, c, tail) ==
  /\ Len(c) >= 1
  /\ \A i \in 1 .. Len(c) - 1 : nx[c[i]] = c[i + 1]
  /\ nx[c[Len(c)]] = NULL
  /\ tail = c[Len(c)]

Distinct(c) == \A i, j \in 1 .. Len(c) : c[i] = c[j] => i = j

(* No node twice on a chain, none on both. *)
Apart(c, d) ==
  /\ Distinct(c) /\ Distinct(d)
  /\ \A i \in 1 .. Len(c), j \in 1 .. Len(d) : c[i] # d[j]

(***************************************************************************)
(* Both chains are well formed whatever the calls so far: the tail pointer *)
(* of each is the last node reached from its sentinel.  A tail left behind *)
(* when the last node is taken (lines 73-75, 92-94 and 111-113) breaks it  *)
(* only on the call after the next one.                                    *)
(***************************************************************************)
ChainsLinked == /\ Linked(next, qchain, qtail) /\ qchain[1] = QHead
                /\ Linked(next, fchain, ftail) /\ fchain[1] = FHead

(***************************************************************************)
(* No node is lost or on two chains: the queue and the free list split the *)
(* pool_size + 2 nodes of the array between them.                          *)
(***************************************************************************)
NodesConserved ==
  /\ Apart(qchain, fchain)
  /\ Len(qchain) + Len(fchain) = PoolSize + 2

(***************************************************************************)
(* The pointer structure implements the bounded FIFO queue: the elements   *)
(* are those of the chain behind the queue's sentinel, and exit(1) is only *)
(* called when pool_size elements are queued.                              *)
(***************************************************************************)
ContentsOf(c, el) == [i \in 1 .. Len(c) - 1 |-> el[c[i + 1]]]
Contents == ContentsOf(qchain, elem)

Fifo == INSTANCE BoundedFifo WITH queue <- Contents, Capacity <- PoolSize

FifoSpec == Fifo!Spec
================================================================================
