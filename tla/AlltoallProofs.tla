--------------------------- MODULE AlltoallProofs ---------------------------
(* Theorems about Alltoall: the types, that the collectives abort only if the   *)
(* calls of a program differ, and that a rank reads the result of its last      *)
(* call. The ranks run the same program, so that where a rank stands in it says *)
(* how many MPI collectives it has entered (PosInv), and a rank leaves one only *)
(* when all have entered it (OrderInv). What is in flight (NetInv) and in       *)
(* memory (MemInv) follows from that.                                           *)
EXTENDS Alltoall, FiniteSetTheorems, TLAPS

IsSync(prog, j) == j \in DOMAIN prog /\ prog[j].call # "check"
IsCall(prog, j) == j \in DOMAIN prog /\ prog[j].call = "alltoall"

(* The MPI collectives among the first n operations, but the one of gather.     *)
Syncs(prog, n) == Cardinality({j \in 1 .. n : IsSync(prog, j)})

(* Process q has begun operation j; has entered the barrier that ends it.       *)
Begun(q, j) == q.ip > j \/ (q.ip = j /\ q.pc # "call")
Done(q, j) == q.ip > j \/ (q.ip = j /\ q.pc = "barrier")

(* The operations of which q has entered the collective, or which it has left.  *)
Entered(q) == IF q.pc = "barrier" THEN q.ip ELSE q.ip - 1

(* Where q stands, with f for "it has made no collective call".                 *)
PosInv(prog, q, f) ==
  /\ q.ip \in 1 .. Len(prog) + 1 /\ q.pc # "aborted"
  /\ q.pc \in {"gather", "write", "flush"} => IsCall(prog, q.ip)
  /\ q.pc = "barrier" => IsSync(prog, q.ip)
  /\ f <=> \A j \in DOMAIN prog : IsCall(prog, j) => ~Begun(q, j)
  /\ q.pc = "gather" => \A j \in DOMAIN prog : j < q.ip => ~IsCall(prog, j)
  /\ q.syncs = Syncs(prog, Entered(q)) + (IF f THEN 0 ELSE 1)
  /\ q.pc \in {"gather", "write", "flush"} => q.contents = q.ip

(* The loop over the ranks, begun at the successor of s, is past d.             *)
Passed(s, dst, d) == IF dst > s THEN s < d /\ d < dst ELSE d > s \/ d < dst

(* Process q of rank s has posted the write to d in its call.                   *)
Posted(q, s, d) ==
  d # s /\ (q.pc = "flush" \/ (q.pc = "write" /\ Passed(s, q.dst, d)))

(* The block of rank s has been stored at d in call k, n being what is in       *)
(* flight from s to d.                                                          *)
Landed(q, s, d, n, k) ==
  Done(q, k) \/ (q.ip = k /\ IF d = s THEN q.pc = "flush" ELSE Posted(q, s, d) /\ n = <<>>)

(* No rank has begun a collective after k.                                      *)
Newest(prog, pr, k) == \A t \in Rank : \A j \in DOMAIN prog : IsCall(prog, j) /\ j > k => ~Begun(pr[t], j)

Block(m, s, size, k) == \A b \in s * size .. (s + 1) * size - 1 : m[b] = [from |-> s, call |-> k]

StandInv == \A r \in Rank : PosInv(program, proc[r], cache[r].first_call)
GatherInv == \A r, p \in Rank :
  ~cache[r].first_call /\ proc[r].pc # "gather" => ~cache[p].first_call
OrderInv == \A s, r \in Rank : \A j \in DOMAIN program :
  IsSync(program, j) /\ proc[s].ip > j => Done(proc[r], j)
CacheInv == \A r \in Rank : ~cache[r].first_call =>
  \E c \in calls : cache[r].last = c.buffer /\ cache[r].bytes = registered(c)
NetInv == \A s, d \in Rank : net[s][d] # <<>> =>
  Posted(proc[s], s, d) /\ net[s][d] = <<program[proc[s].ip].size>>
MemInv == \A s, d \in Rank : \A k \in DOMAIN program :
  IsCall(program, k) /\ Landed(proc[s], s, d, net[s][d], k) /\ Newest(program, proc, k)
    => Block(mem[d], s, program[k].size, k)

RunInv == StandInv /\ GatherInv /\ OrderInv /\ CacheInv /\ NetInv /\ MemInv

IInv == TypeOK /\ program \in Programs /\ (~aborted => RunInv)

(****************************************************************************)
(* Arithmetic of blocks.                                                     *)
(****************************************************************************)
LEMMA Products ==
  /\ \A a, b \in Nat : a * b \in Nat
  /\ \A a, b, c \in Nat : a <= b => a * c <= b * c
  /\ \A a, b, c \in Nat : (a * c) * b = (a * b) * c
<1>1. \A a, b \in Nat : a * b \in Nat
  OBVIOUS
<1>2. ASSUME NEW a \in Nat, NEW b \in Nat, NEW c \in Nat, a <= b
      PROVE  a * c <= b * c
  <2>1. (b - a) * c >= 0
    BY <1>1, <1>2, b - a \in Nat
  <2>2. (b - a) * c = b * c - a * c
    OBVIOUS
  <2> QED BY <2>1, <2>2, <1>1
<1>3. \A a, b, c \in Nat : (a * c) * b = (a * b) * c
  OBVIOUS
<1> QED BY <1>1, <1>2, <1>3

(* The blocks of the ranks lie in the buffer, side by side.                     *)
LEMMA Blocks ==
  ASSUME NEW size \in Nat, size * NumProcs <= Bytes, NEW s \in Rank,
         NEW b \in s * size .. (s + 1) * size - 1
  PROVE  /\ b \in 0 .. Bytes - 1
         /\ \A t \in Rank : t # s => b \notin t * size .. (t + 1) * size - 1
<1>1. s \in Nat /\ s + 1 <= NumProcs /\ NumProcs \in Nat
  BY NumProcsAssumption DEF Rank
<1>2. s * size \in Nat /\ (s + 1) * size \in Nat /\ NumProcs * size \in Nat
  BY <1>1, Products
<1>3. (s + 1) * size <= NumProcs * size
  BY <1>1, Products
<1>4. size * NumProcs = NumProcs * size
  BY <1>1
<1>5. b \in 0 .. Bytes - 1
  BY <1>2, <1>3, <1>4, BytesAssumption
<1>6. ASSUME NEW t \in Rank, t # s
      PROVE  b \notin t * size .. (t + 1) * size - 1
  <2>1. t \in Nat /\ t * size \in Nat /\ (t + 1) * size \in Nat
    BY Products, NumProcsAssumption DEF Rank
  <2>2. t + 1 <= s \/ s + 1 <= t
    BY <1>1, <2>1, <1>6
  <2>3. CASE t + 1 <= s
    BY <2>1, <2>3, <1>1, <1>2, (t + 1) * size <= s * size, Products
  <2>4. CASE s + 1 <= t
    BY <2>1, <2>4, <1>1, <1>2, (s + 1) * size <= t * size, Products
  <2> QED BY <2>2, <2>3, <2>4
<1> QED BY <1>5, <1>6

(* A write to a registered buffer with room for all blocks is in its bounds.    *)
LEMMA InBounds ==
  ASSUME NEW o \in Operation, o.call = "alltoall", o.size * NumProcs <= Bytes, NEW d \in Rank
  PROVE  registered(o) \in Nat /\ ~((d + 1) * o.size > registered(o))
<1> DEFINE size == o.size
<1>1. size \in Nat /\ NumProcs \in Nat /\ d \in Nat /\ d + 1 <= NumProcs
  BY NumProcsAssumption DEF Operation, Rank
<1> HIDE DEF size
<1>2. size * NumProcs \in Nat /\ (size * NumProcs) * NumProcs \in Nat /\ (d + 1) * size \in Nat
  BY <1>1, Products
<1>3. (d + 1) * size <= NumProcs * size
  BY <1>1, Products
<1>4. NumProcs * size = size * NumProcs
  BY <1>1
<1>5. size * NumProcs <= (size * NumProcs) * NumProcs
  <2>1. 1 * (size * NumProcs) <= NumProcs * (size * NumProcs)
    BY <1>1, <1>2, 1 <= NumProcs, Products, NumProcsAssumption
  <2> QED BY <2>1, <1>1, <1>2
<1> DEFINE n == size * NumProcs  m == (size * NumProcs) * NumProcs  e == (d + 1) * size
<1>6. n \in Nat /\ m \in Nat /\ e \in Nat /\ e <= n /\ n <= m
  BY <1>2, <1>3, <1>4, <1>5
<1>7. registered(o) = Bytes \/ registered(o) = m
  BY DEF registered, size
<1>8. n <= Bytes
  BY DEF size
<1> HIDE DEF n, m, e
<1>9. registered(o) \in Nat /\ ~(e > registered(o))
  BY <1>6, <1>7, <1>8, BytesAssumption
<1> QED BY <1>9 DEF e, size

(****************************************************************************)
(* Counting collectives.                                                     *)
(****************************************************************************)
LEMMA SyncsCount ==
  ASSUME NEW prog, NEW n \in Nat
  PROVE  IsFiniteSet({j \in 1 .. n : IsSync(prog, j)}) /\ Syncs(prog, n) \in Nat
<1>1. IsFiniteSet(1 .. n)
  BY FS_Interval
<1>2. IsFiniteSet({j \in 1 .. n : IsSync(prog, j)})
  BY <1>1, FS_Subset
<1> QED BY <1>2, FS_CardinalityType DEF Syncs

LEMMA SyncsGrow ==
  ASSUME NEW prog, NEW m \in Nat, NEW n \in Nat, m <= n
  PROVE  Syncs(prog, m) <= Syncs(prog, n)
<1> DEFINE M == {j \in 1 .. m : IsSync(prog, j)}  N == {j \in 1 .. n : IsSync(prog, j)}
<1>1. M \subseteq N
  OBVIOUS
<1>2. IsFiniteSet(N)
  BY SyncsCount
<1> HIDE DEF M, N
<1>3. Cardinality(M) <= Cardinality(N)
  BY <1>1, <1>2, FS_Subset
<1> QED BY <1>3 DEF Syncs, M, N

LEMMA SyncsNext ==
  ASSUME NEW prog, NEW n \in Nat \ {0}
  PROVE  /\ IsSync(prog, n) => Syncs(prog, n) = Syncs(prog, n - 1) + 1
         /\ ~IsSync(prog, n) => Syncs(prog, n) = Syncs(prog, n - 1)
<1> DEFINE M == {j \in 1 .. n - 1 : IsSync(prog, j)}  N == {j \in 1 .. n : IsSync(prog, j)}
<1>1. IsFiniteSet(M) /\ n \notin M
  BY SyncsCount, n - 1 \in Nat
<1>2. IsSync(prog, n) => N = M \cup {n}
  OBVIOUS
<1>3. ~IsSync(prog, n) => N = M
  OBVIOUS
<1> HIDE DEF M, N
<1>4. Cardinality(M \cup {n}) = Cardinality(M) + 1
  BY <1>1, FS_AddElement
<1> QED BY <1>2, <1>3, <1>4 DEF Syncs, M, N

(* Whoever waits in a barrier for all others to enter as many collectives       *)
(* leaves it when they have entered it.                                         *)
LEMMA SyncedBarrier ==
  ASSUME NEW prog \in Seq(Operation), NEW q \in Proc, NEW f \in BOOLEAN, PosInv(prog, q, f),
         NEW p \in Proc, NEW g \in BOOLEAN, PosInv(prog, p, g),
         q.pc = "barrier", p.syncs >= q.syncs
  PROVE  Done(p, q.ip)
<1> SUFFICES ASSUME ~Done(p, q.ip) PROVE FALSE
  OBVIOUS
<1> DEFINE i == q.ip  h == Entered(p)  a == IF f THEN 0 ELSE 1  b == IF g THEN 0 ELSE 1
<1>1. i \in Nat \ {0} /\ i - 1 \in Nat /\ IsSync(prog, i) /\ Entered(q) = i
  BY DEF PosInv, Proc, Entered
<1>2. h \in Nat /\ h <= i - 1
  BY <1>1 DEF PosInv, Proc, Entered, Done
<1>3. q.syncs = Syncs(prog, i) + a /\ p.syncs = Syncs(prog, h) + b
  BY <1>1 DEF PosInv
<1>4. ~g => ~f
  <2> SUFFICES ASSUME ~g PROVE ~f
    OBVIOUS
  <2>1. PICK j \in DOMAIN prog : IsCall(prog, j) /\ Begun(p, j)
    BY DEF PosInv
  <2>2. j \in Nat /\ p.ip \in Nat /\ j <= p.ip /\ p.ip <= i
    BY <1>1, <2>1 DEF Begun, Done, Proc
  <2>3. Begun(q, j)
    <3>1. q.ip > j \/ q.ip = j
      BY <1>1, <2>2
    <3>2. q.pc # "call"
      OBVIOUS
    <3> QED BY <3>1, <3>2 DEF Begun
  <2> QED BY <2>1, <2>3 DEF PosInv
<1>5. Syncs(prog, i) = Syncs(prog, i - 1) + 1 /\ Syncs(prog, h) <= Syncs(prog, i - 1)
  BY <1>1, <1>2, SyncsNext, SyncsGrow
<1>6. Syncs(prog, i - 1) \in Nat /\ Syncs(prog, h) \in Nat
  BY <1>1, <1>2, SyncsCount
<1>7. a \in Nat /\ b \in Nat /\ b <= a
  BY <1>4
<1> HIDE DEF a, b, i, h
<1> QED BY <1>3, <1>5, <1>6, <1>7

(* Whoever has exchanged addresses with all others goes on when they are in     *)
(* their first call or past it.                                                 *)
LEMMA SyncedGather ==
  ASSUME NEW prog \in Seq(Operation), NEW q \in Proc, NEW f \in BOOLEAN, PosInv(prog, q, f),
         NEW p \in Proc, NEW g \in BOOLEAN, PosInv(prog, p, g),
         q.pc = "gather", p.syncs >= q.syncs
  PROVE  ~g
<1> SUFFICES ASSUME g PROVE FALSE
  OBVIOUS
<1> DEFINE i == q.ip - 1  h == Entered(p)
<1>1. q.ip \in Nat \ {0} /\ i \in Nat /\ q.ip \in DOMAIN prog /\ IsCall(prog, q.ip) /\ Entered(q) = i
  BY DEF PosInv, Proc, IsCall, Entered
<1>2. ~f
  BY <1>1 DEF PosInv, Begun
<1>3. ~Begun(p, q.ip)
  BY <1>1 DEF PosInv
<1>4. h \in Nat /\ h <= i
  BY <1>1, <1>3 DEF PosInv, Proc, Entered, Begun
<1>5. q.syncs = Syncs(prog, i) + 1 /\ p.syncs = Syncs(prog, h) + 0
  BY <1>1, <1>2 DEF PosInv
<1>6. Syncs(prog, i) \in Nat /\ Syncs(prog, h) \in Nat /\ Syncs(prog, h) <= Syncs(prog, i)
  BY <1>1, <1>4, SyncsCount, SyncsGrow
<1> HIDE DEF i, h
<1> QED BY <1>5, <1>6

(****************************************************************************)
(* What a step of one process leaves as it is.                               *)
(****************************************************************************)
LEMMA Operations ==
  ASSUME program \in Programs, NEW i \in DOMAIN program
  PROVE  /\ i \in Nat /\ i >= 1 /\ i <= Len(program) /\ Len(program) \in Nat
         /\ program \in Seq(Operation) /\ program[i] \in Operation
         /\ program[i].call = "alltoall" =>
              /\ program[i] \in calls /\ program[i].size \in Nat
              /\ program[i].buffer \in {"user", "other", "handle"}
              /\ program[i].size * NumProcs <= Bytes
              /\ i = 1 \/ (i - 1 \in DOMAIN program /\ program[i - 1].call = "MPI_Barrier")
<1>1. program \in Seq(Operation)
  BY ProgramsAssumption
<1>2. i \in Nat /\ i >= 1 /\ i <= Len(program) /\ Len(program) \in Nat /\ program[i] \in Operation
  BY <1>1
<1>3. ASSUME program[i].call = "alltoall"
      PROVE  /\ program[i] \in calls /\ program[i].size \in Nat
             /\ program[i].buffer \in {"user", "other", "handle"}
  BY <1>2, <1>3 DEF Operation, calls
<1>4. program[i].call = "alltoall" =>
        /\ program[i].size * NumProcs <= Bytes
        /\ i = 1 \/ program[i - 1].call = "MPI_Barrier"
  BY ProgramsAssumption
<1>5. i = 1 \/ i - 1 \in DOMAIN program
  BY <1>1, <1>2
<1> QED BY <1>1, <1>2, <1>3, <1>4, <1>5

LEMMA NextRank ==
  ASSUME NEW s \in Rank
  PROVE  next_rank(s) \in Rank /\ next_rank(s) = IF s + 1 = NumProcs THEN 0 ELSE s + 1
<1> DEFINE N == NumProcs
<1>1. N \in Nat /\ N >= 2 /\ s \in Nat /\ s < N
  BY NumProcsAssumption DEF Rank
<1>2. CASE s + 1 = N
  BY <1>1, <1>2, N % N = 0 DEF next_rank, Rank
<1>3. CASE s + 1 # N
  BY <1>1, <1>3, (s + 1) % N = s + 1 DEF next_rank, Rank
<1> QED BY <1>2, <1>3

(* The write loop takes the ranks in order, each once.                          *)
LEMMA Loop ==
  ASSUME NEW s \in Rank
  PROVE  /\ \A d \in Rank : ~Passed(s, next_rank(s), d) \/ d = s
         /\ \A d \in Rank : d # s => Passed(s, s, d)
         /\ \A t, d \in Rank : t # s /\ Passed(s, next_rank(t), d) => Passed(s, t, d) \/ d = t \/ d = s
         /\ \A t, d \in Rank : t # s /\ Passed(s, t, d) => Passed(s, next_rank(t), d)
         /\ \A t \in Rank : t # s => ~Passed(s, t, t) /\ Passed(s, next_rank(t), t)
<1>1. NumProcs \in Nat /\ \A d \in Rank : d \in Nat /\ d < NumProcs
  BY NumProcsAssumption DEF Rank
<1>2. \A d \in Rank : next_rank(d) = IF d + 1 = NumProcs THEN 0 ELSE d + 1
  BY NextRank
<1>3. \A d \in Rank : ~Passed(s, next_rank(s), d) \/ d = s
  BY <1>1, <1>2 DEF Passed
<1>4. \A d \in Rank : d # s => Passed(s, s, d)
  BY <1>1 DEF Passed
<1>5. ASSUME NEW t \in Rank, NEW d \in Rank, t # s
      PROVE  /\ Passed(s, next_rank(t), d) => Passed(s, t, d) \/ d = t \/ d = s
             /\ Passed(s, t, d) => Passed(s, next_rank(t), d)
             /\ ~Passed(s, t, t) /\ Passed(s, next_rank(t), t)
  BY <1>1, <1>2, <1>5 DEF Passed
<1> QED BY <1>3, <1>4, <1>5

LEMMA StandFrame ==
  ASSUME IInv, ~aborted, program' = program, NEW r \in Rank, NEW q,
         proc' = [proc EXCEPT ![r] = q],
         \A s \in Rank \ {r} : cache'[s] = cache[s],
         PosInv(program, q, cache'[r].first_call)
  PROVE  StandInv'
<1> SUFFICES ASSUME NEW s \in Rank PROVE PosInv(program, proc'[s], cache'[s].first_call)
  BY DEF StandInv
<1>1. CASE s = r
  BY <1>1 DEF IInv, TypeOK
<1>2. CASE s # r
  BY <1>2 DEF IInv, RunInv, StandInv, TypeOK
<1> QED BY <1>1, <1>2

LEMMA GatherFrame ==
  ASSUME IInv, ~aborted, NEW r \in Rank, NEW q, proc' = [proc EXCEPT ![r] = q],
         cache' = cache, proc[r].pc = "gather" => q.pc = "gather"
  PROVE  GatherInv'
<1> SUFFICES ASSUME NEW s \in Rank, NEW p \in Rank, ~cache[s].first_call, proc'[s].pc # "gather"
             PROVE  ~cache[p].first_call
  BY DEF GatherInv
<1>1. proc[s].pc # "gather"
  BY DEF IInv, TypeOK
<1> QED BY <1>1 DEF IInv, RunInv, GatherInv

LEMMA OrderFrame ==
  ASSUME IInv, ~aborted, program' = program, NEW r \in Rank, NEW q,
         proc' = [proc EXCEPT ![r] = q],
         \A j \in DOMAIN program : Done(proc[r], j) => Done(q, j),
         \A j \in DOMAIN program : \A p \in Rank :
           IsSync(program, j) /\ q.ip > j /\ ~(proc[r].ip > j) => Done(proc[p], j)
  PROVE  OrderInv'
<1> SUFFICES ASSUME NEW s \in Rank, NEW p \in Rank, NEW j \in DOMAIN program,
                    IsSync(program, j), proc'[s].ip > j
             PROVE  Done(proc'[p], j)
  BY DEF OrderInv
<1>1. Done(proc[p], j)
  <2>1. CASE proc[s].ip > j
    BY <2>1 DEF IInv, RunInv, OrderInv
  <2>2. CASE ~(proc[s].ip > j)
    BY <2>2 DEF IInv, TypeOK
  <2> QED BY <2>1, <2>2
<1>2. CASE p = r
  BY <1>1, <1>2 DEF IInv, TypeOK
<1>3. CASE p # r
  BY <1>1, <1>3 DEF IInv, TypeOK
<1> QED BY <1>2, <1>3

LEMMA CacheFrame ==
  ASSUME IInv, ~aborted, program' = program, cache' = cache
  PROVE  CacheInv'
<1>1. calls' = calls
  BY DEF calls
<1>2. CacheInv
  BY DEF IInv, RunInv
<1> QED BY <1>1, <1>2 DEF CacheInv, registered

LEMMA NetFrame ==
  ASSUME IInv, ~aborted, program' = program, NEW r \in Rank, NEW q,
         proc' = [proc EXCEPT ![r] = q],
         \A s \in Rank \ {r} : net'[s] = net[s],
         \A d \in Rank : net'[r][d] # <<>> =>
           Posted(q, r, d) /\ net'[r][d] = <<program[q.ip].size>>
  PROVE  NetInv'
<1> SUFFICES ASSUME NEW s \in Rank, NEW d \in Rank, net'[s][d] # <<>>
             PROVE  Posted(proc'[s], s, d) /\ net'[s][d] = <<program[proc'[s].ip].size>>
  BY DEF NetInv
<1>1. CASE s = r
  BY <1>1 DEF IInv, TypeOK
<1>2. CASE s # r
  <2>1. proc'[s] = proc[s] /\ net'[s] = net[s]
    BY <1>2 DEF IInv, TypeOK
  <2> QED BY <2>1 DEF IInv, RunInv, NetInv
<1> QED BY <1>1, <1>2

(* Operations begun stay so: a collective that is the newest was the newest.    *)
LEMMA NewestFrame ==
  ASSUME IInv, program' = program, NEW r \in Rank, NEW q, proc' = [proc EXCEPT ![r] = q],
         \A j \in DOMAIN program : Begun(proc[r], j) => Begun(q, j),
         NEW k \in DOMAIN program, Newest(program, proc', k)
  PROVE  Newest(program, proc, k)
<1> SUFFICES ASSUME NEW t \in Rank, NEW j \in DOMAIN program, IsCall(program, j), j > k
             PROVE  ~Begun(proc[t], j)
  BY DEF Newest
<1>1. ~Begun(proc'[t], j)
  BY DEF Newest
<1>2. CASE t = r
  BY <1>1, <1>2 DEF IInv, TypeOK
<1>3. CASE t # r
  BY <1>1, <1>3 DEF IInv, TypeOK
<1> QED BY <1>2, <1>3

LEMMA MemFrame ==
  ASSUME IInv, ~aborted, program' = program, mem' = mem, NEW r \in Rank, NEW q,
         proc' = [proc EXCEPT ![r] = q],
         \A s \in Rank \ {r} : net'[s] = net[s],
         \A j \in DOMAIN program : Begun(proc[r], j) => Begun(q, j),
         \A d \in Rank : \A k \in DOMAIN program :
           IsCall(program, k) /\ Landed(q, r, d, net'[r][d], k) => Landed(proc[r], r, d, net[r][d], k)
  PROVE  MemInv'
<1> SUFFICES ASSUME NEW s \in Rank, NEW d \in Rank, NEW k \in DOMAIN program,
                    IsCall(program, k), Landed(proc'[s], s, d, net'[s][d], k),
                    Newest(program, proc', k)
             PROVE  Block(mem[d], s, program[k].size, k)
  BY DEF MemInv
<1>1. Newest(program, proc, k)
  BY NewestFrame
<1>2. Landed(proc[s], s, d, net[s][d], k)
  <2>1. CASE s = r
    BY <2>1 DEF IInv, TypeOK
  <2>2. CASE s # r
    BY <2>2 DEF IInv, TypeOK
  <2> QED BY <2>1, <2>2
<1> QED BY <1>1, <1>2 DEF IInv, RunInv, MemInv

(****************************************************************************)
(* Steps of a call.                                                          *)
(****************************************************************************)
LEMMA Facts ==
  ASSUME IInv, ~aborted, NEW r \in Rank
  PROVE  /\ proc[r] \in Proc /\ PosInv(program, proc[r], cache[r].first_call)
         /\ cache[r] \in Cache /\ cache[r].first_call \in BOOLEAN
         /\ proc[r].ip \in Nat \ {0}
         /\ proc[r].pc \notin {"write", "flush"} => \A d \in Rank : net[r][d] = <<>>
         /\ proc[r].ip <= Len(program) => proc[r].ip \in DOMAIN program
<1>1. /\ proc[r] \in Proc /\ PosInv(program, proc[r], cache[r].first_call)
      /\ cache[r] \in Cache /\ cache[r].first_call \in BOOLEAN
  BY DEF IInv, RunInv, StandInv, TypeOK, Cache
<1>2. proc[r].pc \notin {"write", "flush"} => \A d \in Rank : net[r][d] = <<>>
  BY DEF IInv, RunInv, NetInv, Posted
<1>3. proc[r].ip \in Nat \ {0}
  BY <1>1 DEF Proc, PosInv
<1>4. program \in Seq(Operation)
  BY ProgramsAssumption DEF IInv
<1> QED BY <1>1, <1>2, <1>3, <1>4

LEMMA FirstCall ==
  ASSUME IInv, ~aborted, NEW r \in Rank, first_call(r)
  PROVE  IInv'
<1> DEFINE q == proc'[r]  i == proc[r].ip
<1>1. /\ i \in DOMAIN program /\ program[i].call = "alltoall" /\ IsCall(program, i)
      /\ proc[r].pc = "call" /\ cache[r].first_call
      /\ cache' = [cache EXCEPT ![r] = [first_call |-> FALSE, last |-> program[i].buffer,
                                        bytes |-> registered(program[i])]]
      /\ UNCHANGED <<program, net, mem, aborted>>
  BY Facts DEF first_call, at, running, op, IsCall
<1>2. /\ proc' = [proc EXCEPT ![r] = q] /\ q \in Proc
      /\ q.pc = "gather" /\ q.ip = i /\ q.syncs = proc[r].syncs + 1 /\ q.contents = i
  <2>1. proc \in [Rank -> Proc] /\ proc[r] \in Proc /\ i \in Nat
    BY Facts DEF IInv, TypeOK
  <2>2. proc' = [proc EXCEPT ![r].pc = "gather", ![r].syncs = @ + 1, ![r].contents = i]
    BY DEF first_call
  <2> QED BY <2>1, <2>2 DEF Proc
<1>3. registered(program[i]) \in Nat /\ program[i] \in calls
      /\ program[i].buffer \in {"user", "other", "handle"}
  BY <1>1, Operations, InBounds DEF IInv
<1>4. /\ cache'[r].first_call = FALSE /\ cache'[r].last = program[i].buffer
      /\ cache'[r].bytes = registered(program[i])
      /\ \A s \in Rank \ {r} : cache'[s] = cache[s]
  BY <1>1 DEF IInv, TypeOK
<1>5. cache' \in [Rank -> Cache]
  BY <1>1, <1>3 DEF IInv, TypeOK, Cache, Buffer
<1>6. TypeOK'
  BY <1>1, <1>2, <1>5 DEF IInv, TypeOK
<1> HIDE DEF q
<1>7. PosInv(program, q, FALSE)
  <2>1. PosInv(program, proc[r], TRUE)
    BY <1>1, Facts
  <2>2. Begun(q, i)
    BY <1>2 DEF Begun
  <2>3. \A j \in DOMAIN program : j < i => ~IsCall(program, j)
    BY <1>1, <2>1 DEF PosInv, Begun
  <2>4. q.syncs = Syncs(program, Entered(q)) + 1
    <3>1. proc[r].syncs = Syncs(program, Entered(proc[r])) + 0
      BY <2>1 DEF PosInv
    <3>2. Entered(q) = Entered(proc[r]) /\ Entered(q) \in Nat
      BY <1>1, <1>2, Facts DEF Entered
    <3>3. Syncs(program, Entered(q)) \in Nat
      BY <3>2, SyncsCount
    <3> QED BY <1>2, <3>1, <3>2, <3>3
  <2> QED BY <1>1, <1>2, <2>1, <2>2, <2>3, <2>4 DEF PosInv
<1>8. StandInv'
  BY <1>1, <1>2, <1>4, <1>7, StandFrame
<1>9. GatherInv'
  <2> SUFFICES ASSUME NEW s \in Rank, NEW p \in Rank, ~cache'[s].first_call, proc'[s].pc # "gather"
               PROVE  ~cache'[p].first_call
    BY DEF GatherInv
  <2>1. s # r
    BY <1>2 DEF IInv, TypeOK
  <2>2. ~cache[s].first_call /\ proc[s].pc # "gather"
    BY <1>2, <1>4, <2>1 DEF IInv, TypeOK
  <2>3. ~cache[r].first_call
    BY <2>2 DEF IInv, RunInv, GatherInv
  <2> QED BY <1>1, <2>3
<1>10. OrderInv'
  BY <1>1, <1>2, OrderFrame DEF Done
<1>11. CacheInv'
  <2>1. calls' = calls
    BY <1>1 DEF calls
  <2> SUFFICES ASSUME NEW s \in Rank, ~cache'[s].first_call
               PROVE  \E c \in calls : cache'[s].last = c.buffer /\ cache'[s].bytes = registered(c)
    BY <2>1 DEF CacheInv, registered
  <2>2. CASE s = r
    BY <1>3, <1>4, <2>2
  <2>3. CASE s # r
    BY <1>4, <2>3 DEF IInv, RunInv, CacheInv
  <2> QED BY <2>2, <2>3
<1>12. NetInv'
  BY <1>1, <1>2, Facts, NetFrame
<1>13. MemInv'
  <2>1. \A j \in DOMAIN program : Begun(proc[r], j) => Begun(q, j)
    BY <1>2 DEF Begun
  <2>2. ASSUME NEW d \in Rank, NEW k \in DOMAIN program, Landed(q, r, d, net'[r][d], k)
        PROVE  Landed(proc[r], r, d, net[r][d], k)
    BY <1>1, <1>2, <2>2 DEF Landed, Posted, Done
  <2> QED BY <1>1, <1>2, <2>1, <2>2, MemFrame
<1> QED BY <1>1, <1>6, <1>8, <1>9, <1>10, <1>11, <1>12, <1>13 DEF IInv, RunInv

LEMMA PosWithin ==
  ASSUME NEW prog, NEW p, NEW q, NEW f, PosInv(prog, p, f), q.ip = p.ip, q.syncs = p.syncs,
         q.contents = p.contents, p.pc \in {"gather", "write", "flush"}, q.pc \in {"write", "flush"}
  PROVE  PosInv(prog, q, f)
<1>1. \A j \in DOMAIN prog : Begun(q, j) <=> Begun(p, j)
  BY DEF Begun
<1>2. Entered(q) = Entered(p)
  BY DEF Entered
<1>3. f <=> \A j \in DOMAIN prog : IsCall(prog, j) => ~Begun(q, j)
  BY <1>1, Zenon DEF PosInv
<1> QED BY <1>2, <1>3 DEF PosInv

(* A collective is entered: q goes into the barrier of its operation.           *)
LEMMA PosEnter ==
  ASSUME NEW prog, NEW p \in Proc, NEW q \in Proc, NEW f \in BOOLEAN, PosInv(prog, p, f), q.ip = p.ip,
         q.syncs = p.syncs + 1, q.pc = "barrier", IsSync(prog, p.ip), p.pc # "barrier",
         p.pc # "call" \/ ~IsCall(prog, p.ip)
  PROVE  PosInv(prog, q, f)
<1> DEFINE i == p.ip  a == IF f THEN 0 ELSE 1
<1>1. \A j \in DOMAIN prog : IsCall(prog, j) => (Begun(q, j) <=> Begun(p, j))
  BY DEF Begun
<1>2. f <=> \A j \in DOMAIN prog : IsCall(prog, j) => ~Begun(q, j)
  BY <1>1, Zenon DEF PosInv
<1>3. i \in Nat \ {0} /\ i - 1 \in Nat /\ a \in Nat
  BY DEF PosInv, Proc
<1>4. q.syncs = Syncs(prog, Entered(q)) + a
  <2>1. Entered(q) = i /\ Entered(p) = i - 1
    BY DEF Entered
  <2>2. p.syncs = Syncs(prog, i - 1) + a
    BY <2>1 DEF PosInv
  <2>3. Syncs(prog, i) = Syncs(prog, i - 1) + 1 /\ Syncs(prog, i - 1) \in Nat
    BY <1>3, SyncsNext, SyncsCount
  <2> HIDE DEF a, i
  <2> QED BY <1>3, <2>1, <2>2, <2>3
<1> QED BY <1>2, <1>4 DEF PosInv

LEMMA Gather ==
  ASSUME IInv, ~aborted, NEW r \in Rank, gather(r)
  PROVE  IInv'
<1> DEFINE q == proc'[r]  i == proc[r].ip
<1>1. /\ i \in DOMAIN program /\ proc[r].pc = "gather" /\ synced(r)
      /\ UNCHANGED <<program, cache, net, mem, aborted>>
  BY Facts DEF gather, at, running
<1>2. /\ proc' = [proc EXCEPT ![r] = q] /\ q \in Proc
      /\ q.pc = "write" /\ q.ip = i /\ q.syncs = proc[r].syncs
      /\ q.dst = next_rank(r) /\ q.contents = proc[r].contents
  <2>1. proc \in [Rank -> Proc] /\ proc[r] \in Proc /\ next_rank(r) \in Rank
    BY Facts, NextRank DEF IInv, TypeOK
  <2>2. proc' = [proc EXCEPT ![r].pc = "write", ![r].dst = next_rank(r)]
    BY DEF gather
  <2> QED BY <2>1, <2>2 DEF Proc
<1>3. TypeOK'
  BY <1>1, <1>2 DEF IInv, TypeOK
<1> HIDE DEF q
<1>4. PosInv(program, q, cache[r].first_call)
  BY <1>1, <1>2, Facts, PosWithin
<1>5. StandInv'
  BY <1>1, <1>2, <1>4, StandFrame
<1>6. GatherInv'
  <2> SUFFICES ASSUME NEW s \in Rank, NEW p \in Rank, ~cache[s].first_call, proc'[s].pc # "gather"
               PROVE  ~cache[p].first_call
    BY <1>1 DEF GatherInv
  <2>1. CASE s = r
    <3>1. proc[p].syncs >= proc[r].syncs
      BY <1>1 DEF synced
    <3>2. program \in Seq(Operation)
      BY ProgramsAssumption DEF IInv
    <3> QED BY <1>1, <3>1, <3>2, Facts, SyncedGather
  <2>2. CASE s # r
    <3>1. proc[s].pc # "gather"
      BY <1>2, <2>2 DEF IInv, TypeOK
    <3> QED BY <3>1 DEF IInv, RunInv, GatherInv
  <2> QED BY <2>1, <2>2
<1>7. OrderInv'
  BY <1>1, <1>2, OrderFrame DEF Done
<1>8. CacheInv'
  BY <1>1, CacheFrame
<1>9. NetInv'
  BY <1>1, <1>2, Facts, NetFrame
<1>10. MemInv'
  <2>1. \A j \in DOMAIN program : Begun(proc[r], j) => Begun(q, j)
    BY <1>1, <1>2 DEF Begun
  <2>2. ASSUME NEW d \in Rank, NEW k \in DOMAIN program, Landed(q, r, d, net'[r][d], k)
        PROVE  Landed(proc[r], r, d, net[r][d], k)
    BY <1>1, <1>2, <2>2, Loop DEF Landed, Posted, Done
  <2> QED BY <1>1, <1>2, <2>1, <2>2, MemFrame
<1> QED BY <1>1, <1>3, <1>5, <1>6, <1>7, <1>8, <1>9, <1>10 DEF IInv, RunInv

LEMMA Aborts ==
  ASSUME IInv, NEW r \in Rank, abort(r), UNCHANGED <<program, cache, mem>>,
         net' \in [Rank -> [Rank -> Seq(Nat)]]
  PROVE  IInv'
<1>1. proc' \in [Rank -> Proc]
  <2>1. proc \in [Rank -> Proc] /\ proc' = [proc EXCEPT ![r].pc = "aborted"]
    BY DEF IInv, TypeOK, abort
  <2> QED BY <2>1 DEF Proc
<1> QED BY <1>1 DEF IInv, TypeOK, abort

LEMMA LaterCall ==
  ASSUME IInv, ~aborted, NEW r \in Rank, later_call(r)
  PROVE  IInv'
<1> DEFINE q == proc'[r]  i == proc[r].ip
<1>1. CASE cache[r].last # op(r).buffer
  BY <1>1, Aborts DEF later_call, IInv, TypeOK
<1>2. CASE cache[r].last = op(r).buffer
  <2>1. /\ i \in DOMAIN program /\ IsCall(program, i)
        /\ proc[r].pc = "call" /\ ~cache[r].first_call
        /\ UNCHANGED <<program, cache, net, mem, aborted>>
    BY <1>2, Facts DEF later_call, at, running, op, IsCall
  <2>2. /\ proc' = [proc EXCEPT ![r] = q] /\ q \in Proc
        /\ q.pc = "write" /\ q.ip = i /\ q.syncs = proc[r].syncs
        /\ q.dst = next_rank(r) /\ q.contents = i
    <3>1. proc \in [Rank -> Proc] /\ proc[r] \in Proc /\ next_rank(r) \in Rank /\ i \in Nat
      BY Facts, NextRank DEF IInv, TypeOK
    <3>2. proc' = [proc EXCEPT ![r].pc = "write", ![r].dst = next_rank(r), ![r].contents = i]
      BY <1>2 DEF later_call
    <3> QED BY <3>1, <3>2 DEF Proc
  <2>3. TypeOK'
    BY <2>1, <2>2 DEF IInv, TypeOK
  <2> HIDE DEF q
  <2>4. PosInv(program, q, FALSE)
    <3>1. PosInv(program, proc[r], FALSE)
      BY <2>1, Facts
    <3>2. PICK j \in DOMAIN program : IsCall(program, j) /\ Begun(proc[r], j)
      BY <3>1 DEF PosInv
    <3>3. Begun(q, j)
      BY <2>1, <2>2, <3>2 DEF Begun
    <3>4. Entered(q) = Entered(proc[r])
      BY <2>1, <2>2 DEF Entered
    <3> QED BY <2>1, <2>2, <3>1, <3>2, <3>3, <3>4 DEF PosInv
  <2>5. StandInv'
    BY <2>1, <2>2, <2>4, StandFrame, Facts
  <2>6. GatherInv'
    BY <2>1, <2>2, GatherFrame
  <2>7. OrderInv'
    BY <2>1, <2>2, OrderFrame DEF Done
  <2>8. CacheInv'
    BY <2>1, CacheFrame
  <2>9. NetInv'
    BY <2>1, <2>2, Facts, NetFrame
  <2>10. MemInv'
    <3>1. \A j \in DOMAIN program : Begun(proc[r], j) => Begun(q, j)
      BY <2>1, <2>2 DEF Begun
    <3>2. ASSUME NEW d \in Rank, NEW k \in DOMAIN program, Landed(q, r, d, net'[r][d], k)
          PROVE  Landed(proc[r], r, d, net[r][d], k)
      BY <2>1, <2>2, <3>2, Loop DEF Landed, Posted, Done
    <3> QED BY <2>1, <2>2, <3>1, <3>2, MemFrame
  <2> QED BY <2>1, <2>3, <2>5, <2>6, <2>7, <2>8, <2>9, <2>10 DEF IInv, RunInv
<1> QED BY <1>1, <1>2

LEMMA PostWrite ==
  ASSUME IInv, ~aborted, NEW r \in Rank, write(r)
  PROVE  IInv'
<1> DEFINE q == proc'[r]  i == proc[r].ip  d == proc[r].dst  size == program[i].size
<1>1. /\ i \in DOMAIN program /\ IsCall(program, i) /\ proc[r].pc = "write" /\ d # r /\ d \in Rank
      /\ size \in Nat /\ UNCHANGED <<program, cache, mem>> /\ op(r) = program[i]
  BY Facts, Operations DEF write, at, running, op, PosInv, IsCall, IInv, Proc
<1>2. CASE (d + 1) * size > cache[r].bytes
  <2>1. abort(r) /\ net' = net
    BY <1>1, <1>2 DEF write
  <2> QED BY <1>1, <2>1, Aborts DEF IInv, TypeOK
<1>3. CASE ~((d + 1) * size > cache[r].bytes)
  <2>1. net' = [net EXCEPT ![r][d] = Append(net[r][d], size)] /\ UNCHANGED aborted
    BY <1>1, <1>3 DEF write
  <2>2. /\ proc' = [proc EXCEPT ![r] = q] /\ q \in Proc
        /\ q.pc = "write" /\ q.ip = i /\ q.syncs = proc[r].syncs
        /\ q.dst = next_rank(d) /\ q.contents = proc[r].contents
    <3>1. proc \in [Rank -> Proc] /\ proc[r] \in Proc /\ next_rank(d) \in Rank
      BY <1>1, Facts, NextRank DEF IInv, TypeOK
    <3>2. proc' = [proc EXCEPT ![r].dst = next_rank(d)]
      BY <1>1, <1>3 DEF write
    <3> QED BY <1>1, <3>1, <3>2 DEF Proc
  <2>3. net[r][d] = <<>>
    BY <1>1, Loop DEF IInv, RunInv, NetInv, Posted
  <2>4. /\ net' \in [Rank -> [Rank -> Seq(Nat)]]
        /\ \A s \in Rank \ {r} : net'[s] = net[s]
        /\ net'[r][d] = <<size>>
        /\ \A e \in Rank \ {d} : net'[r][e] = net[r][e]
    <3>1. net \in [Rank -> [Rank -> Seq(Nat)]] /\ Append(net[r][d], size) = <<size>>
      BY <1>1, <2>3 DEF IInv, TypeOK
    <3> HIDE DEF size, d
    <3>2. net' = [net EXCEPT ![r][d] = <<size>>] /\ <<size>> \in Seq(Nat)
      BY <1>1, <2>1, <3>1
    <3> QED BY <1>1, <3>1, <3>2
  <2>5. TypeOK'
    BY <1>1, <2>1, <2>2, <2>4 DEF IInv, TypeOK
  <2> HIDE DEF q
  <2>6. PosInv(program, q, cache[r].first_call)
    BY <1>1, <2>2, Facts, PosWithin
  <2>7. StandInv'
    BY <1>1, <2>2, <2>6, StandFrame
  <2>8. GatherInv'
    BY <1>1, <2>2, GatherFrame
  <2>9. OrderInv'
    BY <1>1, <2>2, OrderFrame DEF Done
  <2>10. CacheInv'
    BY <1>1, CacheFrame
  <2>11. ASSUME NEW e \in Rank
         PROVE  Posted(q, r, e) <=> e = d \/ Posted(proc[r], r, e)
    BY <1>1, <2>2, Loop DEF Posted
  <2>12. NetInv'
    <3>1. ASSUME NEW e \in Rank, net'[r][e] # <<>>
          PROVE  Posted(q, r, e) /\ net'[r][e] = <<program[q.ip].size>>
      <4>1. CASE e = d
        BY <2>2, <2>4, <2>11, <4>1
      <4>2. CASE e # d
        BY <2>2, <2>4, <2>11, <3>1, <4>2 DEF IInv, RunInv, NetInv
      <4> QED BY <4>1, <4>2
    <3> QED BY <1>1, <2>2, <2>4, <3>1, NetFrame
  <2>13. MemInv'
    <3>1. \A j \in DOMAIN program : Begun(proc[r], j) => Begun(q, j)
      BY <1>1, <2>2 DEF Begun
    <3>2. ASSUME NEW e \in Rank, NEW k \in DOMAIN program, Landed(q, r, e, net'[r][e], k)
          PROVE  Landed(proc[r], r, e, net[r][e], k)
      <4>1. CASE e = d
        <5>1. net'[r][e] # <<>> /\ d # r
          <6>1. net'[r][e] = <<size>>
            BY <2>4, <4>1
          <6>2. <<size>> # <<>>
            OBVIOUS
          <6> QED BY <1>1, <6>1, <6>2
        <5>2. Done(q, k)
          BY <3>2, <4>1, <5>1 DEF Landed
        <5> QED BY <1>1, <2>2, <5>2 DEF Landed, Done
      <4>2. CASE e # d
        <5>1. Posted(q, r, e) <=> Posted(proc[r], r, e)
          BY <2>11, <4>2
        <5> QED BY <1>1, <2>2, <2>4, <3>2, <4>2, <5>1 DEF Landed, Done
      <4> QED BY <4>1, <4>2
    <3> QED BY <1>1, <2>2, <2>4, <3>1, <3>2, MemFrame
  <2> QED BY <1>1, <2>1, <2>5, <2>7, <2>8, <2>9, <2>10, <2>12, <2>13 DEF IInv, RunInv
<1> QED BY <1>2, <1>3

(* A rank stores its block: what has landed of this call and of earlier ones    *)
(* stays, for its block is the only one of the call it touches, and it stores   *)
(* no more of a call before the newest.                                         *)
LEMMA MemStore ==
  ASSUME IInv, ~aborted, program' = program, NEW r \in Rank, NEW d \in Rank, NEW q,
         proc' = [proc EXCEPT ![r] = q], q.ip = proc[r].ip,
         proc[r].pc \in {"write", "flush"}, q.pc \in {"write", "flush"},
         mem' = [mem EXCEPT ![d] = Stored(d, r, program[proc[r].ip].size)],
         \A s \in Rank \ {r} : net'[s] = net[s],
         \A e \in Rank \ {d} : \A k \in DOMAIN program :
           Landed(q, r, e, net'[r][e], k) => Landed(proc[r], r, e, net[r][e], k)
  PROVE  MemInv'
<1> DEFINE i == proc[r].ip  size == program[i].size
<1>1. /\ i \in DOMAIN program /\ IsCall(program, i) /\ size \in Nat /\ size * NumProcs <= Bytes
      /\ proc[r].contents = i /\ proc[r].ip \in Nat
  BY Facts, Operations DEF PosInv, IsCall, IInv
<1>2. \A j \in DOMAIN program : Begun(proc[r], j) => Begun(q, j)
  BY <1>1, Operations DEF Begun, IInv
<1> SUFFICES ASSUME NEW s \in Rank, NEW e \in Rank, NEW k \in DOMAIN program,
                    IsCall(program, k), Landed(proc'[s], s, e, net'[s][e], k),
                    Newest(program, proc', k)
             PROVE  Block(mem'[e], s, program[k].size, k)
  BY DEF MemInv
<1>3. Newest(program, proc, k)
  BY <1>2, NewestFrame
<1>4. Begun(proc[r], i)
  BY DEF Begun
<1>5. i <= k /\ k \in Nat
  BY <1>1, <1>3, <1>4, Operations DEF Newest, IInv
<1>6. mem \in [Rank -> [0 .. Bytes - 1 -> Byte]]
  BY DEF IInv, TypeOK
<1>7. CASE s = r /\ e = d
  <2>1. k = i
    BY <1>1, <1>5, <1>7 DEF Landed, Done, IInv, TypeOK
  <2> SUFFICES ASSUME NEW b \in r * size .. (r + 1) * size - 1
               PROVE  mem'[d][b] = [from |-> r, call |-> i]
    BY <1>7, <2>1 DEF Block
  <2>2. b \in DOMAIN mem[d]
    BY <1>1, <1>6, Blocks
  <2>3. mem'[d] = Stored(d, r, size)
    BY <1>6
  <2> HIDE DEF size
  <2> QED BY <1>1, <2>2, <2>3 DEF Stored
<1>8. CASE ~(s = r /\ e = d)
  <2>1. Landed(proc[s], s, e, net[s][e], k)
    <3>1. CASE s = r
      BY <1>8, <3>1 DEF IInv, TypeOK
    <3>2. CASE s # r
      BY <3>2 DEF IInv, TypeOK
    <3> QED BY <3>1, <3>2
  <2>2. Block(mem[e], s, program[k].size, k)
    BY <1>3, <2>1 DEF IInv, RunInv, MemInv
  <2>3. CASE e # d
    BY <1>6, <2>2, <2>3
  <2>4. CASE e = d
    <3>1. s # r
      BY <1>8, <2>4
    <3>2. k = i
      <4> SUFFICES ASSUME i < k PROVE FALSE
        BY <1>1, <1>5
      <4>1. proc[s].ip > i
        <5>1. proc[s].ip \in Nat /\ proc[s].ip >= k
          BY <1>5, <2>1, Facts DEF Landed, Done
        <5> QED BY <1>1, <1>5, <5>1
      <4>2. IsSync(program, i)
        BY <1>1 DEF IsSync, IsCall
      <4>3. Done(proc[r], i)
        BY <1>1, <4>1, <4>2 DEF IInv, RunInv, OrderInv
      <4> QED BY <1>1, <4>3 DEF Done
    <3> SUFFICES ASSUME NEW b \in s * size .. (s + 1) * size - 1
                 PROVE  mem'[d][b] = [from |-> s, call |-> k]
      BY <2>4, <3>2 DEF Block
    <3>3. b \in DOMAIN mem[d] /\ b \notin r * size .. (r + 1) * size - 1
      BY <1>1, <1>6, <3>1, Blocks
    <3>4. mem'[d] = Stored(d, r, size)
      BY <1>6
    <3>5. mem[d][b] = [from |-> s, call |-> k]
      BY <2>2, <2>4, <3>2 DEF Block
    <3> HIDE DEF size
    <3> QED BY <3>3, <3>4, <3>5 DEF Stored
  <2> QED BY <2>3, <2>4
<1> QED BY <1>7, <1>8

LEMMA StoredType ==
  ASSUME IInv, NEW r \in Rank, NEW d \in Rank, NEW size
  PROVE  [mem EXCEPT ![d] = Stored(d, r, size)] \in [Rank -> [0 .. Bytes - 1 -> Byte]]
<1>1. proc[r].contents \in Nat /\ mem \in [Rank -> [0 .. Bytes - 1 -> Byte]]
  BY DEF IInv, TypeOK, Proc
<1>2. [from |-> r, call |-> proc[r].contents] \in Byte
  BY <1>1 DEF Byte
<1>3. Stored(d, r, size) \in [0 .. Bytes - 1 -> Byte]
  BY <1>1, <1>2 DEF Stored
<1> QED BY <1>1, <1>3

LEMMA CopyOwn ==
  ASSUME IInv, ~aborted, NEW r \in Rank, copy_own(r)
  PROVE  IInv'
<1> DEFINE q == proc'[r]  i == proc[r].ip  size == program[i].size
<1>1. /\ i \in DOMAIN program /\ proc[r].pc = "write" /\ proc[r].dst = r
      /\ UNCHANGED <<program, cache, net, aborted>>
      /\ mem' = [mem EXCEPT ![r] = Stored(r, r, size)]
  BY Facts DEF copy_own, at, running, op
<1>2. /\ proc' = [proc EXCEPT ![r] = q] /\ q \in Proc
      /\ q.pc = "flush" /\ q.ip = i /\ q.syncs = proc[r].syncs
      /\ q.contents = proc[r].contents
  <2>1. proc \in [Rank -> Proc] /\ proc[r] \in Proc
    BY DEF IInv, TypeOK
  <2>2. proc' = [proc EXCEPT ![r].pc = "flush"]
    BY DEF copy_own
  <2> QED BY <2>1, <2>2 DEF Proc
<1>3. TypeOK'
  BY <1>1, <1>2, StoredType DEF IInv, TypeOK
<1> HIDE DEF q
<1>4. PosInv(program, q, cache[r].first_call)
  BY <1>1, <1>2, Facts, PosWithin
<1>5. StandInv'
  BY <1>1, <1>2, <1>4, StandFrame
<1>6. GatherInv'
  BY <1>1, <1>2, GatherFrame
<1>7. OrderInv'
  BY <1>1, <1>2, OrderFrame DEF Done
<1>8. CacheInv'
  BY <1>1, CacheFrame
<1>9. \A e \in Rank : Posted(q, r, e) <=> Posted(proc[r], r, e)
  BY <1>1, <1>2, Loop DEF Posted
<1>10. NetInv'
  <2>1. ASSUME NEW e \in Rank, net'[r][e] # <<>>
        PROVE  Posted(q, r, e) /\ net'[r][e] = <<program[q.ip].size>>
    BY <1>1, <1>2, <1>9, <2>1 DEF IInv, RunInv, NetInv
  <2> QED BY <1>1, <1>2, <2>1, NetFrame
<1>11. MemInv'
  <2>1. ASSUME NEW e \in Rank \ {r}, NEW k \in DOMAIN program, Landed(q, r, e, net'[r][e], k)
        PROVE  Landed(proc[r], r, e, net[r][e], k)
    BY <1>1, <1>2, <1>9, <2>1 DEF Landed, Done
  <2> QED BY <1>1, <1>2, <2>1, MemStore
<1> QED BY <1>1, <1>3, <1>5, <1>6, <1>7, <1>8, <1>10, <1>11 DEF IInv, RunInv

LEMMA Flush ==
  ASSUME IInv, ~aborted, NEW r \in Rank, flush(r)
  PROVE  IInv'
<1> DEFINE q == proc'[r]  i == proc[r].ip
<1>1. /\ i \in DOMAIN program /\ IsCall(program, i) /\ proc[r].pc = "flush"
      /\ \A d \in Rank : net[r][d] = <<>>
      /\ UNCHANGED <<program, cache, net, mem, aborted>>
  BY Facts DEF flush, at, running, PosInv
<1>2. /\ proc' = [proc EXCEPT ![r] = q] /\ q \in Proc
      /\ q.pc = "barrier" /\ q.ip = i /\ q.syncs = proc[r].syncs + 1
  <2>1. proc \in [Rank -> Proc] /\ proc[r] \in Proc
    BY DEF IInv, TypeOK
  <2>2. proc' = [proc EXCEPT ![r].pc = "barrier", ![r].syncs = @ + 1]
    BY DEF flush
  <2> QED BY <2>1, <2>2 DEF Proc
<1>3. TypeOK'
  BY <1>1, <1>2 DEF IInv, TypeOK
<1> HIDE DEF q
<1>4. PosInv(program, q, cache[r].first_call)
  BY <1>1, <1>2, Facts, PosEnter DEF IsSync, IsCall
<1>5. StandInv'
  BY <1>1, <1>2, <1>4, StandFrame
<1>6. GatherInv'
  BY <1>1, <1>2, GatherFrame
<1>7. OrderInv'
  BY <1>1, <1>2, OrderFrame DEF Done
<1>8. CacheInv'
  BY <1>1, CacheFrame
<1>9. NetInv'
  BY <1>1, <1>2, NetFrame
<1>10. MemInv'
  <2>1. \A j \in DOMAIN program : Begun(proc[r], j) => Begun(q, j)
    BY <1>1, <1>2 DEF Begun
  <2>2. ASSUME NEW d \in Rank, NEW k \in DOMAIN program, Landed(q, r, d, net'[r][d], k)
        PROVE  Landed(proc[r], r, d, net[r][d], k)
    BY <1>1, <1>2, <2>2 DEF Landed, Posted, Done
  <2> QED BY <1>1, <1>2, <2>1, <2>2, MemFrame
<1> QED BY <1>1, <1>3, <1>5, <1>6, <1>7, <1>8, <1>9, <1>10 DEF IInv, RunInv

LEMMA EnterBarrier ==
  ASSUME IInv, ~aborted, NEW r \in Rank, enter_barrier(r)
  PROVE  IInv'
<1> DEFINE q == proc'[r]  i == proc[r].ip
<1>1. /\ i \in DOMAIN program /\ program[i].call = "MPI_Barrier" /\ proc[r].pc = "call"
      /\ UNCHANGED <<program, cache, net, mem, aborted>>
  BY Facts DEF enter_barrier, at, running, op
<1>2. /\ proc' = [proc EXCEPT ![r] = q] /\ q \in Proc
      /\ q.pc = "barrier" /\ q.ip = i /\ q.syncs = proc[r].syncs + 1
  <2>1. proc \in [Rank -> Proc] /\ proc[r] \in Proc
    BY DEF IInv, TypeOK
  <2>2. proc' = [proc EXCEPT ![r].pc = "barrier", ![r].syncs = @ + 1]
    BY DEF enter_barrier
  <2> QED BY <2>1, <2>2 DEF Proc
<1>3. TypeOK'
  BY <1>1, <1>2 DEF IInv, TypeOK
<1> HIDE DEF q
<1>4. PosInv(program, q, cache[r].first_call)
  BY <1>1, <1>2, Facts, PosEnter DEF IsSync, IsCall
<1>5. StandInv'
  BY <1>1, <1>2, <1>4, StandFrame
<1>6. GatherInv'
  BY <1>1, <1>2, GatherFrame
<1>7. OrderInv'
  BY <1>1, <1>2, OrderFrame DEF Done
<1>8. CacheInv'
  BY <1>1, CacheFrame
<1>9. NetInv'
  BY <1>1, <1>2, Facts, NetFrame
<1>10. MemInv'
  <2>1. \A j \in DOMAIN program : Begun(proc[r], j) => Begun(q, j)
    BY <1>1, <1>2 DEF Begun
  <2>2. ASSUME NEW d \in Rank, NEW k \in DOMAIN program, IsCall(program, k),
               Landed(q, r, d, net'[r][d], k)
        PROVE  Landed(proc[r], r, d, net[r][d], k)
    BY <1>1, <1>2, <2>2 DEF Landed, Posted, Done, IsCall
  <2> QED BY <1>1, <1>2, <2>1, <2>2, MemFrame
<1> QED BY <1>1, <1>3, <1>5, <1>6, <1>7, <1>8, <1>9, <1>10 DEF IInv, RunInv

(* A rank goes on to its next operation, which it may if the one it ends has no *)
(* collective, or all have entered it.                                          *)
LEMMA GoOn ==
  ASSUME IInv, ~aborted, NEW r \in Rank, NEW q \in Proc, proc' = [proc EXCEPT ![r] = q],
         UNCHANGED <<program, cache, net, mem, aborted>>, proc[r].ip \in DOMAIN program,
         q.pc = "call", q.ip = proc[r].ip + 1, q.syncs = proc[r].syncs,
         \/ proc[r].pc = "barrier" /\ synced(r)
         \/ proc[r].pc = "call" /\ program[proc[r].ip].call = "check"
  PROVE  IInv'
<1> DEFINE i == proc[r].ip
<1>1. i \in Nat \ {0} /\ i <= Len(program) /\ Len(program) \in Nat /\ \A j \in DOMAIN program : j \in Nat
  BY Operations DEF IInv
<1>2. PosInv(program, proc[r], cache[r].first_call) /\ cache[r].first_call \in BOOLEAN
  BY Facts
<1>3. TypeOK'
  BY DEF IInv, TypeOK
<1>4. PosInv(program, q, cache[r].first_call)
  <2>1. \A j \in DOMAIN program : IsCall(program, j) => (Begun(q, j) <=> Begun(proc[r], j))
    BY <1>1 DEF Begun, IsCall
  <2>2. Syncs(program, Entered(q)) = Syncs(program, Entered(proc[r]))
    <3>1. Entered(q) = i
      BY <1>1 DEF Entered
    <3>2. CASE proc[r].pc = "barrier"
      BY <3>1, <3>2 DEF Entered
    <3>3. CASE proc[r].pc = "call" /\ program[i].call = "check"
      BY <1>1, <3>1, <3>3, SyncsNext DEF Entered, IsSync
    <3> QED BY <3>2, <3>3
  <2>3. cache[r].first_call <=> \A j \in DOMAIN program : IsCall(program, j) => ~Begun(q, j)
    BY <1>2, <2>1, Zenon DEF PosInv
  <2> QED BY <1>1, <1>2, <2>2, <2>3 DEF PosInv
<1>5. StandInv'
  BY <1>4, StandFrame
<1>6. GatherInv'
  BY GatherFrame
<1>7. OrderInv'
  <2>1. ASSUME NEW j \in DOMAIN program, Done(proc[r], j)
        PROVE  Done(q, j)
    BY <1>1, <2>1 DEF Done
  <2>2. ASSUME NEW j \in DOMAIN program, NEW p \in Rank,
               IsSync(program, j), q.ip > j, ~(proc[r].ip > j)
        PROVE  Done(proc[p], j)
    <3>1. j = i
      BY <1>1, <2>2
    <3>2. proc[r].pc = "barrier" /\ synced(r)
      BY <2>2, <3>1 DEF IsSync
    <3>3. proc[p].syncs >= proc[r].syncs
      BY <3>2 DEF synced
    <3>4. program \in Seq(Operation)
      BY ProgramsAssumption DEF IInv
    <3> QED BY <3>1, <3>2, <3>3, <3>4, Facts, SyncedBarrier
  <2> QED BY <2>1, <2>2, OrderFrame
<1>8. CacheInv'
  BY CacheFrame
<1>9. NetInv'
  BY Facts, NetFrame
<1>10. MemInv'
  <2>1. \A j \in DOMAIN program : Begun(proc[r], j) => Begun(q, j)
    BY <1>1 DEF Begun
  <2>2. ASSUME NEW d \in Rank, NEW k \in DOMAIN program, IsCall(program, k),
               Landed(q, r, d, net'[r][d], k)
        PROVE  Landed(proc[r], r, d, net[r][d], k)
    BY <1>1, <2>2 DEF Landed, Posted, Done, IsCall
  <2> QED BY <2>1, <2>2, MemFrame
<1> QED BY <1>3, <1>5, <1>6, <1>7, <1>8, <1>9, <1>10 DEF IInv, RunInv

LEMMA Leave ==
  ASSUME IInv, ~aborted, NEW r \in Rank, return(r) \/ leave_barrier(r) \/ check(r)
  PROVE  IInv'
<1> DEFINE q == proc'[r]
<1>1. /\ proc[r].ip \in DOMAIN program
      /\ UNCHANGED <<program, cache, net, mem, aborted>>
      /\ \/ proc[r].pc = "barrier" /\ synced(r)
         \/ proc[r].pc = "call" /\ program[proc[r].ip].call = "check"
  BY Facts DEF return, leave_barrier, check, at, running, op
<1>2. proc \in [Rank -> Proc] /\ proc[r] \in Proc
  BY DEF IInv, TypeOK
<1>3. /\ proc' = [proc EXCEPT ![r] = q] /\ q \in Proc
      /\ q.pc = "call" /\ q.ip = proc[r].ip + 1 /\ q.syncs = proc[r].syncs
  <2>1. CASE return(r) \/ leave_barrier(r)
    <3>1. proc' = [proc EXCEPT ![r].pc = "call", ![r].ip = @ + 1]
      BY <2>1 DEF return, leave_barrier
    <3> QED BY <1>2, <3>1 DEF Proc
  <2>2. CASE check(r)
    <3>1. proc' = [proc EXCEPT ![r].ip = @ + 1] /\ proc[r].pc = "call"
      BY <2>2 DEF check, at
    <3> QED BY <1>2, <3>1 DEF Proc
  <2> QED BY <2>1, <2>2
<1> HIDE DEF q
<1> QED BY <1>1, <1>3, GoOn

LEMMA HcaWrite ==
  ASSUME IInv, ~aborted, NEW r \in Rank, NEW d \in Rank, hca_write(r, d)
  PROVE  IInv'
<1> DEFINE i == proc[r].ip  size == program[i].size
<1>1. /\ Posted(proc[r], r, d) /\ net[r][d] = <<size>> /\ net[r][d] # <<>>
      /\ UNCHANGED <<program, cache>>
  BY DEF hca_write, IInv, RunInv, NetInv
<1>2. Head(net[r][d]) = size /\ Tail(net[r][d]) = <<>> /\ proc[r].pc \in {"write", "flush"}
  BY <1>1 DEF Posted
<1>3. /\ net' = [net EXCEPT ![r][d] = <<>>]
      /\ net' \in [Rank -> [Rank -> Seq(Nat)]]
      /\ \A s \in Rank \ {r} : net'[s] = net[s]
      /\ net'[r][d] = <<>>
      /\ \A e \in Rank \ {d} : net'[r][e] = net[r][e]
  <2>1. net \in [Rank -> [Rank -> Seq(Nat)]] /\ <<>> \in Seq(Nat)
    BY DEF IInv, TypeOK
  <2>2. net' = [net EXCEPT ![r][d] = <<>>]
    BY <1>2 DEF hca_write
  <2> QED BY <2>1, <2>2
<1>4. CASE (r + 1) * size > cache[d].bytes
  <2>1. abort(r) /\ mem' = mem
    BY <1>2, <1>4 DEF hca_write
  <2> QED BY <1>1, <1>3, <2>1, Aborts
<1>5. CASE ~((r + 1) * size > cache[d].bytes)
  <2>1. mem' = [mem EXCEPT ![d] = Stored(d, r, size)] /\ UNCHANGED <<proc, aborted>>
    BY <1>2, <1>5 DEF hca_write
  <2>2. TypeOK'
    BY <1>1, <1>3, <2>1, StoredType DEF IInv, TypeOK
  <2>3. proc' = [proc EXCEPT ![r] = proc[r]]
    BY <2>1 DEF IInv, TypeOK
  <2>4. StandInv'
    BY <1>1, <2>1, <2>3, StandFrame, Facts
  <2>5. GatherInv'
    BY <1>1, <2>1, <2>3, GatherFrame
  <2>6. OrderInv'
    BY <1>1, <2>3, OrderFrame
  <2>7. CacheInv'
    BY <1>1, CacheFrame
  <2>8. NetInv'
    <3>1. ASSUME NEW e \in Rank, net'[r][e] # <<>>
          PROVE  Posted(proc[r], r, e) /\ net'[r][e] = <<program[proc[r].ip].size>>
      BY <1>3, <3>1 DEF IInv, RunInv, NetInv
    <3>2. program' = program /\ \A s \in Rank \ {r} : net'[s] = net[s]
      BY <1>1, <1>3
    <3> QED BY <2>3, <3>1, <3>2, NetFrame, Zenon
  <2>9. MemInv'
    <3>1. \A e \in Rank \ {d} : \A k \in DOMAIN program :
            Landed(proc[r], r, e, net'[r][e], k) => Landed(proc[r], r, e, net[r][e], k)
      BY <1>3
    <3> QED BY <1>1, <1>2, <1>3, <2>1, <2>3, <3>1, MemStore
  <2> QED BY <1>1, <2>1, <2>2, <2>4, <2>5, <2>6, <2>7, <2>8, <2>9 DEF IInv, RunInv
<1> QED BY <1>4, <1>5

(****************************************************************************)
(* The invariant.                                                            *)
(****************************************************************************)
LEMMA Initially == Init => IInv /\ ~aborted
<1> SUFFICES ASSUME Init PROVE IInv /\ ~aborted
  OBVIOUS
<1> USE DEF Init
<1>1. program \in Seq(Operation) /\ Len(program) \in Nat /\ \A j \in DOMAIN program : j \in Nat /\ j >= 1
  BY ProgramsAssumption
<1>2. TypeOK
  <2>1. 0 \in Rank
    BY NumProcsAssumption DEF Rank
  <2>2. proc \in [Rank -> Proc]
    BY DEF Proc
  <2>3. cache \in [Rank -> Cache]
    BY DEF Cache, Buffer
  <2>4. mem \in [Rank -> [0 .. Bytes - 1 -> Byte]]
    BY <2>1 DEF Unset, Byte
  <2>5. net \in [Rank -> [Rank -> Seq(Nat)]]
    OBVIOUS
  <2> QED BY <2>2, <2>3, <2>4, <2>5 DEF TypeOK
<1>3. ASSUME NEW r \in Rank PROVE PosInv(program, proc[r], cache[r].first_call)
  <2>1. Syncs(program, 0) = 0
    <3>1. {j \in 1 .. 0 : IsSync(program, j)} = {}
      OBVIOUS
    <3> QED BY <3>1, FS_EmptySet DEF Syncs
  <2>2. Entered(proc[r]) = 0
    BY DEF Entered
  <2>3. \A j \in DOMAIN program : ~Begun(proc[r], j)
    BY <1>1 DEF Begun
  <2>4. proc[r].syncs = 0 /\ cache[r].first_call = TRUE
    OBVIOUS
  <2> QED BY <1>1, <2>1, <2>2, <2>3, <2>4 DEF PosInv
<1>4. StandInv /\ GatherInv /\ CacheInv /\ NetInv
  BY <1>3 DEF StandInv, GatherInv, CacheInv, NetInv
<1>5. OrderInv
  BY <1>1 DEF OrderInv
<1>6. ASSUME NEW s \in Rank, NEW d \in Rank, NEW k \in DOMAIN program
      PROVE  ~Landed(proc[s], s, d, net[s][d], k)
  BY <1>1 DEF Landed, Done, Posted
<1>7. MemInv
  BY <1>6 DEF MemInv
<1> QED BY <1>2, <1>4, <1>5, <1>7 DEF IInv, RunInv

LEMMA Halted ==
  ASSUME aborted, [Next]_vars
  PROVE  UNCHANGED vars
BY DEF Next, first_call, gather, later_call, write, copy_own, flush, return, enter_barrier,
       leave_barrier, check, hca_write, at, running

LEMMA Stutters ==
  ASSUME IInv, UNCHANGED vars
  PROVE  IInv'
BY DEF vars, IInv, TypeOK, RunInv, StandInv, GatherInv, OrderInv, CacheInv, NetInv, MemInv,
       calls, registered, Newest

LEMMA Stepwise == IInv /\ [Next]_vars => IInv'
<1> SUFFICES ASSUME IInv, [Next]_vars PROVE IInv'
  OBVIOUS
<1>1. CASE aborted \/ UNCHANGED vars
  BY <1>1, Halted, Stutters
<1>2. CASE ~aborted /\ Next
  <2>1. PICK r \in Rank :
          \/ first_call(r) \/ gather(r) \/ later_call(r) \/ write(r) \/ copy_own(r) \/ flush(r)
          \/ return(r) \/ enter_barrier(r) \/ leave_barrier(r) \/ check(r)
          \/ \E d \in Rank : hca_write(r, d)
    BY <1>2 DEF Next
  <2>2. CASE first_call(r)
    BY <1>2, <2>2, FirstCall
  <2>3. CASE gather(r)
    BY <1>2, <2>3, Gather
  <2>4. CASE later_call(r)
    BY <1>2, <2>4, LaterCall
  <2>5. CASE write(r)
    BY <1>2, <2>5, PostWrite
  <2>6. CASE copy_own(r)
    BY <1>2, <2>6, CopyOwn
  <2>7. CASE flush(r)
    BY <1>2, <2>7, Flush
  <2>8. CASE enter_barrier(r)
    BY <1>2, <2>8, EnterBarrier
  <2>9. CASE return(r) \/ leave_barrier(r) \/ check(r)
    BY <1>2, <2>9, Leave
  <2>10. CASE \E d \in Rank : hca_write(r, d)
    BY <1>2, <2>10, HcaWrite
  <2> QED BY <2>1, <2>2, <2>3, <2>4, <2>5, <2>6, <2>7, <2>8, <2>9, <2>10
<1> QED BY <1>1, <1>2

(* A step that aborts is one of three, each with a call at odds with what an    *)
(* earlier one left in the cache.                                               *)
LEMMA AbortStep ==
  ASSUME IInv, ~aborted, [Next]_vars, aborted'
  PROVE  /\ \E r \in Rank : abort(r)
         /\ mem' = mem /\ program' = program
         /\ \E c, d \in calls : c # d
<1>1. PICK r \in Rank : later_call(r) \/ write(r) \/ \E d \in Rank : hca_write(r, d)
  BY DEF Next, vars, first_call, gather, copy_own, flush, return, enter_barrier, leave_barrier, check
<1> DEFINE i == proc[r].ip
<1>2. CASE later_call(r)
  <2>1. /\ i \in DOMAIN program /\ program[i].call = "alltoall" /\ ~cache[r].first_call
        /\ op(r) = program[i] /\ cache[r].last # program[i].buffer
        /\ abort(r) /\ UNCHANGED <<program, mem>>
    BY <1>2, Facts DEF later_call, at, running, op
  <2>2. program[i] \in calls
    BY <2>1 DEF calls
  <2>3. PICK c \in calls : cache[r].last = c.buffer
    BY <2>1 DEF IInv, RunInv, CacheInv
  <2> QED BY <2>1, <2>2, <2>3
<1>3. ASSUME i \in DOMAIN program, IsCall(program, i), proc[r].pc \in {"write", "flush"}
      PROVE  \A t, d \in Rank : (d + 1) * program[i].size > cache[t].bytes => \E c \in calls : c # program[i]
  <2>1. ~cache[r].first_call
    BY <1>3, Facts DEF PosInv, Begun
  <2> SUFFICES ASSUME NEW t \in Rank, NEW d \in Rank, (d + 1) * program[i].size > cache[t].bytes
               PROVE  \E c \in calls : c # program[i]
    OBVIOUS
  <2>2. ~cache[t].first_call
    BY <1>3, <2>1 DEF IInv, RunInv, GatherInv
  <2>3. PICK c \in calls : cache[t].bytes = registered(c)
    BY <2>2 DEF IInv, RunInv, CacheInv
  <2>4. ~((d + 1) * program[i].size > registered(program[i]))
    BY <1>3, Operations, InBounds DEF IInv, IsCall
  <2> QED BY <2>3, <2>4
<1>4. CASE write(r)
  <2> DEFINE d == proc[r].dst
  <2>1. /\ i \in DOMAIN program /\ IsCall(program, i) /\ proc[r].pc = "write"
        /\ program[i] \in calls /\ op(r) = program[i] /\ d \in Rank
    BY <1>4, Facts DEF write, at, running, op, PosInv, IsCall, calls, Proc
  <2>2. /\ (d + 1) * program[i].size > cache[r].bytes
        /\ abort(r) /\ UNCHANGED <<program, mem>>
    BY <1>4, <2>1 DEF write
  <2> QED BY <1>3, <2>1, <2>2
<1>5. CASE \E d \in Rank : hca_write(r, d)
  <2>1. PICK d \in Rank : hca_write(r, d)
    BY <1>5
  <2>2. net[r][d] = <<program[i].size>> /\ Posted(proc[r], r, d)
    BY <2>1 DEF hca_write, IInv, RunInv, NetInv
  <2>3. Head(net[r][d]) = program[i].size /\ proc[r].pc \in {"write", "flush"}
    BY <2>2 DEF Posted
  <2>4. /\ (r + 1) * program[i].size > cache[d].bytes
        /\ abort(r) /\ UNCHANGED <<program, mem>>
    BY <2>1, <2>3 DEF hca_write
  <2>5. i \in DOMAIN program /\ IsCall(program, i) /\ program[i] \in calls
    BY <2>3, Facts DEF PosInv, IsCall, calls
  <2> QED BY <1>3, <2>3, <2>4, <2>5
<1> QED BY <1>1, <1>2, <1>4, <1>5

(* The result a rank reads has landed from every rank, and none has begun the   *)
(* next collective: it would have left the barrier before it, which the reader  *)
(* has not entered.                                                             *)
LEMMA Results == IInv /\ ~aborted => ResultStable
<1> SUFFICES ASSUME IInv, ~aborted, NEW r \in Rank, NEW k \in DOMAIN program, reads(r, k)
             PROVE  \A s \in Rank : Block(mem[r], s, program[k].size, k)
  BY DEF ResultStable, Block
<1>1. /\ IsCall(program, k) /\ IsSync(program, k) /\ proc[r].pc = "call"
      /\ k \in Nat /\ proc[r].ip \in Nat /\ proc[r].ip > k
  BY Facts, Operations DEF reads, IsCall, IsSync, IInv
<1>2. \A s \in Rank : Landed(proc[s], s, r, net[s][r], k)
  BY <1>1 DEF IInv, RunInv, OrderInv, Landed
<1>3. Newest(program, proc, k)
  <2> SUFFICES ASSUME NEW t \in Rank, NEW j \in DOMAIN program, IsCall(program, j), j > k,
                      Begun(proc[t], j)
               PROVE  FALSE
    BY DEF Newest
  <2>1. j \in Nat /\ j - 1 \in DOMAIN program /\ program[j - 1].call = "MPI_Barrier"
    BY <1>1, Operations DEF IInv, IsCall
  <2>2. proc[t].ip > j - 1
    BY <2>1, Facts DEF Begun
  <2>3. Done(proc[r], j - 1)
    BY <2>1, <2>2 DEF IInv, RunInv, OrderInv, IsSync
  <2>4. proc[r].ip >= j
    BY <1>1, <2>1, <2>3 DEF Done
  <2>5. j \notin k + 1 .. proc[r].ip - 1
    BY DEF reads, IsCall
  <2>6. proc[r].ip = j
    BY <1>1, <2>1, <2>4, <2>5
  <2>7. k # j - 1
    BY <1>1, <2>1 DEF IsCall
  <2>8. op(r).call = "check"
    BY <1>1, <2>1, <2>6, <2>7 DEF reads
  <2> QED BY <2>6, <2>8 DEF op, IsCall
<1> QED BY <1>1, <1>2, <1>3 DEF IInv, RunInv, MemInv

LEMMA ResultsStep == IInv /\ ResultStable /\ [Next]_vars => ResultStable'
<1> SUFFICES ASSUME IInv, ResultStable, [Next]_vars PROVE ResultStable'
  OBVIOUS
<1>1. CASE ~aborted'
  <2>1. IInv'
    BY Stepwise
  <2> QED BY <1>1, <2>1, Results, PTL
<1>2. CASE aborted /\ aborted'
  BY <1>2, Halted DEF vars, ResultStable, reads, running, op
<1>3. CASE ~aborted /\ aborted'
  <2>1. PICK p \in Rank : abort(p)
    BY <1>3, AbortStep
  <2>2. mem' = mem /\ program' = program
    BY <1>3, AbortStep
  <2> SUFFICES ASSUME NEW r \in Rank, NEW k \in DOMAIN program, reads(r, k)'
               PROVE  \A s \in Rank : Block(mem[r], s, program[k].size, k)
    BY <2>2 DEF ResultStable, Block
  <2>3. proc' = [proc EXCEPT ![p].pc = "aborted"] /\ proc \in [Rank -> Proc]
    BY <2>1 DEF abort, IInv, TypeOK
  <2>4. r # p /\ proc'[r] = proc[r]
    BY <2>3 DEF reads, Proc
  <2>5. reads(r, k)
    BY <1>3, <2>2, <2>4 DEF reads, running
  <2> QED BY <2>5 DEF ResultStable, Block
<1> QED BY <1>1, <1>2, <1>3

LEMMA MisuseStep == IInv /\ AbortsOnlyOnMisuse /\ [Next]_vars => AbortsOnlyOnMisuse'
<1> SUFFICES ASSUME IInv, AbortsOnlyOnMisuse, [Next]_vars, aborted' PROVE (\E c, d \in calls : c # d)'
  BY DEF AbortsOnlyOnMisuse
<1>1. CASE aborted
  BY <1>1, Halted DEF vars, calls, AbortsOnlyOnMisuse
<1>2. CASE ~aborted
  <2>1. program' = program /\ \E c, d \in calls : c # d
    BY <1>2, AbortStep
  <2>2. calls' = calls
    BY <2>1 DEF calls
  <2> QED BY <2>1, <2>2
<1> QED BY <1>1, <1>2

(* Processes, statics, writes in flight and memory have their types whatever    *)
(* the ranks, the buffers and the programs.                                     *)
THEOREM TypeCorrect == Spec => []TypeOK
<1>1. IInv => TypeOK
  BY DEF IInv
<1> QED BY <1>1, Initially, Stepwise, PTL DEF Spec

(* YMPI_Alltoall_write and YMPI_Alltoall_write_ptr abort only if a program makes *)
(* two different calls: the cached registration has room for the same one.      *)
THEOREM AbortsCorrect == Spec => []AbortsOnlyOnMisuse
<1>1. ~aborted => AbortsOnlyOnMisuse
  BY DEF AbortsOnlyOnMisuse
<1> QED BY <1>1, Initially, Stepwise, MisuseStep, PTL DEF Spec

(* A rank that has returned from a collective, or checks its result later, sees *)
(* the block of every rank as it was for this call, and nothing of the next.    *)
THEOREM ResultsCorrect == Spec => []ResultStable
BY Initially, Results, Stepwise, ResultsStep, PTL DEF Spec
=============================================================================
