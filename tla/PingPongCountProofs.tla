------------------------- MODULE PingPongCountProofs -------------------------
(****************************************************************************)
(* Theorems about the ping-pongs of two processes (rc, uc, ud and srq).        *)
(*                                                                             *)
(* What goes on if nothing goes wrong: no message is dropped; and in those     *)
(* with one QP (rc, uc and ud) none is left to a process that is gone and no   *)
(* process reports an error. The invariant counts: what a process has          *)
(* received and what is on its way to it is what the other has sent            *)
(* (CountInv), and nobody sends more than its iterations (SteadyInv).          *)
(*                                                                             *)
(* What goes on whatever goes wrong: a process that ends well, or whose set-up *)
(* fails at any step, has released what it made, as the labels of its set-up   *)
(* table say (Clean).                                                          *)
(****************************************************************************)
EXTENDS PingPongProofs

(****************************************************************************)
(* What holds whatever goes wrong, of the four programs.                     *)
(****************************************************************************)
(* What the set-up of a program and its connection make.                        *)
Objects(P) == {"qp", "cq", "mr", "pd", "channel", "context", "buf", "ctx"}
                \cup (IF P.name = "ud" THEN {"ah"} ELSE {})
                \cup (IF P.name = "srq" THEN {"srq", "qp2"} ELSE {})

Written == {"addr", "done", "END"}

SockInv == sock \in [Node \X Node -> Seq(Written)]

(* What a process leaves when its set-up has failed or when it ends well.       *)
Tidy(P) == P.name \in {"uc", "ud", "srq"} \/ (P.name = "rc" /\ ~P.ts)
Clean(P, p) == p.pc = "done" \/ (p.pc = "no_ctx" /\ Tidy(P)) => p.made = {}

MadeInv ==
  /\ \A n \in Pair : /\ proc[n].made \subseteq Objects(program)
                     /\ proc[n].pp_cnt = NoProcess.pp_cnt
                     /\ Clean(program, proc[n])
  /\ \A n \in Node \ Pair : proc[n] = NoProcess

(* The client is not past the exchange of addresses while the server is not.    *)
SetupInv ==
  \/ proc[1].pc \in {"connect", "first", "done"} \cup LoopPc
  \/ sock[<<0, 1>>] # <<>>
  => proc[0].pc \notin {"create", "exchange"}

SteadyTypes == faults \in Nat /\ dropped \in Nat /\ SockInv /\ MadeInv /\ SetupInv

(****************************************************************************)
(* What holds if nothing has gone wrong, of those with one QP.               *)
(****************************************************************************)
(* But not of rc_pingpong -e -t: there an early event is taken for an error.    *)
Steady(P) == P.name \in {"rc", "uc", "ud"} /\ ~(P.event /\ P.ts)

(* Sends of the one QP so far, handled or not.                                  *)
Posted(p) == p.scnt + Sending(p, 0)

(* 1 if the process has received and not sent again.                            *)
Answers(p) == IF "recv" \in p.pending[0] THEN 0 ELSE 1

(* A process that has not failed.                                               *)
SteadyInv(P, n, p, h) ==
  /\ \A i \in DOMAIN h.cq : h.cq[i].ok
  /\ \A i \in DOMAIN p.todo : p.todo[i].ok
  /\ p.pc \in Gone => p.pc = "done" /\ p.scnt >= P.iters /\ p.rcnt >= P.iters
  /\ Posted(p) <= P.iters
  /\ n = 0 /\ p.pc \notin Before => Posted(p) + Answers(p) <= p.rcnt

(* What n sent, its peer has received, or it is on its way.                     *)
Accounted(p, h, pp, hh) == p.rcnt + Arrived(p, h, 0) + Len(hh.wire[0]) = Posted(pp)

CountInv ==
  /\ Accounted(proc[0], hca[0], proc[1], hca[1])
  /\ Accounted(proc[1], hca[1], proc[0], hca[0])

RunInv == faults = 0 =>
  /\ dropped = 0
  /\ \A n \in Pair : SteadyInv(program, n, proc[n], hca[n])
  /\ CountInv

(****************************************************************************)
(* Set-up and release.                                                       *)
(****************************************************************************)
(* The least of some numbers.                                                  *)
LEMMA Least ==
  ASSUME NEW N \in Nat, NEW T, T \subseteq 0 .. N, T # {}
  PROVE  \E x \in T : \A y \in T : x <= y
<1> DEFINE S == 1 .. N
           R == StrictSubsetOrdering(S)
           C == {1 .. i : i \in T}
<1>1. IsFiniteSet(S)
  <2>1. 1 \in Int /\ N \in Int
    OBVIOUS
  <2>2. QED  BY <2>1, FS_Interval
<1>3. C \subseteq SUBSET S /\ C # {}
  <2>1. ASSUME NEW i \in T PROVE 1 .. i \subseteq S
    <3>1. i \in 0 .. N
      OBVIOUS
    <3>2. QED  BY <3>1
  <2> HIDE DEF S
  <2>2. QED  BY <2>1 DEF C
<1>0. \A y \in T : 1 .. y \in C
  OBVIOUS
<1> HIDE DEF S
<1>2. IsWellFoundedOn(R, SUBSET S)
  BY <1>1, FS_StrictSubsetOrderingWellFounded, FS_FiniteSubsetsOfFinite
<1> HIDE DEF R, C
<1>4. PICK c \in C : \A d \in C : <<d, c>> \notin R
  BY <1>2, <1>3, WFMin
<1>5. PICK x \in T : c = 1 .. x
  BY <1>4 DEF C
<1>6. ASSUME NEW y \in T, y < x PROVE FALSE
  <2>1. 1 .. y \in C /\ c \in SUBSET S /\ 1 .. y \in SUBSET S
    <3> HIDE DEF C
    <3>1. QED  BY <1>0, <1>3, <1>4, <1>6
  <2>2. 1 .. y \subseteq c /\ 1 .. y # c
    <3>1. x \in c /\ x \notin 1 .. y /\ y \in Nat /\ x \in Nat
      BY <1>5, <1>6
    <3>2. QED  BY <1>5, <1>6, <3>1
  <2> HIDE DEF S
  <2>3. <<1 .. y, c>> \in R
    BY <2>1, <2>2 DEF R, StrictSubsetOrdering
  <2>4. QED  BY <1>4, <2>1, <2>3
<1>7. \A y \in T : y \in Nat /\ x \in Nat
  OBVIOUS
<1>8. QED  BY <1>6, <1>7

(* One call of a series of releases, the first i - 1 of which left f[i - 1].     *)
Released(made, objects, f, i) ==
  IF i = 0 THEN made
  ELSE IF refused(f[i - 1], objects[i]) THEN f[i - 1] ELSE f[i - 1] \ {objects[i]}

LEMMA LeftDefined ==
  ASSUME NEW made, NEW objects, Len(objects) \in Nat
  PROVE  \A i \in 0 .. Len(objects) :
           Left(made, objects)[i] = Released(made, objects, Left(made, objects), i)
<1> DEFINE D == 0 .. Len(objects)
           L(f, i) == Released(made, objects, f, i)
           T == {k \in D : ~\E f : f = [i \in 0 .. k |-> L(f, i)]}
<1>1. T = {}
  <2> SUFFICES ASSUME T # {} PROVE FALSE
    OBVIOUS
  <2>1. PICK x \in T : \A y \in T : x <= y
    BY Least, T \subseteq 0 .. Len(objects)
  <2>2. x # 0
    <3> DEFINE f == [i \in 0 .. 0 |-> made]
    <3>1. \A i \in 0 .. 0 : L(f, i) = made
      BY DEF Released
    <3> HIDE DEF L
    <3>2. f = [i \in 0 .. 0 |-> L(f, i)]
      BY <3>1
    <3>3. QED  BY <3>2
  <2>3. x \in D /\ x - 1 \in D /\ x - 1 \notin T
    <3>1. x \in D
      OBVIOUS
    <3>2. QED  BY <2>1, <2>2, <3>1
  <2>4. PICK f : f = [i \in 0 .. x - 1 |-> L(f, i)]
    BY <2>3
  <2> DEFINE g == [i \in 0 .. x |-> IF i < x THEN f[i] ELSE L(f, x)]
  <2>5. \A i \in 0 .. x : g[i] = L(g, i)
    <3> SUFFICES ASSUME NEW i \in 0 .. x PROVE g[i] = L(g, i)
      OBVIOUS
    <3>1. g[i] = L(f, i)
      <4> HIDE DEF L
      <4>1. CASE i < x
        <5>1. i \in 0 .. x - 1
          BY <2>3, <4>1
        <5>2. f[i] = L(f, i)
          BY <2>4, <5>1
        <5>3. QED  BY <4>1, <5>2
      <4>2. CASE ~(i < x)
        <5>1. i = x
          BY <2>3, <4>2
        <5>2. QED  BY <5>1
      <4>3. QED  BY <4>1, <4>2
    <3>2. i # 0 => g[i - 1] = f[i - 1]
      <4> HIDE DEF L
      <4>1. i # 0 => i - 1 \in 0 .. x /\ i - 1 < x
        BY <2>3
      <4>2. QED  BY <4>1
    <3> HIDE DEF g
    <3>3. L(f, i) = L(g, i)
      BY <3>2, Zenon DEF Released
    <3>4. QED  BY <3>1, <3>3
  <2>6. g = [i \in 0 .. x |-> L(g, i)]
    <3> HIDE DEF L
    <3>1. QED  BY <2>5
  <2> HIDE DEF g
  <2>7. QED  BY <2>3, <2>6
<1>2. PICK f : f = [i \in D |-> L(f, i)]
  <2>1. Len(objects) \in D
    OBVIOUS
  <2>2. QED  BY <1>1, <2>1
<1>3. Left(made, objects) = CHOOSE g : g = [i \in D |-> L(g, i)]
  BY DEF Left, Released
<1> DEFINE left == Left(made, objects)
<1>4. left = [i \in D |-> L(left, i)]
  BY <1>2, <1>3, Zenon
<1> HIDE DEF L, left
<1>5. \A i \in D : left[i] = L(left, i)
  BY <1>4
<1>6. QED  BY <1>5 DEF L, left

(* Nothing is made by it.                                                       *)
LEMMA LeftSubset ==
  ASSUME NEW made, NEW objects, Len(objects) \in Nat
  PROVE  ReleasedAll(made, objects) \subseteq made
<1> DEFINE left == Left(made, objects)
           D == 0 .. Len(objects)
           T == {i \in D : ~(left[i] \subseteq made)}
<1>1. \A i \in D : left[i] = Released(made, objects, left, i)
  BY LeftDefined
<1>2. ASSUME T # {} PROVE FALSE
  <2>1. PICK x \in T : \A y \in T : x <= y
    BY <1>2, Least, T \subseteq 0 .. Len(objects)
  <2>2. x \in D /\ left[x] = Released(made, objects, left, x) /\ ~(left[x] \subseteq made)
    BY <1>1
  <2> HIDE DEF left
  <2>3. x # 0
    BY <2>2 DEF Released
  <2>4. x - 1 \in D /\ x - 1 \notin T
    BY <2>1, <2>2, <2>3
  <2>5. left[x - 1] \subseteq made
    BY <2>4
  <2>6. QED  BY <2>2, <2>3, <2>5 DEF Released
<1>3. Len(objects) \in D
  OBVIOUS
<1>4. left[Len(objects)] \subseteq made
  <2> HIDE DEF left
  <2>1. QED  BY <1>2, <1>3
<1>5. QED  BY <1>4 DEF ReleasedAll

(* What a series of releases leaves, if no verb refuses.                        *)
Unrefused(made, objects) ==
  \A i \in 1 .. Len(objects) : ~refused(made \ {objects[j] : j \in 1 .. i - 1}, objects[i])

LEMMA LeftAll ==
  ASSUME NEW made, NEW objects, Len(objects) \in Nat, Unrefused(made, objects)
  PROVE  \A i \in 0 .. Len(objects) : Left(made, objects)[i] = made \ {objects[j] : j \in 1 .. i}
<1> DEFINE left == Left(made, objects)
           D == 0 .. Len(objects)
           rest(i) == made \ {objects[j] : j \in 1 .. i}
           T == {i \in D : left[i] # rest(i)}
<1>1. \A i \in D : left[i] = Released(made, objects, left, i)
  BY LeftDefined
<1> SUFFICES ASSUME T # {} PROVE FALSE
  OBVIOUS
<1>2. PICK x \in T : \A y \in T : x <= y
  BY Least, T \subseteq 0 .. Len(objects)
<1>3. x \in D /\ left[x] = Released(made, objects, left, x) /\ left[x] # rest(x)
  BY <1>1
<1>4. rest(0) = made
  OBVIOUS
<1>5. x # 0
  <2> HIDE DEF left, rest
  <2>1. QED  BY <1>3, <1>4 DEF Released
<1>6. x - 1 \in D /\ x - 1 \notin T /\ x \in 1 .. Len(objects)
  <2> HIDE DEF left, rest
  <2>1. QED  BY <1>2, <1>3, <1>5
<1>7. left[x - 1] = rest(x - 1)
  <2> HIDE DEF left, rest
  <2>1. QED  BY <1>6
<1>8. rest(x) = rest(x - 1) \ {objects[x]}
  <2>1. 1 .. x = (1 .. x - 1) \cup {x}
    BY <1>6
  <2>2. QED  BY <2>1
<1>9. ~refused(rest(x - 1), objects[x])
  BY <1>6 DEF Unrefused
<1> HIDE DEF left, rest
<1>10. QED  BY <1>3, <1>5, <1>7, <1>8, <1>9 DEF Released

Elements(objects) == {objects[j] : j \in 1 .. Len(objects)}

LEMMA LeftEnd ==
  ASSUME NEW made, NEW objects, Len(objects) \in Nat, Unrefused(made, objects)
  PROVE  ReleasedAll(made, objects) = made \ Elements(objects)
<1>1. Left(made, objects)[Len(objects)] = made \ {objects[j] : j \in 1 .. Len(objects)}
  BY LeftAll
<1>2. QED  BY <1>1 DEF ReleasedAll, Elements

(* The elements of a series of series, one of which is added in each step.      *)
Flattening(s, f, i) == f[i] = IF i = 1 THEN s[i] ELSE f[i - 1] \o s[i]

LEMMA FlattenSteps ==
  ASSUME NEW S, NEW s \in Seq(Seq(S)), Len(s) # 0
  PROVE  \E f : /\ FlattenSeq(s) = f[Len(s)]
                /\ \A i \in 1 .. Len(s) : Flattening(s, f, i) /\ f[i] \in Seq(S)
<1> DEFINE D == 1 .. Len(s)
           L(f, i) == IF i = 1 THEN s[i] ELSE f[i - 1] \o s[i]
           F(f, k) == \A i \in 1 .. k : f[i] = L(f, i) /\ f[i] \in Seq(S)
           T == {k \in D : ~\E f : f = [i \in 1 .. k |-> f[i]] /\ F(f, k)}
<1>1. Len(s) \in Nat /\ \A i \in D : s[i] \in Seq(S)
  OBVIOUS
<1>3. Len(s) # 0
  OBVIOUS
<1>4. \E f : /\ FlattenSeq(s) = f[Len(s)]
             /\ \A i \in D : f[i] = L(f, i) /\ f[i] \in Seq(S)
  <2>1. T = {}
    <3> SUFFICES ASSUME T # {} PROVE FALSE
      OBVIOUS
    <3>1. PICK x \in T : \A y \in T : x <= y
      BY <1>1, Least, T \subseteq 0 .. Len(s)
    <3>2. x \in D
      OBVIOUS
    <3>3. CASE x = 1
      <4> DEFINE f == [i \in 1 .. 1 |-> s[1]]
      <4>1. F(f, 1)
        BY <1>1, <3>2, <3>3
      <4>2. f = [i \in 1 .. 1 |-> f[i]]
        OBVIOUS
      <4> HIDE DEF F, f
      <4>3. QED  BY <3>3, <4>1, <4>2
    <3>4. CASE x # 1
      <4>1. x - 1 \in D /\ x - 1 \notin T
        <5>1. x - 1 \in D /\ ~(x <= x - 1)
          BY <1>1, <3>2, <3>4
        <5> HIDE DEF T, D
        <5>2. QED  BY <3>1, <5>1
      <4>2. PICK f : f = [i \in 1 .. x - 1 |-> f[i]] /\ F(f, x - 1)
        <5> HIDE DEF F
        <5>1. QED  BY <4>1
      <4> DEFINE v == f[x - 1] \o s[x]
                 g == [i \in 1 .. x |-> IF i = x THEN v ELSE f[i]]
      <4>9. \A i \in 1 .. x - 1 : f[i] = L(f, i) /\ f[i] \in Seq(S)
        BY <4>2, Zenon
      <4>10. x \in Nat /\ x >= 1 /\ x - 1 \in 1 .. x - 1 /\ s[x] \in Seq(S)
        <5>1. x \in Nat /\ x >= 1 /\ s[x] \in Seq(S)
          BY <1>1, <3>2
        <5>2. QED  BY <3>4, <5>1
      <4>3. v \in Seq(S)
        <5>1. f[x - 1] \in Seq(S) /\ s[x] \in Seq(S)
          BY <4>9, <4>10, Zenon
        <5>2. QED  BY <5>1
      <4>4. /\ \A i \in 1 .. x - 1 : g[i] = f[i] /\ f[i] = L(f, i) /\ f[i] \in Seq(S)
            /\ g[x] = v
        <5> HIDE DEF v
        <5>1. (\A i \in 1 .. x - 1 : g[i] = f[i]) /\ g[x] = v
          BY <4>10
        <5> HIDE DEF g
        <5>2. QED  BY <4>9, <5>1, Zenon
      <4> HIDE DEF v, g
      <4>5. ASSUME NEW i \in 1 .. x PROVE g[i] = L(g, i) /\ g[i] \in Seq(S)
        <5>1. CASE i = x
          <6>1. g[x - 1] = f[x - 1]
            BY <3>4, <4>1, <4>4
          <6>2. QED  BY <3>4, <4>3, <4>4, <5>1, <6>1 DEF v
        <5>2. CASE i # x
          <6>1. i \in 1 .. x - 1 /\ (i # 1 => i - 1 \in 1 .. x - 1)
            BY <3>2, <5>2
          <6>2. g[i] = f[i] /\ f[i] = L(f, i) /\ f[i] \in Seq(S) /\ (i # 1 => g[i - 1] = f[i - 1])
            BY <4>4, <6>1
          <6>3. QED  BY <6>2
        <5>3. QED  BY <5>1, <5>2
      <4>6. F(g, x)
        BY <4>5
      <4>7. g = [i \in 1 .. x |-> g[i]]
        BY DEF g
      <4> HIDE DEF F
      <4>8. QED  BY <4>6, <4>7
    <3>5. QED  BY <3>3, <3>4
  <2>2. Len(s) \in D
    BY <1>1, <1>3
  <2>3. PICK f : f = [i \in D |-> f[i]] /\ F(f, Len(s))
    <3> HIDE DEF F
    <3>1. QED  BY <2>1, <2>2
  <2>4. f = [i \in D |-> L(f, i)]
    BY <2>3
  <2> DEFINE flat == CHOOSE g : g = [i \in D |-> L(g, i)]
  <2>5. flat = [i \in D |-> L(flat, i)]
    BY <2>4, Zenon
  <2>6. FlattenSeq(s) = flat[Len(s)]
    BY <1>3 DEF FlattenSeq
  <2>7. \A i \in D : flat[i] = L(flat, i)
    <3> HIDE DEF flat, L
    <3>1. QED  BY <2>5
  <2> HIDE DEF flat
  <2> DEFINE U == {i \in D : flat[i] \notin Seq(S)}
  <2>8. ASSUME U # {} PROVE FALSE
    <3>1. PICK x \in U : \A y \in U : x <= y
      BY <1>1, <2>8, Least, U \subseteq 0 .. Len(s)
    <3>2. x \in D /\ flat[x] = L(flat, x) /\ s[x] \in Seq(S)
      BY <1>1, <2>7
    <3>3. x # 1
      BY <3>2
    <3>4. x - 1 \in D /\ x - 1 \notin U
      BY <1>1, <3>1, <3>2, <3>3
    <3>5. flat[x - 1] \in Seq(S)
      BY <3>4
    <3>6. flat[x] = flat[x - 1] \o s[x]
      BY <3>2, <3>3
    <3>7. flat[x] \in Seq(S)
      BY <3>2, <3>5, <3>6
    <3>8. QED  BY <3>7
  <2>9. \A i \in D : flat[i] \in Seq(S)
    BY <2>8
  <2>10. \A i \in D : flat[i] = L(flat, i) /\ flat[i] \in Seq(S)
    <3> HIDE DEF L, D
    <3>1. QED  BY <2>7, <2>9
  <2>11. QED
    <3> HIDE DEF L, D
    <3>1. QED  BY <2>6, <2>10
<1>5. QED  BY <1>4 DEF Flattening

LEMMA FlattenType ==
  ASSUME NEW S, NEW s \in Seq(Seq(S))
  PROVE  FlattenSeq(s) \in Seq(S)
<1>1. CASE Len(s) = 0
  BY <1>1 DEF FlattenSeq
<1>2. CASE Len(s) # 0
  <2>1. PICK f : /\ FlattenSeq(s) = f[Len(s)]
                 /\ \A i \in 1 .. Len(s) : f[i] \in Seq(S)
    BY <1>2, FlattenSteps
  <2>2. Len(s) \in 1 .. Len(s)
    BY <1>2
  <2>3. QED  BY <2>1, <2>2
<1>3. QED  BY <1>1, <1>2

(* It is what is added up to the last.                                          *)
LEMMA FlattenIs ==
  ASSUME NEW S, NEW s \in Seq(Seq(S)), Len(s) # 0, NEW g, \A i \in 1 .. Len(s) : Flattening(s, g, i)
  PROVE  FlattenSeq(s) = g[Len(s)]
<1> DEFINE D == 1 .. Len(s)
           T == {i \in D : ~\A f : (\A j \in D : Flattening(s, f, j)) => f[i] = g[i]}
<1>1. Len(s) \in Nat
  OBVIOUS
<1>2. T = {}
  <2> SUFFICES ASSUME T # {} PROVE FALSE
    OBVIOUS
  <2>1. PICK x \in T : \A y \in T : x <= y
    BY <1>1, Least, T \subseteq 0 .. Len(s)
  <2>2. x \in D
    OBVIOUS
  <2>3. PICK f : (\A j \in D : Flattening(s, f, j)) /\ f[x] # g[x]
    OBVIOUS
  <2>4. Flattening(s, f, x) /\ Flattening(s, g, x)
    BY <2>2, <2>3
  <2>5. x # 1
    BY <2>3, <2>4 DEF Flattening
  <2>6. x - 1 \in D /\ x - 1 \notin T
    <3>1. x - 1 \in D /\ ~(x <= x - 1)
      BY <1>1, <2>2, <2>5
    <3> HIDE DEF T, D
    <3>2. QED  BY <2>1, <3>1
  <2>7. f[x - 1] = g[x - 1]
    BY <2>3, <2>6
  <2>8. QED  BY <2>3, <2>4, <2>5, <2>7 DEF Flattening
<1>3. PICK f : /\ FlattenSeq(s) = f[Len(s)]
               /\ \A i \in D : Flattening(s, f, i)
  BY FlattenSteps
<1>4. Len(s) \in D
  BY <1>1
<1>5. f[Len(s)] = g[Len(s)]
  BY <1>2, <1>3, <1>4
<1>6. QED  BY <1>3, <1>5

(* The end of a program, if no verb refuses.                                    *)
LEMMA ClosedAll ==
  ASSUME NEW made, NEW objects, Len(objects) \in Nat, DOMAIN objects = 1 .. Len(objects),
         Unrefused(made, objects)
  PROVE  /\ Closed(made, objects).ok
         /\ Closed(made, objects).left = made \ {objects[j] : j \in 1 .. Len(objects)}
<1> DEFINE left == Left(made, objects)
           refusals == {i \in DOMAIN objects : refused(left[i - 1], objects[i])}
<1>1. /\ Closed(made, objects).ok <=> refusals = {}
      /\ refusals = {} => Closed(made, objects).left = left[Len(objects)]
  BY DEF Closed
<1>2. \A i \in 0 .. Len(objects) : left[i] = made \ {objects[j] : j \in 1 .. i}
  BY LeftAll
<1>3. ASSUME NEW i \in DOMAIN objects PROVE ~refused(left[i - 1], objects[i])
  <2>1. i - 1 \in 0 .. Len(objects) /\ i \in 1 .. Len(objects)
    OBVIOUS
  <2>2. left[i - 1] = made \ {objects[j] : j \in 1 .. i - 1}
    BY <1>2, <2>1
  <2> HIDE DEF left
  <2>3. QED  BY <2>1, <2>2 DEF Unrefused
<1>4. refusals = {}
  BY <1>3
<1> HIDE DEF left, refusals
<1>5. Len(objects) \in 0 .. Len(objects)
  OBVIOUS
<1>6. QED  BY <1>1, <1>2, <1>4, <1>5

(* The objects that keep o from being released.                                 *)
Depends(made, o) ==
  \/ o = "pd" /\ made \cap {"mr", "tx_mr", "rx_mr", "srq", "ah", "qp", "qp2"} # {}
  \/ o \in {"cq", "srq"} /\ made \cap {"qp", "qp2"} # {}
  \/ o = "channel" /\ made \cap {"cq", "rx_cq"} # {}
  \/ o \in {"tx_cq", "rx_cq", "xrcd"}

LEMMA Refuses ==
  ASSUME NEW made, NEW o, refused(made, o)
  PROVE  Depends(made, o)
BY DEF refused, Dependents, Qps, Depends

(* The series of each program leaves nothing and is refused nowhere.            *)
LEMMA Releases ==
  ASSUME NEW P, NEW made, made \subseteq Objects(P), NEW objects,
         \/ P.name \in {"rc", "uc"} /\ objects = <<"qp", "cq", "mr", "pd", "channel", "context", "buf", "ctx">>
         \/ P.name = "ud" /\ objects = <<"qp", "cq", "mr", "ah", "pd", "channel", "context", "buf", "ctx">>
         \/ P.name = "srq" /\ objects = <<"qp", "qp2", "srq", "cq", "mr", "pd", "channel", "context", "buf", "ctx">>
  PROVE  Closed(made, objects).ok /\ Closed(made, objects).left = {}
<1>1. CASE P.name \in {"rc", "uc"} /\ objects = <<"qp", "cq", "mr", "pd", "channel", "context", "buf", "ctx">>
  <2>1. made \subseteq {"qp", "cq", "mr", "pd", "channel", "context", "buf", "ctx"}
    BY <1>1 DEF Objects
  <2>2. Len(objects) = 8 /\ DOMAIN objects = 1 .. Len(objects) /\ Len(objects) \in Nat
    BY <1>1
  <2>3. ASSUME NEW i \in 1 .. Len(objects)
        PROVE  ~refused(made \ {objects[j] : j \in 1 .. i - 1}, objects[i])
    <3> SUFFICES ASSUME refused(made \ {objects[j] : j \in 1 .. i - 1}, objects[i]) PROVE FALSE
      OBVIOUS
    <3> DEFINE before == made \ {objects[j] : j \in 1 .. i - 1}
    <3>1. before \subseteq made /\ \A j \in 1 .. i - 1 : objects[j] \notin before
      OBVIOUS
    <3> HIDE DEF before
    <3>2. Depends(before, objects[i])
      BY Refuses DEF before
    <3>3. i \in 1 .. 8
      BY <2>2
    <3>4. QED  BY <1>1, <2>1, <3>1, <3>2, <3>3 DEF Depends
  <2>4. made \ {objects[j] : j \in 1 .. Len(objects)} = {}
    <3>1. /\ objects[1] = "qp" /\ objects[2] = "cq" /\ objects[3] = "mr" /\ objects[4] = "pd"
      /\ objects[5] = "channel" /\ objects[6] = "context" /\ objects[7] = "buf" /\ objects[8] = "ctx"
      BY <1>1
    <3>2. \A o \in made : \E j \in 1 .. 8 : o = objects[j]
      BY <2>1, <3>1
    <3>3. QED  BY <2>2, <3>2
  <2>5. Unrefused(made, objects)
    BY <2>3 DEF Unrefused
  <2>6. QED  BY <2>2, <2>4, <2>5, ClosedAll, Zenon
<1>2. CASE P.name = "ud" /\ objects = <<"qp", "cq", "mr", "ah", "pd", "channel", "context", "buf", "ctx">>
  <2>1. made \subseteq {"qp", "cq", "mr", "ah", "pd", "channel", "context", "buf", "ctx"}
    BY <1>2 DEF Objects
  <2>2. Len(objects) = 9 /\ DOMAIN objects = 1 .. Len(objects) /\ Len(objects) \in Nat
    BY <1>2
  <2>3. ASSUME NEW i \in 1 .. Len(objects)
        PROVE  ~refused(made \ {objects[j] : j \in 1 .. i - 1}, objects[i])
    <3> SUFFICES ASSUME refused(made \ {objects[j] : j \in 1 .. i - 1}, objects[i]) PROVE FALSE
      OBVIOUS
    <3> DEFINE before == made \ {objects[j] : j \in 1 .. i - 1}
    <3>1. before \subseteq made /\ \A j \in 1 .. i - 1 : objects[j] \notin before
      OBVIOUS
    <3> HIDE DEF before
    <3>2. Depends(before, objects[i])
      BY Refuses DEF before
    <3>3. i \in 1 .. 9
      BY <2>2
    <3>4. QED  BY <1>2, <2>1, <3>1, <3>2, <3>3 DEF Depends
  <2>4. made \ {objects[j] : j \in 1 .. Len(objects)} = {}
    <3>1. /\ objects[1] = "qp" /\ objects[2] = "cq" /\ objects[3] = "mr" /\ objects[4] = "ah"
      /\ objects[5] = "pd" /\ objects[6] = "channel" /\ objects[7] = "context" /\ objects[8] = "buf"
      /\ objects[9] = "ctx"
      BY <1>2
    <3>2. \A o \in made : \E j \in 1 .. 9 : o = objects[j]
      BY <2>1, <3>1
    <3>3. QED  BY <2>2, <3>2
  <2>5. Unrefused(made, objects)
    BY <2>3 DEF Unrefused
  <2>6. QED  BY <2>2, <2>4, <2>5, ClosedAll, Zenon
<1>3. CASE P.name = "srq" /\ objects = <<"qp", "qp2", "srq", "cq", "mr", "pd", "channel", "context", "buf", "ctx">>
  <2>1. made \subseteq {"qp", "qp2", "srq", "cq", "mr", "pd", "channel", "context", "buf", "ctx"}
    BY <1>3 DEF Objects
  <2>2. Len(objects) = 10 /\ DOMAIN objects = 1 .. Len(objects) /\ Len(objects) \in Nat
    BY <1>3
  <2>3. ASSUME NEW i \in 1 .. Len(objects)
        PROVE  ~refused(made \ {objects[j] : j \in 1 .. i - 1}, objects[i])
    <3> SUFFICES ASSUME refused(made \ {objects[j] : j \in 1 .. i - 1}, objects[i]) PROVE FALSE
      OBVIOUS
    <3> DEFINE before == made \ {objects[j] : j \in 1 .. i - 1}
    <3>1. before \subseteq made /\ \A j \in 1 .. i - 1 : objects[j] \notin before
      OBVIOUS
    <3> HIDE DEF before
    <3>2. Depends(before, objects[i])
      BY Refuses DEF before
    <3>3. i \in 1 .. 10
      BY <2>2
    <3>4. QED  BY <1>3, <2>1, <3>1, <3>2, <3>3 DEF Depends
  <2>4. made \ {objects[j] : j \in 1 .. Len(objects)} = {}
    <3>1. /\ objects[1] = "qp" /\ objects[2] = "qp2" /\ objects[3] = "srq" /\ objects[4] = "cq"
      /\ objects[5] = "mr" /\ objects[6] = "pd" /\ objects[7] = "channel" /\ objects[8] = "context"
      /\ objects[9] = "buf" /\ objects[10] = "ctx"
      BY <1>3
    <3>2. \A o \in made : \E j \in 1 .. 10 : o = objects[j]
      BY <2>1, <3>1
    <3>3. QED  BY <2>2, <3>2
  <2>5. Unrefused(made, objects)
    BY <2>3 DEF Unrefused
  <2>6. QED  BY <2>2, <2>4, <2>5, ClosedAll, Zenon
<1>4. QED  BY <1>1, <1>2, <1>3

(* What a failed set-up leaves is part of what it made.                         *)
LEMMA AfterFailureSubset ==
  ASSUME NEW table, NEW i, NEW part, NEW N, NEW S,
         table.cleanup \in Seq([name : N, frees : Seq(S)])
  PROVE  AfterFailure(table, i, part) \subseteq Made(table.create, i - 1) \cup part
<1> DEFINE c == table.cleanup
           I == {j \in 1 .. Len(c) : c[j].name = table.create[i].label}
           k == IF I # {} THEN Min(I) ELSE 0
           run == IF k = 0 THEN <<>> ELSE SubSeq(c, k, Len(c))
           s == [j \in DOMAIN run |-> run[j].frees]
           m == Made(table.create, i - 1) \cup part
<1>1. AfterFailure(table, i, part) = ReleasedAll(m, FlattenSeq(s))
  BY DEF AfterFailure, SelectInSeq
<1>2. k \in Nat
  <2>1. I # {} => Min(I) \in I
    <3> SUFFICES ASSUME I # {} PROVE Min(I) \in I
      OBVIOUS
    <3>0. Len(c) \in Nat /\ I \subseteq 0 .. Len(c)
      OBVIOUS
    <3>1. \E x \in I : \A y \in I : x <= y
      <4> HIDE DEF I, c
      <4>1. QED  BY <3>0, Least
    <3> HIDE DEF I
    <3>2. QED  BY <3>1, Zenon DEF Min
  <2>2. I \subseteq Nat
    OBVIOUS
  <2> HIDE DEF I
  <2>3. QED  BY <2>1, <2>2
<1>3. run \in Seq([name : N, frees : Seq(S)])
  <2>1. c \in Seq([name : N, frees : Seq(S)]) /\ Len(c) \in Nat
    OBVIOUS
  <2>2. k # 0 => k >= 1 /\ k \in Nat
    BY <1>2
  <2> HIDE DEF c, k
  <2>3. QED  BY <2>1, <2>2
<1> HIDE DEF run
<1>4. s \in Seq(Seq(S))
  <2>1. /\ DOMAIN run = 1 .. Len(run) /\ Len(run) \in Nat
        /\ \A j \in DOMAIN run : run[j].frees \in Seq(S)
    <3> DEFINE R == [name : N, frees : Seq(S)]
    <3>1. \A x \in R : x.frees \in Seq(S)
      OBVIOUS
    <3>2. run \in Seq(R)
      BY <1>3
    <3> HIDE DEF R
    <3>3. DOMAIN run = 1 .. Len(run) /\ Len(run) \in Nat /\ \A j \in DOMAIN run : run[j] \in R
      BY <3>2
    <3>4. QED  BY <3>1, <3>3
  <2>2. \A j \in 1 .. Len(run) : s[j] \in Seq(S)
    BY <2>1
  <2>3. s = [j \in 1 .. Len(run) |-> s[j]]
    BY <2>1
  <2> HIDE DEF s
  <2>4. QED  BY <2>1, <2>2, <2>3, SeqDef
<1>5. Len(FlattenSeq(s)) \in Nat
  <2> HIDE DEF s
  <2>1. FlattenSeq(s) \in Seq(S)
    BY <1>4, FlattenType
  <2>2. QED  BY <2>1
<1> HIDE DEF s, m
<1>6. QED  BY <1>1, <1>5, LeftSubset DEF m

LEMMA MadeSubset ==
  ASSUME NEW create, NEW S, NEW k, \A j \in 1 .. k : create[j].makes \subseteq S
  PROVE  Made(create, k) \subseteq S
BY DEF Made

(* The objects of a series after the k-th, up to the m-th.                      *)
Part(O, k, m) == [j \in 1 .. m - k |-> O[k + j]]

After(O, k) == {O[l] : l \in k + 1 .. Len(O)}

(* A series of labels that releases the objects O in this order: the i-th label *)
(* those from e[i - 1] + 1 to e[i].                                             *)
Ladder(c, O, e) ==
  /\ Len(O) \in Nat /\ Len(c) \in Nat \ {0}
  /\ e \in [0 .. Len(c) -> 0 .. Len(O)] /\ e[Len(c)] = Len(O)
  /\ \A i, j \in 0 .. Len(c) : i <= j => e[i] <= e[j]
  /\ \A i \in 1 .. Len(c) : c[i].frees = Part(O, e[i - 1], e[i])
  /\ \A i, j \in 1 .. Len(c) : c[i].name = c[j].name => i = j

(* None of them is refused, if none before it is left.                          *)
Downhill(O) == \A m \in 1 .. Len(O) : \A made :
                 made \subseteq {O[l] : l \in m .. Len(O)} => ~refused(made, O[m])


LEMMA Unwound ==
  ASSUME NEW O, Len(O) \in Nat, Downhill(O), NEW k \in 0 .. Len(O),
         NEW made, made \subseteq {O[l] : l \in k + 1 .. Len(O)},
         NEW objects, objects = Part(O, k, Len(O))
  PROVE  ReleasedAll(made, objects) = {}
<1> DEFINE N == Len(O)
<1>1. /\ N \in Nat /\ k \in Nat /\ k <= N /\ N - k \in Nat
  OBVIOUS
<1>2. Len(objects) = N - k /\ \A j \in 1 .. N - k : objects[j] = O[k + j]
  <2>1. DOMAIN objects = 1 .. N - k /\ \A j \in 1 .. N - k : objects[j] = O[k + j]
    BY DEF Part
  <2>2. QED  BY <1>1, <2>1
<1> HIDE DEF N
<1>3. ASSUME NEW i \in 1 .. N - k
      PROVE  ~refused(made \ {objects[j] : j \in 1 .. i - 1}, objects[i])
  <2> DEFINE left == made \ {objects[j] : j \in 1 .. i - 1}
  <2>1. k + i \in 1 .. N
    BY <1>1
  <2>2. ASSUME NEW o \in left PROVE o \in {O[l] : l \in k + i .. N}
    <3>1. PICK l \in k + 1 .. N : o = O[l]
      BY DEF N
    <3>2. ASSUME l < k + i PROVE FALSE
      <4>1. l - k \in 1 .. i - 1 /\ l - k \in 1 .. N - k /\ k + (l - k) = l
        BY <1>1, <3>2
      <4>2. objects[l - k] = O[l]
        BY <1>2, <4>1
      <4>3. QED  BY <3>1, <4>1, <4>2
    <3>3. l \in k + i .. N
      BY <1>1, <3>2
    <3>4. QED  BY <3>1, <3>3
  <2>3. left \subseteq {O[l] : l \in k + i .. N}
    BY <2>2
  <2> HIDE DEF left
  <2>4. ~refused(left, O[k + i])
    BY <2>1, <2>3, Zenon DEF Downhill, N
  <2>5. objects[i] = O[k + i]
    BY <1>2
  <2>6. QED  BY <2>4, <2>5 DEF left
<1>4. ReleasedAll(made, objects) = made \ Elements(objects)
  <2>1. Len(objects) \in Nat
    BY <1>1, <1>2
  <2>2. Unrefused(made, objects)
    BY <1>2, <1>3, Zenon DEF Unrefused
  <2>3. QED  BY <2>1, <2>2, LeftEnd, Zenon
<1>5. \A o \in made : \E j \in 1 .. N - k : o = objects[j]
  <2> SUFFICES ASSUME NEW o \in made PROVE \E j \in 1 .. N - k : o = objects[j]
    OBVIOUS
  <2>1. PICK l \in k + 1 .. N : o = O[l]
    BY DEF N
  <2>2. l - k \in 1 .. N - k /\ k + (l - k) = l
    BY <1>1
  <2>3. o = objects[l - k]
    BY <1>2, <2>1, <2>2
  <2>4. QED  BY <2>2, <2>3
<1>6. made \ Elements(objects) = {}
  BY <1>2, <1>5 DEF Elements
<1>7. QED  BY <1>4, <1>6

LEMMA ConcatParts ==
  ASSUME NEW O, NEW b \in Nat, NEW l \in Nat, NEW m \in Nat, b <= l, l <= m
  PROVE  Part(O, b, m) = Part(O, b, l) \o Part(O, l, m)
<1> DEFINE u == [j \in 1 .. l - b |-> O[b + j]]
           v == [j \in 1 .. m - l |-> O[l + j]]
<1>1. l - b \in Nat /\ m - l \in Nat /\ m - b \in Nat /\ (l - b) + (m - l) = m - b
  OBVIOUS
<1>2. Len(u) = l - b /\ Len(v) = m - l
  BY <1>1
<1>3. u \o v = [j \in 1 .. m - b |-> IF j <= l - b THEN u[j] ELSE v[j - (l - b)]]
  <2>1. u \o v = [j \in 1 .. Len(u) + Len(v) |-> IF j <= Len(u) THEN u[j] ELSE v[j - Len(u)]]
    OBVIOUS
  <2> HIDE DEF u, v
  <2>2. QED  BY <1>1, <1>2, <2>1
<1>4. ASSUME NEW j \in 1 .. m - b
      PROVE  (IF j <= l - b THEN u[j] ELSE v[j - (l - b)]) = O[b + j]
  <2>1. CASE j <= l - b
    <3>1. j \in 1 .. l - b
      BY <2>1
    <3>2. QED  BY <2>1, <3>1
  <2>2. CASE ~(j <= l - b)
    <3>1. j - (l - b) \in 1 .. m - l /\ l + (j - (l - b)) = b + j
      BY <1>1, <2>2
    <3>2. v[j - (l - b)] = O[b + j]
      BY <3>1
    <3> HIDE DEF u, v
    <3>3. QED  BY <2>2, <3>2
  <2>3. QED  BY <2>1, <2>2
<1> HIDE DEF u, v
<1>5. [j \in 1 .. m - b |-> O[b + j]] = u \o v
  BY <1>3, <1>4
<1>6. QED  BY <1>5 DEF u, v, Part

(* What the labels from the k-th on release together.                           *)
FreesFrom(c, k) == [j \in 1 .. Len(c) - k + 1 |-> c[k - 1 + j].frees]

LEMMA LadderFlat ==
  ASSUME NEW S, NEW c, NEW O, NEW e, Ladder(c, O, e), NEW k \in 1 .. Len(c),
         NEW s \in Seq(Seq(S)), s = FreesFrom(c, k)
  PROVE  FlattenSeq(s) = Part(O, e[k - 1], Len(O))
<1> DEFINE M == Len(O)
           N == Len(c)
           a(i) == e[k - 1 + i]
           g == [i \in 0 .. N - k + 1 |-> Part(O, a(0), a(i))]
<1>1. /\ M \in Nat /\ N \in Nat \ {0} /\ k \in Nat /\ k >= 1 /\ k <= N
      /\ \A x \in 0 .. N : e[x] \in Nat
      /\ e[N] = M
  <2>1. /\ M \in Nat /\ N \in Nat \ {0} /\ e \in [0 .. N -> 0 .. M] /\ e[N] = M
    BY DEF Ladder
  <2> HIDE DEF M
  <2>2. k \in Nat /\ k >= 1 /\ k <= N
    BY <2>1
  <2>3. QED  BY <2>1, <2>2
<1>2. /\ \A i \in 1 .. N : c[i].frees = Part(O, e[i - 1], e[i])
      /\ \A i, j \in 0 .. N : i <= j => e[i] <= e[j]
  BY DEF Ladder
<1>3. Len(s) = N - k + 1 /\ N - k + 1 \in Nat /\ N - k + 1 >= 1
  <2>1. N - k + 1 \in Nat /\ N - k + 1 >= 1
    BY <1>1
  <2> HIDE DEF N
  <2>2. DOMAIN s = 1 .. N - k + 1
    BY DEF N, FreesFrom
  <2>3. QED  BY <2>1, <2>2
<1> HIDE DEF M, N
<1>4. \A i \in 0 .. N - k + 1 : a(i) \in Nat
  BY <1>1
<1>5. ASSUME NEW i \in 1 .. N - k + 1
      PROVE  /\ a(i - 1) <= a(i) /\ a(0) <= a(i - 1) /\ a(i - 1) \in Nat /\ a(i) \in Nat
             /\ s[i] = Part(O, a(i - 1), a(i))
  <2>1. k - 1 + i \in 1 .. N /\ k - 1 + i - 1 = k - 1 + (i - 1) /\ i - 1 \in 0 .. N - k + 1
    BY <1>1
  <2>2. s[i] = c[k - 1 + i].frees
    BY DEF N, FreesFrom
  <2> DEFINE x == k - 1 + i
  <2>4. /\ e[x - 1] <= e[x] /\ e[k - 1] <= e[x - 1]
        /\ c[x].frees = Part(O, e[x - 1], e[x])
    <3>1. x \in 1 .. N /\ x \in 0 .. N /\ x - 1 \in 0 .. N /\ k - 1 \in 0 .. N /\ x - 1 <= x /\ k - 1 <= x - 1
      BY <1>1, <2>1
    <3> HIDE DEF x
    <3>2. QED  BY <1>2, <3>1
  <2>5. a(i - 1) = e[x - 1] /\ a(i) = e[x] /\ a(0) = e[k - 1]
    BY <1>1, <2>1
  <2>6. s[i] = c[x].frees
    BY <2>2
  <2>7. a(i) \in Nat /\ a(i - 1) \in Nat
    BY <1>4, <2>1
  <2> HIDE DEF x, a
  <2>8. QED  BY <2>4, <2>5, <2>6, <2>7
<1>6. ASSUME NEW i \in 1 .. N - k + 1 PROVE Flattening(s, g, i)
  <2> DEFINE b == a(0)
             l == a(i - 1)
             m == a(i)
             u == Part(O, b, l)
             v == Part(O, l, m)
             w == Part(O, b, m)
  <2>1. i \in 0 .. N - k + 1 /\ i - 1 \in 0 .. N - k + 1 /\ i \in Nat
    BY <1>1
  <2>2. g[i] = w /\ g[i - 1] = u
    BY <2>1
  <2>3. s[i] = v /\ l <= m /\ b <= l /\ l \in Nat /\ m \in Nat /\ b \in Nat
    <3>1. b \in Nat
      <4>1. 0 \in 0 .. N - k + 1
        BY <1>3
      <4> HIDE DEF a
      <4>2. QED  BY <1>4, <4>1
    <3> HIDE DEF a
    <3>2. QED  BY <1>5, <3>1
  <2> HIDE DEF a, g
  <2>4. w = u \o v
    BY <2>3, ConcatParts
  <2>5. i = 1 => l = b
    <3>1. i = 1 => i - 1 = 0
      OBVIOUS
    <3>2. QED  BY <3>1, Zenon
  <2> HIDE DEF u, w, b, l, m
  <2>6. CASE i = 1
    <3>1. v = w
      BY <2>5, <2>6 DEF w
    <3>2. QED  BY <2>2, <2>3, <2>6, <3>1 DEF Flattening
  <2>7. CASE i # 1
    <3> HIDE DEF v
    <3>1. QED  BY <2>2, <2>3, <2>4, <2>7 DEF Flattening
  <2>8. QED  BY <2>6, <2>7
<1>7. FlattenSeq(s) = g[Len(s)]
  <2> HIDE DEF g
  <2>1. \A i \in 1 .. Len(s) : Flattening(s, g, i)
    BY <1>3, <1>6
  <2>2. Len(s) # 0
    BY <1>3
  <2>3. QED  BY <2>1, <2>2, FlattenIs
<1>8. k - 1 + (N - k + 1) = N /\ N - k + 1 \in 0 .. N - k + 1 /\ k - 1 + 0 = k - 1
  BY <1>1, <1>3
<1>9. g[N - k + 1] = Part(O, e[k - 1], e[N])
  BY <1>8
<1> HIDE DEF g
<1>10. QED  BY <1>1, <1>3, <1>7, <1>9 DEF M

(* A set-up that fails leaves nothing, if the label it jumps to and those after  *)
(* it release all that it has made.                                             *)
LEMMA LadderLeaves ==
  ASSUME NEW table, NEW i, NEW part, NEW N, NEW S,
         table.cleanup \in Seq([name : N, frees : Seq(S)]),
         NEW O, NEW e, Ladder(table.cleanup, O, e), Downhill(O),
         NEW k \in 1 .. Len(table.cleanup), table.create[i].label = table.cleanup[k].name,
         Made(table.create, i - 1) \cup part \subseteq After(O, e[k - 1])
  PROVE  AfterFailure(table, i, part) = {}
<1> DEFINE c == table.cleanup
           I == {j \in 1 .. Len(c) : c[j].name = table.create[i].label}
           at == IF I # {} THEN Min(I) ELSE 0
           run == IF at = 0 THEN <<>> ELSE SubSeq(c, at, Len(c))
           s == [j \in DOMAIN run |-> run[j].frees]
           m == Made(table.create, i - 1) \cup part
<1>1. AfterFailure(table, i, part) = ReleasedAll(m, FlattenSeq(s))
  BY DEF AfterFailure, SelectInSeq
<1>2. at = k
  <2>1. I = {k}
    BY DEF Ladder
  <2>2. \A x \in {k} : k <= x
    OBVIOUS
  <2> HIDE DEF I
  <2>3. QED  BY <2>1, <2>2 DEF Min
<1>3. /\ k \in Nat /\ k >= 1 /\ k <= Len(c) /\ Len(c) \in Nat
      /\ \A j \in 1 .. Len(c) : c[j].frees \in Seq(S)
  <2> DEFINE R == [name : N, frees : Seq(S)]
  <2>1. c \in Seq(R) /\ \A x \in R : x.frees \in Seq(S)
    OBVIOUS
  <2> HIDE DEF R, c
  <2>2. Len(c) \in Nat /\ \A j \in 1 .. Len(c) : c[j] \in R
    BY <2>1
  <2>3. k \in 1 .. Len(c)
    BY DEF c
  <2>4. QED  BY <2>1, <2>2, <2>3
<1>4. s = [j \in 1 .. Len(c) - k + 1 |-> c[k - 1 + j].frees]
  <2>1. run = SubSeq(c, k, Len(c))
    <3> HIDE DEF at
    <3>1. QED  BY <1>2, <1>3
  <2> HIDE DEF c, run
  <2> DEFINE T == {c[l] : l \in k .. Len(c)}
             n == Len(c)
  <2>2. k \in Int /\ n \in Int /\ \A j \in k .. n : c[j] \in T
    BY <1>3
  <2> HIDE DEF T, n
  <2>7. /\ SubSeq(c, k, n) \in Seq(T) /\ Len(SubSeq(c, k, n)) = IF k <= n THEN n - k + 1 ELSE 0
        /\ \A j \in 1 .. n - k + 1 : SubSeq(c, k, n)[j] = c[k + j - 1]
    BY <2>2, SubSeqProperties
  <2>3. /\ run \in Seq(T) /\ Len(run) = IF k <= Len(c) THEN Len(c) - k + 1 ELSE 0
        /\ \A j \in 1 .. Len(c) - k + 1 : run[j] = c[k + j - 1]
    BY <2>1, <2>7, Zenon DEF n
  <2>4. DOMAIN run = 1 .. Len(c) - k + 1
    BY <1>3, <2>3
  <2>5. \A j \in 1 .. Len(c) - k + 1 : k + j - 1 = k - 1 + j
    BY <1>3
  <2>6. QED  BY <2>3, <2>4, <2>5
<1> HIDE DEF s
<1>5. s \in Seq(Seq(S))
  <2>1. Len(c) - k + 1 \in Nat /\ \A j \in 1 .. Len(c) - k + 1 : k - 1 + j \in 1 .. Len(c)
    BY <1>3
  <2>2. \A j \in 1 .. Len(c) - k + 1 : s[j] \in Seq(S)
    BY <1>3, <1>4, <2>1
  <2>3. s = [j \in 1 .. Len(c) - k + 1 |-> s[j]]
    BY <1>4
  <2> DEFINE x == Len(c) - k + 1
  <2>4. x \in Nat /\ s = [j \in 1 .. x |-> s[j]] /\ \A j \in 1 .. x : s[j] \in Seq(S)
    BY <2>1, <2>2, <2>3
  <2> HIDE DEF x
  <2>5. s \in [1 .. x -> Seq(S)]
    BY <2>4
  <2>6. Seq(Seq(S)) = UNION {[1 .. n -> Seq(S)] : n \in Nat}
    BY SeqDef
  <2>7. QED  BY <2>4, <2>5, <2>6
<1>6. FlattenSeq(s) = Part(O, e[k - 1], Len(O))
  <2>1. s = FreesFrom(c, k)
    BY <1>4 DEF FreesFrom
  <2>2. QED  BY <1>5, <2>1, LadderFlat
<1>7. Len(O) \in Nat /\ e[k - 1] \in 0 .. Len(O)
  <2>1. k - 1 \in 0 .. Len(c)
    BY <1>3
  <2>2. QED  BY <2>1 DEF Ladder
<1> HIDE DEF m
<1>8. m \subseteq {O[l] : l \in e[k - 1] + 1 .. Len(O)}
  BY DEF m, After
<1> DEFINE objects == FlattenSeq(s)
           b == e[k - 1]
<1>9. objects = Part(O, b, Len(O)) /\ b \in 0 .. Len(O) /\ m \subseteq {O[l] : l \in b + 1 .. Len(O)}
  BY <1>6, <1>7, <1>8
<1>10. AfterFailure(table, i, part) = ReleasedAll(m, objects)
  BY <1>1
<1> HIDE DEF objects, b
<1>11. ReleasedAll(m, objects) = {}
  BY <1>7, <1>9, Unwound
<1>12. QED  BY <1>10, <1>11

(* The set-ups of the four programs make the objects that their ends release.   *)
Labels == {"return", "clean_ctx", "clean_buffer", "clean_device", "clean_comp_channel", "clean_pd",
           "clean_mr", "clean_cq", "clean_qp", "clean_qps", "clean_qps_full"}

(* The labels of rc, uc and ud release one object each.                         *)
Series == <<"qp", "cq", "mr", "pd", "channel", "context", "buf", "ctx">>
OneEach == [i \in 0 .. 8 |-> i]
CommonCleanup == <<Label("clean_qp", <<"qp">>)>> \o CommonLabels

LEMMA CommonFacts ==
  /\ CommonLabels \in Seq([name : Labels, frees : Seq(Object)]) /\ Len(CommonLabels) = 7
  /\ CommonLabels[1].name = "clean_cq" /\ CommonLabels[1].frees = <<"cq">>
  /\ CommonLabels[2].name = "clean_mr" /\ CommonLabels[2].frees = <<"mr">>
  /\ CommonLabels[3].name = "clean_pd" /\ CommonLabels[3].frees = <<"pd">>
  /\ CommonLabels[4].name = "clean_comp_channel" /\ CommonLabels[4].frees = <<"channel">>
  /\ CommonLabels[5].name = "clean_device" /\ CommonLabels[5].frees = <<"context">>
  /\ CommonLabels[6].name = "clean_buffer" /\ CommonLabels[6].frees = <<"buf">>
  /\ CommonLabels[7].name = "clean_ctx" /\ CommonLabels[7].frees = <<"ctx">>
BY DEF CommonLabels, Label, Labels, Object, Qps

LEMMA CommonRungs ==
  /\ Len(CommonCleanup) = 8 /\ Len(Series) = 8
  /\ CommonCleanup[1].name = "clean_qp" /\ CommonCleanup[2].name = "clean_cq" /\ CommonCleanup[3].name = "clean_mr" /\ CommonCleanup[4].name = "clean_pd"
  /\ CommonCleanup[5].name = "clean_comp_channel" /\ CommonCleanup[6].name = "clean_device" /\ CommonCleanup[7].name = "clean_buffer"
  /\ CommonCleanup[8].name = "clean_ctx"
  /\ \A i \in 1 .. 8 : CommonCleanup[i].frees = <<Series[i]>>
<1> DEFINE c == CommonCleanup
           a == <<Label("clean_qp", <<"qp">>)>>
<1>0. a \in Seq([name : Labels, frees : Seq(Object)])
  BY DEF Label, Labels, Object, Qps
<1>7. /\ Len(a) = 1 /\ a[1].name = "clean_qp" /\ a[1].frees = <<"qp">>
  BY DEF Label
<1>8. c = a \o CommonLabels
  BY DEF CommonCleanup
<1> HIDE DEF a, c
<1>1. /\ Len(c) = 8 /\ c[1] = a[1]
      /\ \A i \in 1 .. 7 : c[i + 1] = CommonLabels[i]
  <2>1. /\ Len(c) = Len(a) + Len(CommonLabels)
        /\ \A i \in 1 .. Len(a) + Len(CommonLabels) :
             c[i] = IF i <= Len(a) THEN a[i] ELSE CommonLabels[i - Len(a)]
    <3>1. CommonLabels \in Seq([name : Labels, frees : Seq(Object)])
      BY CommonFacts
    <3>2. QED  BY <1>0, <1>8, <3>1, ConcatProperties
  <2>2. Len(CommonLabels) = 7
    BY CommonFacts
  <2>3. QED  BY <1>7, <2>1, <2>2
<1>2. /\ Len(c) = 8 /\ Len(Series) = 8
      /\ c[1].name = "clean_qp" /\ c[2].name = "clean_cq" /\ c[3].name = "clean_mr" /\ c[4].name = "clean_pd"
      /\ c[5].name = "clean_comp_channel" /\ c[6].name = "clean_device" /\ c[7].name = "clean_buffer"
      /\ c[8].name = "clean_ctx"
      /\ \A i \in 1 .. 8 : c[i].frees = <<Series[i]>>
  <2>1. /\ c[2] = CommonLabels[1] /\ c[3] = CommonLabels[2] /\ c[4] = CommonLabels[3] /\ c[5] = CommonLabels[4]
        /\ c[6] = CommonLabels[5] /\ c[7] = CommonLabels[6] /\ c[8] = CommonLabels[7]
    BY <1>1
  <2>2. /\ c[1].frees = <<"qp">> /\ c[2].frees = <<"cq">> /\ c[3].frees = <<"mr">> /\ c[4].frees = <<"pd">>
        /\ c[5].frees = <<"channel">> /\ c[6].frees = <<"context">> /\ c[7].frees = <<"buf">>
        /\ c[8].frees = <<"ctx">>
    BY <1>1, <1>7, <2>1, CommonFacts
  <2>3. \A i \in 1 .. 8 : c[i].frees = <<Series[i]>>
    BY <2>2 DEF Series
  <2>4. Len(Series) = 8
    BY DEF Series
  <2>5. QED  BY <1>1, <1>7, <2>1, <2>3, <2>4, CommonFacts
<1>3. QED  BY <1>2 DEF c

LEMMA CommonLadder == Ladder(CommonCleanup, Series, OneEach)
<1> DEFINE c == CommonCleanup
<1>2. /\ Len(c) = 8 /\ Len(Series) = 8
      /\ c[1].name = "clean_qp" /\ c[2].name = "clean_cq" /\ c[3].name = "clean_mr" /\ c[4].name = "clean_pd"
      /\ c[5].name = "clean_comp_channel" /\ c[6].name = "clean_device" /\ c[7].name = "clean_buffer"
      /\ c[8].name = "clean_ctx"
      /\ \A i \in 1 .. 8 : c[i].frees = <<Series[i]>>
  BY CommonRungs
<1> HIDE DEF c
<1>3. \A i, j \in 1 .. 8 : c[i].name = c[j].name => i = j
  BY <1>2
<1>4. ASSUME NEW i \in 1 .. 8 PROVE c[i].frees = Part(Series, OneEach[i - 1], OneEach[i])
  <2>1. OneEach[i - 1] = i - 1 /\ OneEach[i] = i
    BY DEF OneEach
  <2>2. Part(Series, i - 1, i) = [j \in 1 .. 1 |-> Series[i - 1 + j]]
    BY DEF Part
  <2>3. <<Series[i]>> = [j \in 1 .. 1 |-> Series[i - 1 + j]]
    BY DEF Series
  <2>4. QED  BY <1>2, <2>1, <2>2, <2>3
<1>5. /\ OneEach \in [0 .. 8 -> 0 .. 8] /\ OneEach[8] = 8
      /\ \A i, j \in 0 .. 8 : i <= j => OneEach[i] <= OneEach[j]
  BY DEF OneEach
<1>6. Ladder(c, Series, OneEach)
  BY <1>2, <1>3, <1>4, <1>5 DEF Ladder
<1>7. QED  BY <1>6 DEF c

LEMMA CommonDownhill == Downhill(Series)
<1>1. Len(Series) = 8 /\ \A i \in 1 .. 8, j \in 1 .. 8 : i < j => Series[i] # Series[j]
  BY DEF Series
<1>2. ASSUME NEW m \in 1 .. 8, NEW made, made \subseteq {Series[l] : l \in m .. 8}, refused(made, Series[m])
      PROVE  FALSE
  <2>1. Depends(made, Series[m])
    BY <1>2, Refuses
  <2>2. \A o \in made : \E l \in m .. 8 : o = Series[l]
    BY <1>2
  <2>3. made \subseteq {"qp", "cq", "mr", "pd", "channel", "context", "buf", "ctx"}
    BY <2>2 DEF Series
  <2>4. (m > 1 => "qp" \notin made) /\ (m > 2 => "cq" \notin made) /\ (m > 3 => "mr" \notin made)
    BY <2>2 DEF Series
  <2>5. QED  BY <2>1, <2>3, <2>4 DEF Depends, Series
<1>3. QED  BY <1>1, <1>2 DEF Downhill

(* Those of srq release more, the first none.                                   *)
SrqSeries == <<"qp2", "qp", "srq", "cq", "mr", "pd", "channel", "context", "buf", "ctx">>
SrqEach == [i \in 0 .. 9 |-> IF i <= 1 THEN 0 ELSE i + 1]
SrqCleanup ==
  <<Label("clean_qps_full", <<>>), Label("clean_qps", <<"qp2", "qp", "srq">>)>> \o CommonLabels

LEMMA SrqRungs ==
  /\ Len(SrqCleanup) = 9 /\ Len(SrqSeries) = 10
  /\ SrqCleanup[1].name = "clean_qps_full" /\ SrqCleanup[2].name = "clean_qps"
  /\ SrqCleanup[3].name = "clean_cq" /\ SrqCleanup[4].name = "clean_mr" /\ SrqCleanup[5].name = "clean_pd"
  /\ SrqCleanup[6].name = "clean_comp_channel" /\ SrqCleanup[7].name = "clean_device" /\ SrqCleanup[8].name = "clean_buffer"
  /\ SrqCleanup[9].name = "clean_ctx"
  /\ SrqCleanup[1].frees = <<>> /\ SrqCleanup[2].frees = <<"qp2", "qp", "srq">>
  /\ \A i \in 3 .. 9 : SrqCleanup[i].frees = <<SrqSeries[i + 1]>>
<1> DEFINE c == SrqCleanup
           a == <<Label("clean_qps_full", <<>>), Label("clean_qps", <<"qp2", "qp", "srq">>)>>
<1>0. a \in Seq([name : Labels, frees : Seq(Object)])
  BY DEF Label, Labels, Object, Qps
<1>7. /\ Len(a) = 2 /\ a[1].name = "clean_qps_full" /\ a[1].frees = <<>>
      /\ a[2].name = "clean_qps" /\ a[2].frees = <<"qp2", "qp", "srq">>
  BY DEF Label
<1>8. c = a \o CommonLabels
  BY DEF SrqCleanup
<1> HIDE DEF a, c
<1>1. /\ Len(c) = 9 /\ c[1] = a[1] /\ c[2] = a[2]
      /\ \A i \in 1 .. 7 : c[i + 2] = CommonLabels[i]
  <2>1. /\ Len(c) = Len(a) + Len(CommonLabels)
        /\ \A i \in 1 .. Len(a) + Len(CommonLabels) :
             c[i] = IF i <= Len(a) THEN a[i] ELSE CommonLabels[i - Len(a)]
    <3>1. CommonLabels \in Seq([name : Labels, frees : Seq(Object)])
      BY CommonFacts
    <3>2. QED  BY <1>0, <1>8, <3>1, ConcatProperties
  <2>2. Len(CommonLabels) = 7
    BY CommonFacts
  <2>3. QED  BY <1>7, <2>1, <2>2
<1>2. /\ Len(c) = 9 /\ Len(SrqSeries) = 10
      /\ c[1].name = "clean_qps_full" /\ c[2].name = "clean_qps"
      /\ c[3].name = "clean_cq" /\ c[4].name = "clean_mr" /\ c[5].name = "clean_pd"
      /\ c[6].name = "clean_comp_channel" /\ c[7].name = "clean_device" /\ c[8].name = "clean_buffer"
      /\ c[9].name = "clean_ctx"
      /\ c[1].frees = <<>> /\ c[2].frees = <<"qp2", "qp", "srq">>
      /\ \A i \in 3 .. 9 : c[i].frees = <<SrqSeries[i + 1]>>
  <2>1. /\ c[3] = CommonLabels[1] /\ c[4] = CommonLabels[2] /\ c[5] = CommonLabels[3] /\ c[6] = CommonLabels[4]
        /\ c[7] = CommonLabels[5] /\ c[8] = CommonLabels[6] /\ c[9] = CommonLabels[7]
    BY <1>1
  <2>2. /\ c[3].frees = <<"cq">> /\ c[4].frees = <<"mr">> /\ c[5].frees = <<"pd">>
        /\ c[6].frees = <<"channel">> /\ c[7].frees = <<"context">> /\ c[8].frees = <<"buf">>
        /\ c[9].frees = <<"ctx">>
    BY <2>1, CommonFacts
  <2>3. \A i \in 3 .. 9 : c[i].frees = <<SrqSeries[i + 1]>>
    BY <2>2 DEF SrqSeries
  <2>4. Len(SrqSeries) = 10
    BY DEF SrqSeries
  <2>5. QED  BY <1>1, <1>7, <2>1, <2>3, <2>4, CommonFacts
<1>3. QED  BY <1>2 DEF c

LEMMA SrqLadder == Ladder(SrqCleanup, SrqSeries, SrqEach)
<1> DEFINE c == SrqCleanup
<1>2. /\ Len(c) = 9 /\ Len(SrqSeries) = 10
      /\ c[1].name = "clean_qps_full" /\ c[2].name = "clean_qps"
      /\ c[3].name = "clean_cq" /\ c[4].name = "clean_mr" /\ c[5].name = "clean_pd"
      /\ c[6].name = "clean_comp_channel" /\ c[7].name = "clean_device" /\ c[8].name = "clean_buffer"
      /\ c[9].name = "clean_ctx"
      /\ c[1].frees = <<>> /\ c[2].frees = <<"qp2", "qp", "srq">>
      /\ \A i \in 3 .. 9 : c[i].frees = <<SrqSeries[i + 1]>>
  BY SrqRungs
<1> HIDE DEF c
<1>3. \A i, j \in 1 .. 9 : c[i].name = c[j].name => i = j
  BY <1>2
<1>4. ASSUME NEW i \in 1 .. 9 PROVE c[i].frees = Part(SrqSeries, SrqEach[i - 1], SrqEach[i])
  <2>1. CASE i = 1
    <3>1. SrqEach[i - 1] = 0 /\ SrqEach[i] = 0
      BY <2>1 DEF SrqEach
    <3>2. Part(SrqSeries, 0, 0) = <<>>
      BY DEF Part
    <3>3. QED  BY <1>2, <2>1, <3>1, <3>2
  <2>2. CASE i = 2
    <3>1. SrqEach[i - 1] = 0 /\ SrqEach[i] = 3
      BY <2>2 DEF SrqEach
    <3>2. Part(SrqSeries, 0, 3) = [j \in 1 .. 3 |-> SrqSeries[j]]
      BY DEF Part
    <3>3. <<"qp2", "qp", "srq">> = [j \in 1 .. 3 |-> SrqSeries[j]]
      BY DEF SrqSeries
    <3>4. QED  BY <1>2, <2>2, <3>1, <3>2, <3>3
  <2>3. CASE i \in 3 .. 9
    <3>1. SrqEach[i - 1] = i /\ SrqEach[i] = i + 1
      BY <2>3 DEF SrqEach
    <3>2. Part(SrqSeries, i, i + 1) = [j \in 1 .. 1 |-> SrqSeries[i + j]]
      BY DEF Part
    <3>3. <<SrqSeries[i + 1]>> = [j \in 1 .. 1 |-> SrqSeries[i + j]]
      BY <2>3 DEF SrqSeries
    <3>4. QED  BY <1>2, <2>3, <3>1, <3>2, <3>3
  <2>4. QED  BY <2>1, <2>2, <2>3
<1>5. /\ SrqEach \in [0 .. 9 -> 0 .. 10] /\ SrqEach[9] = 10
      /\ \A i, j \in 0 .. 9 : i <= j => SrqEach[i] <= SrqEach[j]
  BY DEF SrqEach
<1>6. Ladder(c, SrqSeries, SrqEach)
  BY <1>2, <1>3, <1>4, <1>5 DEF Ladder
<1>7. QED  BY <1>6 DEF c

LEMMA SrqDownhill == Downhill(SrqSeries)
<1>1. Len(SrqSeries) = 10
  BY DEF SrqSeries
<1>2. ASSUME NEW m \in 1 .. 10, NEW made, made \subseteq {SrqSeries[l] : l \in m .. 10},
             refused(made, SrqSeries[m])
      PROVE  FALSE
  <2>1. Depends(made, SrqSeries[m])
    BY <1>2, Refuses
  <2>2. \A o \in made : \E l \in m .. 10 : o = SrqSeries[l]
    BY <1>2
  <2>3. made \subseteq {"qp2", "qp", "srq", "cq", "mr", "pd", "channel", "context", "buf", "ctx"}
    BY <2>2 DEF SrqSeries
  <2>4. /\ (m > 1 => "qp2" \notin made) /\ (m > 2 => "qp" \notin made) /\ (m > 3 => "srq" \notin made)
        /\ (m > 4 => "cq" \notin made) /\ (m > 5 => "mr" \notin made)
    BY <2>2 DEF SrqSeries
  <2>5. QED  BY <2>1, <2>3, <2>4 DEF Depends, SrqSeries
<1>3. QED  BY <1>1, <1>2 DEF Downhill

(* What each label and those after it release.                                  *)
Kept(l) ==
  CASE l = "clean_ctx" -> {"ctx"}
    [] l = "clean_buffer" -> {"buf", "ctx"}
    [] l = "clean_device" -> {"context", "buf", "ctx"}
    [] l = "clean_comp_channel" -> {"channel", "context", "buf", "ctx"}
    [] l = "clean_pd" -> {"pd", "channel", "context", "buf", "ctx"}
    [] l = "clean_mr" -> {"mr", "pd", "channel", "context", "buf", "ctx"}
    [] l = "clean_cq" -> {"cq", "mr", "pd", "channel", "context", "buf", "ctx"}
    [] l = "clean_qp" -> {"qp", "cq", "mr", "pd", "channel", "context", "buf", "ctx"}
    [] l \in {"clean_qps", "clean_qps_full"} ->
         {"qp2", "qp", "srq", "cq", "mr", "pd", "channel", "context", "buf", "ctx"}
    [] OTHER -> {}

LEMMA CommonLeaves ==
  ASSUME NEW t, t.cleanup = CommonCleanup, NEW i, t.create[i].label \in Labels \ {"clean_qps", "clean_qps_full"},
         Made(t.create, i - 1) \subseteq Kept(t.create[i].label)
  PROVE  AfterFailure(t, i, {}) = {}
<1> DEFINE c == t.cleanup
           l == t.create[i].label
           F == [name : Labels, frees : Seq(Object)]
<1>1. c \in Seq(F)
  <2>1. <<Label("clean_qp", <<"qp">>)>> \in Seq(F)
    BY DEF Label, Labels, Object, Qps
  <2>2. CommonLabels \in Seq(F)
    BY CommonFacts
  <2> HIDE DEF F
  <2>3. QED  BY <2>1, <2>2 DEF CommonCleanup
<1>2. CASE l = "return"
  <2>1. Made(t.create, i - 1) \cup {} \subseteq {}
    BY <1>2 DEF Kept
  <2>2. AfterFailure(t, i, {}) \subseteq Made(t.create, i - 1) \cup {}
    BY <1>1, AfterFailureSubset
  <2>3. QED  BY <2>1, <2>2
<1>3. CASE l # "return"
  <2>1. PICK k \in 1 .. 8 : l = c[k].name
    BY <1>3, CommonRungs DEF Labels
  <2>2. \A o \in Kept(c[k].name) : \E x \in k .. 8 : o = Series[x]
    <3>1. ASSUME NEW o \in Kept(c[k].name) PROVE \E x \in 1 .. 8 : x >= k /\ o = Series[x]
      BY CommonRungs DEF Kept, Series
    <3>2. QED  BY <3>1
  <2>3. Len(Series) = 8 /\ OneEach[k - 1] + 1 = k
    BY DEF Series, OneEach
  <2>4. Made(t.create, i - 1) \cup {} \subseteq After(Series, OneEach[k - 1])
    <3>1. ASSUME NEW o \in Made(t.create, i - 1) PROVE o \in {Series[x] : x \in k .. 8}
      BY <2>1, <2>2
    <3>2. QED  BY <2>3, <3>1 DEF After
  <2>5. Ladder(c, Series, OneEach) /\ Downhill(Series) /\ k \in 1 .. Len(c)
    BY CommonLadder, CommonDownhill, CommonRungs
  <2>6. t.create[i].label = t.cleanup[k].name /\ k \in 1 .. Len(t.cleanup)
    BY <2>1, <2>5
  <2>7. QED  BY <1>1, <2>4, <2>5, <2>6, LadderLeaves
<1>4. QED  BY <1>2, <1>3

LEMMA SrqLeaves ==
  ASSUME NEW t, t.cleanup = SrqCleanup, NEW i, t.create[i].label \in Labels \ {"clean_qp"},
         Made(t.create, i - 1) \subseteq Kept(t.create[i].label)
  PROVE  AfterFailure(t, i, {}) = {}
<1> DEFINE c == t.cleanup
           l == t.create[i].label
           F == [name : Labels, frees : Seq(Object)]
<1>1. c \in Seq(F)
  <2>1. <<Label("clean_qps_full", <<>>), Label("clean_qps", <<"qp2", "qp", "srq">>)>> \in Seq(F)
    BY DEF Label, Labels, Object, Qps
  <2>2. CommonLabels \in Seq(F)
    BY CommonFacts
  <2> HIDE DEF F
  <2>3. QED  BY <2>1, <2>2 DEF SrqCleanup
<1>2. CASE l = "return"
  <2>1. Made(t.create, i - 1) \cup {} \subseteq {}
    BY <1>2 DEF Kept
  <2>2. AfterFailure(t, i, {}) \subseteq Made(t.create, i - 1) \cup {}
    BY <1>1, AfterFailureSubset
  <2>3. QED  BY <2>1, <2>2
<1>3. CASE l # "return"
  <2>1. PICK k \in 1 .. 9 : l = c[k].name
    BY <1>3, SrqRungs DEF Labels
  <2>2. \A o \in Kept(c[k].name) : \E x \in SrqEach[k - 1] + 1 .. 10 : o = SrqSeries[x]
    <3>1. ASSUME NEW o \in Kept(c[k].name) PROVE \E x \in 1 .. 10 : x >= SrqEach[k - 1] + 1 /\ o = SrqSeries[x]
      BY SrqRungs DEF Kept, SrqSeries, SrqEach
    <3>2. SrqEach[k - 1] \in Nat
      BY DEF SrqEach
    <3>3. QED  BY <3>1, <3>2
  <2>3. Len(SrqSeries) = 10
    BY DEF SrqSeries
  <2>4. Made(t.create, i - 1) \cup {} \subseteq After(SrqSeries, SrqEach[k - 1])
    <3>1. ASSUME NEW o \in Made(t.create, i - 1) PROVE o \in {SrqSeries[x] : x \in SrqEach[k - 1] + 1 .. 10}
      BY <2>1, <2>2
    <3>2. QED  BY <2>3, <3>1 DEF After
  <2>5. Ladder(c, SrqSeries, SrqEach) /\ Downhill(SrqSeries) /\ k \in 1 .. Len(c)
    BY SrqLadder, SrqDownhill, SrqRungs
  <2>6. t.create[i].label = t.cleanup[k].name /\ k \in 1 .. Len(t.cleanup)
    BY <2>1, <2>5
  <2>7. QED  BY <1>1, <2>4, <2>5, <2>6, LadderLeaves
<1>4. QED  BY <1>2, <1>3

(* The steps s of a set-up, once the objects A are made, up to B: what is made   *)
(* before a step, the label of the step releases.                               *)
Upto(L, s, A, B) ==
  /\ A \subseteq B
  /\ \A i \in 1 .. Len(s) : s[i].label \in L /\ A \subseteq Kept(s[i].label) /\ s[i].makes \subseteq B
  /\ \A i, j \in 1 .. Len(s) : j < i => s[j].makes \subseteq Kept(s[i].label)

LEMMA UptoConcat ==
  ASSUME NEW R, NEW L, NEW A, NEW B, NEW C, NEW s \in Seq(R), NEW u \in Seq(R), Upto(L, s, A, B), Upto(L, u, B, C)
  PROVE  Upto(L, s \o u, A, C) /\ s \o u \in Seq(R)
<1> DEFINE v == s \o u
           m == Len(s)
           n == Len(u)
<1>1. /\ v \in Seq(R) /\ Len(v) = m + n /\ m \in Nat /\ n \in Nat
      /\ \A i \in 1 .. m + n : v[i] = IF i <= m THEN s[i] ELSE u[i - m]
  BY ConcatProperties
<1>2. \A i \in 1 .. m + n : (i <= m /\ i \in 1 .. m /\ v[i] = s[i])
                             \/ (i > m /\ i - m \in 1 .. n /\ v[i] = u[i - m])
  BY <1>1
<1> HIDE DEF v, m, n
<1>3. /\ A \subseteq B /\ B \subseteq C
      /\ \A i \in 1 .. m : s[i].label \in L /\ A \subseteq Kept(s[i].label) /\ s[i].makes \subseteq B
      /\ \A i \in 1 .. n : u[i].label \in L /\ B \subseteq Kept(u[i].label) /\ u[i].makes \subseteq C
      /\ \A i, j \in 1 .. m : j < i => s[j].makes \subseteq Kept(s[i].label)
      /\ \A i, j \in 1 .. n : j < i => u[j].makes \subseteq Kept(u[i].label)
  BY DEF Upto, m, n
<1>4. ASSUME NEW i \in 1 .. m + n
      PROVE  v[i].label \in L /\ A \subseteq Kept(v[i].label) /\ v[i].makes \subseteq C
  <2>1. CASE i \in 1 .. m /\ v[i] = s[i]
    BY <1>3, <2>1
  <2>2. CASE i - m \in 1 .. n /\ v[i] = u[i - m]
    BY <1>3, <2>2
  <2>3. QED  BY <1>2, <2>1, <2>2
<1>5. ASSUME NEW i \in 1 .. m + n, NEW j \in 1 .. m + n, j < i
      PROVE  v[j].makes \subseteq Kept(v[i].label)
  <2>1. CASE i \in 1 .. m /\ v[i] = s[i]
    <3>1. j \in 1 .. m /\ v[j] = s[j]
      BY <1>1, <1>2, <1>5, <2>1
    <3>2. QED  BY <1>3, <1>5, <2>1, <3>1
  <2>2. CASE i > m /\ i - m \in 1 .. n /\ v[i] = u[i - m]
    <3>1. CASE j <= m /\ j \in 1 .. m /\ v[j] = s[j]
      <4>1. v[j].makes \subseteq B /\ B \subseteq Kept(v[i].label)
        BY <1>3, <2>2, <3>1
      <4>2. QED  BY <4>1
    <3>2. CASE j > m /\ j - m \in 1 .. n /\ v[j] = u[j - m]
      <4>1. j - m < i - m
        BY <1>1, <1>5
      <4>2. u[j - m].makes \subseteq Kept(u[i - m].label)
        BY <1>3, <2>2, <3>2, <4>1
      <4>3. QED  BY <2>2, <3>2, <4>2
    <3>3. QED  BY <1>2, <3>1, <3>2
  <2>3. QED  BY <1>2, <2>1, <2>2
<1>6. Len(v) = m + n /\ v \in Seq(R)
  BY <1>1
<1>7. Upto(L, v, A, C)
  BY <1>3, <1>4, <1>5, <1>6 DEF Upto
<1>8. QED  BY <1>6, <1>7 DEF v

LEMMA UptoThree ==
  ASSUME NEW R, NEW L, NEW A, NEW B, NEW C, NEW D, NEW s \in Seq(R), NEW u \in Seq(R), NEW v \in Seq(R),
         Upto(L, s, A, B), Upto(L, u, B, C), Upto(L, v, C, D)
  PROVE  Upto(L, s \o u \o v, A, D) /\ s \o u \o v \in Seq(R)
<1> DEFINE w == s \o u
<1>1. Upto(L, w, A, C) /\ w \in Seq(R)
  BY UptoConcat
<1> HIDE DEF w
<1>2. Upto(L, w \o v, A, D) /\ w \o v \in Seq(R)
  BY <1>1, UptoConcat
<1>3. QED  BY <1>2 DEF w

(* A part of a set-up that has one step, and one that has none.                  *)
LEMMA UptoOne ==
  ASSUME NEW L, NEW s, NEW A, NEW B, NEW l \in L, Len(s) = 1, s[1].label = l, s[1].makes \subseteq B,
         A \subseteq Kept(l), A \subseteq B
  PROVE  Upto(L, s, A, B)
<1>1. \A i \in 1 .. Len(s) : i = 1
  OBVIOUS
<1>2. QED  BY <1>1 DEF Upto

LEMMA UptoNone ==
  ASSUME NEW L, NEW s, NEW A, NEW B, Len(s) = 0, A \subseteq B
  PROVE  Upto(L, s, A, B)
BY DEF Upto

(* The step that makes the completion channel, when there is one.                *)
LEMMA UptoChannel ==
  ASSUME NEW L, "clean_device" \in L
  PROVE  Upto(L, IF program.event THEN <<Step({"channel"}, "clean_device")>> ELSE <<>>,
              {"context", "buf", "ctx"}, {"channel", "context", "buf", "ctx"})
<1> DEFINE A == {"context", "buf", "ctx"}
           B == {"channel", "context", "buf", "ctx"}
           s == IF program.event THEN <<Step({"channel"}, "clean_device")>> ELSE <<>>
<1>1. A \subseteq B /\ A \subseteq Kept("clean_device")
  BY DEF Kept
<1>2. CASE program.event
  <2>1. Len(s) = 1 /\ s[1].label = "clean_device" /\ s[1].makes \subseteq B
    BY <1>2 DEF Step
  <2> HIDE DEF A, B, s
  <2>3. QED  BY <1>1, <2>1, UptoOne DEF A, B, s
<1>3. CASE ~program.event
  <2>1. Len(s) = 0
    BY <1>3
  <2> HIDE DEF A, B, s
  <2>2. QED  BY <1>1, <2>1, UptoNone DEF A, B, s
<1>4. QED  BY <1>2, <1>3

(* The steps from the registration of the buffer on: rc's, then those of uc and  *)
(* ud with the protection domain before them, then srq's.                        *)
LEMMA UptoRc ==
  ASSUME NEW L, {"clean_pd", "clean_mr", "clean_cq", "clean_qp"} \subseteq L
  PROVE  Upto(L, <<Step({"mr"}, "clean_pd"), Step({"cq"}, "clean_mr"), Step({"qp"}, "clean_cq"), Step({}, "clean_qp")>>,
              {"pd", "channel", "context", "buf", "ctx"}, {"qp", "cq", "mr", "pd", "channel", "context", "buf", "ctx"})
<1> DEFINE A == {"pd", "channel", "context", "buf", "ctx"}
           B == {"qp", "cq", "mr", "pd", "channel", "context", "buf", "ctx"}
           s == <<Step({"mr"}, "clean_pd"), Step({"cq"}, "clean_mr"), Step({"qp"}, "clean_cq"), Step({}, "clean_qp")>>
<1>1. Len(s) = 4
  OBVIOUS
<1>2. /\ s[1].label = "clean_pd" /\ s[1].makes = {"mr"}
      /\ s[2].label = "clean_mr" /\ s[2].makes = {"cq"}
      /\ s[3].label = "clean_cq" /\ s[3].makes = {"qp"}
      /\ s[4].label = "clean_qp" /\ s[4].makes = {}
  BY DEF Step
<1> HIDE DEF s
<1>3. ASSUME NEW i \in 1 .. 4
      PROVE  s[i].label \in L /\ A \subseteq Kept(s[i].label) /\ s[i].makes \subseteq B
  <2>1. CASE i = 1
    BY <1>2, <2>1 DEF Kept
  <2>2. CASE i = 2
    BY <1>2, <2>2 DEF Kept
  <2>3. CASE i = 3
    BY <1>2, <2>3 DEF Kept
  <2>4. CASE i = 4
    BY <1>2, <2>4 DEF Kept
  <2>5. QED  BY <2>1, <2>2, <2>3, <2>4
<1>4. ASSUME NEW i \in 1 .. 4, NEW j \in 1 .. 4, j < i
      PROVE  s[j].makes \subseteq Kept(s[i].label)
  <2>1. i # 1
    BY <1>4
  <2>2. CASE i = 2
    <3>1. j = 1
      BY <1>4, <2>2
    <3>2. QED  BY <1>2, <2>2, <3>1 DEF Kept
  <2>3. CASE i = 3
    <3>1. j = 1 \/ j = 2
      BY <1>4, <2>3
    <3>2. QED  BY <1>2, <2>3, <3>1 DEF Kept
  <2>4. CASE i = 4
    <3>1. j = 1 \/ j = 2 \/ j = 3
      BY <1>4, <2>4
    <3>2. QED  BY <1>2, <2>4, <3>1 DEF Kept
  <2>5. QED  BY <2>1, <2>2, <2>3, <2>4
<1>5. A \subseteq B
  OBVIOUS
<1> HIDE DEF A, B
<1>6. Upto(L, s, A, B)
  BY <1>1, <1>3, <1>4, <1>5 DEF Upto
<1>7. QED  BY <1>6 DEF s, A, B

LEMMA UptoUc ==
  ASSUME NEW L, {"clean_comp_channel", "clean_pd", "clean_mr", "clean_cq", "clean_qp"} \subseteq L
  PROVE  Upto(L, <<Step({"pd"}, "clean_comp_channel"), Step({"mr"}, "clean_pd"), Step({"cq"}, "clean_mr"), Step({"qp"}, "clean_cq"), Step({}, "clean_qp")>>,
              {"channel", "context", "buf", "ctx"}, {"qp", "cq", "mr", "pd", "channel", "context", "buf", "ctx"})
<1> DEFINE A == {"channel", "context", "buf", "ctx"}
           B == {"qp", "cq", "mr", "pd", "channel", "context", "buf", "ctx"}
           s == <<Step({"pd"}, "clean_comp_channel"), Step({"mr"}, "clean_pd"), Step({"cq"}, "clean_mr"), Step({"qp"}, "clean_cq"), Step({}, "clean_qp")>>
<1>1. Len(s) = 5
  OBVIOUS
<1>2. /\ s[1].label = "clean_comp_channel" /\ s[1].makes = {"pd"}
      /\ s[2].label = "clean_pd" /\ s[2].makes = {"mr"}
      /\ s[3].label = "clean_mr" /\ s[3].makes = {"cq"}
      /\ s[4].label = "clean_cq" /\ s[4].makes = {"qp"}
      /\ s[5].label = "clean_qp" /\ s[5].makes = {}
  BY DEF Step
<1> HIDE DEF s
<1>3. ASSUME NEW i \in 1 .. 5
      PROVE  s[i].label \in L /\ A \subseteq Kept(s[i].label) /\ s[i].makes \subseteq B
  <2>1. CASE i = 1
    BY <1>2, <2>1 DEF Kept
  <2>2. CASE i = 2
    BY <1>2, <2>2 DEF Kept
  <2>3. CASE i = 3
    BY <1>2, <2>3 DEF Kept
  <2>4. CASE i = 4
    BY <1>2, <2>4 DEF Kept
  <2>5. CASE i = 5
    BY <1>2, <2>5 DEF Kept
  <2>6. QED  BY <2>1, <2>2, <2>3, <2>4, <2>5
<1>4. ASSUME NEW i \in 1 .. 5, NEW j \in 1 .. 5, j < i
      PROVE  s[j].makes \subseteq Kept(s[i].label)
  <2>1. i # 1
    BY <1>4
  <2>2. CASE i = 2
    <3>1. j = 1
      BY <1>4, <2>2
    <3>2. QED  BY <1>2, <2>2, <3>1 DEF Kept
  <2>3. CASE i = 3
    <3>1. j = 1 \/ j = 2
      BY <1>4, <2>3
    <3>2. QED  BY <1>2, <2>3, <3>1 DEF Kept
  <2>4. CASE i = 4
    <3>1. j = 1 \/ j = 2 \/ j = 3
      BY <1>4, <2>4
    <3>2. QED  BY <1>2, <2>4, <3>1 DEF Kept
  <2>5. CASE i = 5
    <3>1. j = 1 \/ j = 2 \/ j = 3 \/ j = 4
      BY <1>4, <2>5
    <3>2. QED  BY <1>2, <2>5, <3>1 DEF Kept
  <2>6. QED  BY <2>1, <2>2, <2>3, <2>4, <2>5
<1>5. A \subseteq B
  OBVIOUS
<1> HIDE DEF A, B
<1>6. Upto(L, s, A, B)
  BY <1>1, <1>3, <1>4, <1>5 DEF Upto
<1>7. QED  BY <1>6 DEF s, A, B

LEMMA UptoSrq ==
  ASSUME NEW L, {"clean_comp_channel", "clean_pd", "clean_mr", "clean_cq", "clean_qps", "clean_qps_full"} \subseteq L
  PROVE  Upto(L, <<Step({"pd"}, "clean_comp_channel"), Step({"mr"}, "clean_pd"), Step({"cq"}, "clean_mr"), Step({"srq"}, "clean_cq"), Step({"qp"}, "clean_qps"), Step({"qp2"}, "clean_qps"), Step({}, "clean_qps_full")>>,
              {"channel", "context", "buf", "ctx"}, {"qp2", "qp", "srq", "cq", "mr", "pd", "channel", "context", "buf", "ctx"})
<1> DEFINE A == {"channel", "context", "buf", "ctx"}
           B == {"qp2", "qp", "srq", "cq", "mr", "pd", "channel", "context", "buf", "ctx"}
           s == <<Step({"pd"}, "clean_comp_channel"), Step({"mr"}, "clean_pd"), Step({"cq"}, "clean_mr"), Step({"srq"}, "clean_cq"), Step({"qp"}, "clean_qps"), Step({"qp2"}, "clean_qps"), Step({}, "clean_qps_full")>>
<1>1. Len(s) = 7
  OBVIOUS
<1>2. /\ s[1].label = "clean_comp_channel" /\ s[1].makes = {"pd"}
      /\ s[2].label = "clean_pd" /\ s[2].makes = {"mr"}
      /\ s[3].label = "clean_mr" /\ s[3].makes = {"cq"}
      /\ s[4].label = "clean_cq" /\ s[4].makes = {"srq"}
      /\ s[5].label = "clean_qps" /\ s[5].makes = {"qp"}
      /\ s[6].label = "clean_qps" /\ s[6].makes = {"qp2"}
      /\ s[7].label = "clean_qps_full" /\ s[7].makes = {}
  BY DEF Step
<1> HIDE DEF s
<1>3. ASSUME NEW i \in 1 .. 7
      PROVE  s[i].label \in L /\ A \subseteq Kept(s[i].label) /\ s[i].makes \subseteq B
  <2>1. CASE i = 1
    BY <1>2, <2>1 DEF Kept
  <2>2. CASE i = 2
    BY <1>2, <2>2 DEF Kept
  <2>3. CASE i = 3
    BY <1>2, <2>3 DEF Kept
  <2>4. CASE i = 4
    BY <1>2, <2>4 DEF Kept
  <2>5. CASE i = 5
    BY <1>2, <2>5 DEF Kept
  <2>6. CASE i = 6
    BY <1>2, <2>6 DEF Kept
  <2>7. CASE i = 7
    BY <1>2, <2>7 DEF Kept
  <2>8. QED  BY <2>1, <2>2, <2>3, <2>4, <2>5, <2>6, <2>7
<1>4. ASSUME NEW i \in 1 .. 7, NEW j \in 1 .. 7, j < i
      PROVE  s[j].makes \subseteq Kept(s[i].label)
  <2>1. i # 1
    BY <1>4
  <2>2. CASE i = 2
    <3>1. j = 1
      BY <1>4, <2>2
    <3>2. QED  BY <1>2, <2>2, <3>1 DEF Kept
  <2>3. CASE i = 3
    <3>1. j = 1 \/ j = 2
      BY <1>4, <2>3
    <3>2. QED  BY <1>2, <2>3, <3>1 DEF Kept
  <2>4. CASE i = 4
    <3>1. j = 1 \/ j = 2 \/ j = 3
      BY <1>4, <2>4
    <3>2. QED  BY <1>2, <2>4, <3>1 DEF Kept
  <2>5. CASE i = 5
    <3>1. j = 1 \/ j = 2 \/ j = 3 \/ j = 4
      BY <1>4, <2>5
    <3>2. QED  BY <1>2, <2>5, <3>1 DEF Kept
  <2>6. CASE i = 6
    <3>1. j = 1 \/ j = 2 \/ j = 3 \/ j = 4 \/ j = 5
      BY <1>4, <2>6
    <3>2. QED  BY <1>2, <2>6, <3>1 DEF Kept
  <2>7. CASE i = 7
    <3>1. j = 1 \/ j = 2 \/ j = 3 \/ j = 4 \/ j = 5 \/ j = 6
      BY <1>4, <2>7
    <3>2. QED  BY <1>2, <2>7, <3>1 DEF Kept
  <2>8. QED  BY <2>1, <2>2, <2>3, <2>4, <2>5, <2>6, <2>7
<1>5. A \subseteq B
  OBVIOUS
<1> HIDE DEF A, B
<1>6. Upto(L, s, A, B)
  BY <1>1, <1>3, <1>4, <1>5 DEF Upto
<1>7. QED  BY <1>6 DEF s, A, B

(* Before its i-th step, a set-up has made what the label of that step releases.*)
LEMMA UptoMade ==
  ASSUME NEW L, NEW s, NEW A, NEW B, Upto(L, s, A, B), Len(s) \in Nat, NEW i \in 1 .. Len(s)
  PROVE  Made(s, i - 1) \subseteq Kept(s[i].label) /\ s[i].label \in L
<1>1. \A j \in 1 .. i - 1 : j \in 1 .. Len(s) /\ j < i
  OBVIOUS
<1>2. \A j \in 1 .. i - 1 : s[j].makes \subseteq Kept(s[i].label)
  BY <1>1 DEF Upto
<1>3. QED  BY <1>2, MadeSubset DEF Upto

Table(P, t) ==
  /\ t.cleanup \in Seq([name : Labels, frees : Seq(Objects(P))])
  /\ Len(t.create) \in Nat /\ DOMAIN t.create = 1 .. Len(t.create)
  /\ \A j \in DOMAIN t.create : t.create[j].makes \subseteq Objects(P)
  /\ Tidy(P) => \A j \in DOMAIN t.create : \A part \in SUBSET t.create[j].makes :
       part # t.create[j].makes \/ part = {} => AfterFailure(t, j, part) = {}

LEMMA Tables ==
  ASSUME program.name \in PingPongs
  PROVE  /\ program.name = "rc" => Table(program, rc_init_ctx)
         /\ program.name = "uc" => Table(program, uc_init_ctx)
         /\ program.name = "ud" => Table(program, ud_init_ctx)
         /\ program.name = "srq" => Table(program, srq_init_ctx)
<1> DEFINE R == [makes : {{}} \cup {{o} : o \in Objects(program)}, label : Labels]
           F == [name : Labels, frees : Seq(Objects(program))]
<1>1. /\ \A l \in Labels : Step({}, l) \in R
      /\ \A o \in Objects(program), l \in Labels : Step({o}, l) \in R
  BY DEF Step
<1>3. CommonLabels \in Seq(F)
  <2>1. {"qp", "cq", "mr", "pd", "channel", "context", "buf", "ctx"} \subseteq Objects(program)
    BY DEF Objects
  <2>2. QED  BY <2>1 DEF CommonLabels, Label, Labels
<1>2. ASSUME NEW t, t.create \in Seq(R), t.cleanup \in Seq(F),
             Tidy(program) => \A j \in 1 .. Len(t.create) : AfterFailure(t, j, {}) = {}
      PROVE  Table(program, t)
  <2>1. /\ Len(t.create) \in Nat /\ DOMAIN t.create = 1 .. Len(t.create)
        /\ \A j \in DOMAIN t.create : t.create[j] \in R
    <3> HIDE DEF R, F
    <3>1. QED  BY <1>2
  <2>2. \A x \in R : /\ x.makes \subseteq Objects(program)
                     /\ \A part \in SUBSET x.makes : part # x.makes \/ part = {} => part = {}
    OBVIOUS
  <2>3. ASSUME NEW j \in DOMAIN t.create, NEW part \in SUBSET t.create[j].makes, Tidy(program),
               part # t.create[j].makes \/ part = {}
        PROVE  AfterFailure(t, j, part) = {}
    <3>1. part = {}
      <4> HIDE DEF R
      <4>1. QED  BY <2>1, <2>2, <2>3
    <3>2. AfterFailure(t, j, {}) = {}
      BY <1>2, <2>1, <2>3
    <3>3. QED  BY <3>1, <3>2
  <2>4. \A j \in DOMAIN t.create : t.create[j].makes \subseteq Objects(program)
    <3> HIDE DEF R
    <3>1. QED  BY <2>1, <2>2
  <2> HIDE DEF R, F
  <2>5. t.cleanup \in Seq([name : Labels, frees : Seq(Objects(program))])
    BY <1>2 DEF F
  <2>6. QED  BY <2>1, <2>3, <2>4, <2>5 DEF Table
<1>4. CASE program.name = "rc"
  <2> DEFINE t == rc_init_ctx
             a1 == <<Step({"ctx"}, "return"), Step({"buf"}, "clean_ctx"), Step({"context"}, "clean_buffer")>>
             a2 == IF program.event THEN <<Step({"channel"}, "clean_device")>> ELSE <<>>
             a3 == <<Step({"pd"}, "clean_comp_channel")>>
             a4 == IF program.ts THEN <<Step({}, "clean_comp_channel")>> ELSE <<>>
             a5 == <<Step({"mr"}, "clean_pd"), Step({"cq"}, "clean_mr"), Step({"qp"}, "clean_cq"), Step({}, "clean_qp")>>
  <2>1. t.create = a1 \o a2 \o a3 \o a4 \o a5
    BY DEF rc_init_ctx
  <2>2. a1 \in Seq(R) /\ a2 \in Seq(R) /\ a3 \in Seq(R) /\ a4 \in Seq(R) /\ a5 \in Seq(R)
    <3>1. {"qp", "cq", "mr", "pd", "channel", "context", "buf", "ctx"} \subseteq Objects(program)
      BY <1>4 DEF Objects
    <3> HIDE DEF R
    <3>2. QED  BY <1>1, <3>1 DEF Labels
  <2>3. t.create \in Seq(R)
    <3> HIDE DEF a1, a2, a3, a4, a5, R, t
    <3>1. QED  BY <2>1, <2>2
  <2>4. t.cleanup \in Seq(F)
    <3>1. t.cleanup = <<Label("clean_qp", <<"qp">>)>> \o CommonLabels
      BY DEF rc_init_ctx
    <3>2. {"qp", "cq", "mr", "pd", "channel", "context", "buf", "ctx"} \subseteq Objects(program)
      BY <1>4 DEF Objects
    <3>3. <<Label("clean_qp", <<"qp">>)>> \in Seq(F)
      BY <3>2 DEF Label, Labels
    <3> HIDE DEF F
    <3>4. QED  BY <1>3, <3>1, <3>3
  <2>6. ASSUME Tidy(program), NEW j \in 1 .. Len(t.create) PROVE AfterFailure(t, j, {}) = {}
    <3> DEFINE L == Labels \ {"clean_qps", "clean_qps_full"}
    <3>1. Upto(L, a1, {}, {"context", "buf", "ctx"})
      BY <2>6 DEF Upto, Step, Kept, Labels
    <3>2. Upto(L, a2, {"context", "buf", "ctx"}, {"channel", "context", "buf", "ctx"})
      BY UptoChannel DEF Labels
    <3>3. Upto(L, a3, {"channel", "context", "buf", "ctx"}, {"pd", "channel", "context", "buf", "ctx"})
      <4>1. Len(a3) = 1 /\ a3[1].label = "clean_comp_channel" /\ a3[1].makes = {"pd"}
        BY DEF Step
      <4>2. "clean_comp_channel" \in L /\ {"channel", "context", "buf", "ctx"} \subseteq Kept("clean_comp_channel")
        BY DEF Labels, Kept
      <4> HIDE DEF a3, L
      <4>3. QED  BY <4>1, <4>2, UptoOne
    <3>4. Upto(L, a4, {"pd", "channel", "context", "buf", "ctx"}, {"pd", "channel", "context", "buf", "ctx"})
      <4>1. Len(a4) = 0
        BY <1>4, <2>6 DEF Tidy
      <4> HIDE DEF a4, L
      <4>2. QED  BY <4>1, UptoNone
    <3>5. Upto(L, a5, {"pd", "channel", "context", "buf", "ctx"}, {"qp", "cq", "mr", "pd", "channel", "context", "buf", "ctx"})
      BY UptoRc DEF Labels
    <3> HIDE DEF L, t, R, a1, a2, a3, a4, a5
    <3> DEFINE b == a1 \o a2 \o a3
    <3>6. Upto(L, b, {}, {"pd", "channel", "context", "buf", "ctx"}) /\ b \in Seq(R)
      BY <2>2, <3>1, <3>2, <3>3, UptoThree
    <3> HIDE DEF b
    <3>7. Upto(L, b \o a4 \o a5, {}, {"qp", "cq", "mr", "pd", "channel", "context", "buf", "ctx"}) /\ b \o a4 \o a5 \in Seq(R)
      BY <2>2, <3>6, <3>4, <3>5, UptoThree
    <3>9. Upto(L, a1 \o a2 \o a3 \o a4 \o a5, {}, {"qp", "cq", "mr", "pd", "channel", "context", "buf", "ctx"})
      BY <3>7 DEF b
    <3>10. Upto(L, t.create, {}, {"qp", "cq", "mr", "pd", "channel", "context", "buf", "ctx"}) /\ Len(t.create) \in Nat
      BY <2>1, <2>3, <3>9
    <3>11. Made(t.create, j - 1) \subseteq Kept(t.create[j].label) /\ t.create[j].label \in L
      BY <3>10, UptoMade
    <3>12. t.cleanup = CommonCleanup
      BY DEF t, rc_init_ctx, CommonCleanup
    <3>13. QED  BY <3>11, <3>12, CommonLeaves DEF L
  <2> HIDE DEF t, R, F
  <2>5. QED  BY <1>2, <1>4, <2>3, <2>4, <2>6 DEF t
<1>5. CASE program.name = "uc"
  <2> DEFINE t == uc_init_ctx
             a1 == <<Step({"ctx"}, "return"), Step({"buf"}, "clean_ctx"), Step({"context"}, "clean_buffer")>>
             a2 == IF program.event THEN <<Step({"channel"}, "clean_device")>> ELSE <<>>
             a3 == <<Step({"pd"}, "clean_comp_channel"), Step({"mr"}, "clean_pd"), Step({"cq"}, "clean_mr"), Step({"qp"}, "clean_cq"), Step({}, "clean_qp")>>
  <2>1. t.create = a1 \o a2 \o a3
    BY DEF uc_init_ctx
  <2>2. a1 \in Seq(R) /\ a2 \in Seq(R) /\ a3 \in Seq(R)
    <3>1. {"qp", "cq", "mr", "pd", "channel", "context", "buf", "ctx"} \subseteq Objects(program)
      BY <1>5 DEF Objects
    <3> HIDE DEF R
    <3>2. QED  BY <1>1, <3>1 DEF Labels
  <2>3. t.create \in Seq(R)
    <3> HIDE DEF a1, a2, a3, R, t
    <3>1. QED  BY <2>1, <2>2
  <2>4. t.cleanup \in Seq(F)
    <3>1. t.cleanup = <<Label("clean_qp", <<"qp">>)>> \o CommonLabels
      BY DEF uc_init_ctx
    <3>2. {"qp", "cq", "mr", "pd", "channel", "context", "buf", "ctx"} \subseteq Objects(program)
      BY <1>5 DEF Objects
    <3>3. <<Label("clean_qp", <<"qp">>)>> \in Seq(F)
      BY <3>2 DEF Label, Labels
    <3> HIDE DEF F
    <3>4. QED  BY <1>3, <3>1, <3>3
  <2>6. ASSUME Tidy(program), NEW j \in 1 .. Len(t.create) PROVE AfterFailure(t, j, {}) = {}
    <3> DEFINE L == Labels \ {"clean_qps", "clean_qps_full"}
    <3>1. Upto(L, a1, {}, {"context", "buf", "ctx"})
      BY <2>6 DEF Upto, Step, Kept, Labels
    <3>2. Upto(L, a2, {"context", "buf", "ctx"}, {"channel", "context", "buf", "ctx"})
      BY UptoChannel DEF Labels
    <3>3. Upto(L, a3, {"channel", "context", "buf", "ctx"}, {"qp", "cq", "mr", "pd", "channel", "context", "buf", "ctx"})
      BY UptoUc DEF Labels
    <3> HIDE DEF L, t, R, a1, a2, a3
    <3>5. Upto(L, a1 \o a2 \o a3, {}, {"qp", "cq", "mr", "pd", "channel", "context", "buf", "ctx"}) /\ a1 \o a2 \o a3 \in Seq(R)
      BY <2>2, <3>1, <3>2, <3>3, UptoThree
    <3>6. Upto(L, t.create, {}, {"qp", "cq", "mr", "pd", "channel", "context", "buf", "ctx"}) /\ Len(t.create) \in Nat
      BY <2>1, <2>3, <3>5
    <3>7. Made(t.create, j - 1) \subseteq Kept(t.create[j].label) /\ t.create[j].label \in L
      BY <3>6, UptoMade
    <3>8. t.cleanup = CommonCleanup
      BY DEF t, uc_init_ctx, CommonCleanup
    <3>9. QED  BY <3>7, <3>8, CommonLeaves DEF L
  <2> HIDE DEF t, R, F
  <2>5. QED  BY <1>2, <1>5, <2>3, <2>4, <2>6 DEF t
<1>6. CASE program.name = "ud"
  <2> DEFINE t == ud_init_ctx
             a1 == <<Step({"ctx"}, "return"), Step({"buf"}, "clean_ctx"), Step({"context"}, "clean_buffer"), Step({}, "clean_device")>>
             a2 == IF program.event THEN <<Step({"channel"}, "clean_device")>> ELSE <<>>
             a3 == <<Step({"pd"}, "clean_comp_channel"), Step({"mr"}, "clean_pd"), Step({"cq"}, "clean_mr"), Step({"qp"}, "clean_cq"), Step({}, "clean_qp")>>
  <2>1. t.create = a1 \o a2 \o a3
    BY DEF ud_init_ctx
  <2>2. a1 \in Seq(R) /\ a2 \in Seq(R) /\ a3 \in Seq(R)
    <3>1. {"qp", "cq", "mr", "pd", "channel", "context", "buf", "ctx"} \subseteq Objects(program)
      BY <1>6 DEF Objects
    <3> HIDE DEF R
    <3>2. QED  BY <1>1, <3>1 DEF Labels
  <2>3. t.create \in Seq(R)
    <3> HIDE DEF a1, a2, a3, R, t
    <3>1. QED  BY <2>1, <2>2
  <2>4. t.cleanup \in Seq(F)
    <3>1. t.cleanup = <<Label("clean_qp", <<"qp">>)>> \o CommonLabels
      BY DEF ud_init_ctx
    <3>2. {"qp", "cq", "mr", "pd", "channel", "context", "buf", "ctx"} \subseteq Objects(program)
      BY <1>6 DEF Objects
    <3>3. <<Label("clean_qp", <<"qp">>)>> \in Seq(F)
      BY <3>2 DEF Label, Labels
    <3> HIDE DEF F
    <3>4. QED  BY <1>3, <3>1, <3>3
  <2>6. ASSUME Tidy(program), NEW j \in 1 .. Len(t.create) PROVE AfterFailure(t, j, {}) = {}
    <3> DEFINE L == Labels \ {"clean_qps", "clean_qps_full"}
    <3>1. Upto(L, a1, {}, {"context", "buf", "ctx"})
      BY <2>6 DEF Upto, Step, Kept, Labels
    <3>2. Upto(L, a2, {"context", "buf", "ctx"}, {"channel", "context", "buf", "ctx"})
      BY UptoChannel DEF Labels
    <3>3. Upto(L, a3, {"channel", "context", "buf", "ctx"}, {"qp", "cq", "mr", "pd", "channel", "context", "buf", "ctx"})
      BY UptoUc DEF Labels
    <3> HIDE DEF L, t, R, a1, a2, a3
    <3>5. Upto(L, a1 \o a2 \o a3, {}, {"qp", "cq", "mr", "pd", "channel", "context", "buf", "ctx"}) /\ a1 \o a2 \o a3 \in Seq(R)
      BY <2>2, <3>1, <3>2, <3>3, UptoThree
    <3>6. Upto(L, t.create, {}, {"qp", "cq", "mr", "pd", "channel", "context", "buf", "ctx"}) /\ Len(t.create) \in Nat
      BY <2>1, <2>3, <3>5
    <3>7. Made(t.create, j - 1) \subseteq Kept(t.create[j].label) /\ t.create[j].label \in L
      BY <3>6, UptoMade
    <3>8. t.cleanup = CommonCleanup
      BY DEF t, ud_init_ctx, CommonCleanup
    <3>9. QED  BY <3>7, <3>8, CommonLeaves DEF L
  <2> HIDE DEF t, R, F
  <2>5. QED  BY <1>2, <1>6, <2>3, <2>4, <2>6 DEF t
<1>7. CASE program.name = "srq"
  <2> DEFINE t == srq_init_ctx
             a1 == <<Step({"ctx"}, "return"), Step({"buf"}, "clean_ctx"), Step({"context"}, "clean_buffer")>>
             a2 == IF program.event THEN <<Step({"channel"}, "clean_device")>> ELSE <<>>
             a3 == <<Step({"pd"}, "clean_comp_channel"), Step({"mr"}, "clean_pd"), Step({"cq"}, "clean_mr"), Step({"srq"}, "clean_cq"), Step({"qp"}, "clean_qps"), Step({"qp2"}, "clean_qps"), Step({}, "clean_qps_full")>>
  <2>1. t.create = a1 \o a2 \o a3
    BY DEF srq_init_ctx
  <2>2. a1 \in Seq(R) /\ a2 \in Seq(R) /\ a3 \in Seq(R)
    <3>1. {"qp", "cq", "mr", "pd", "channel", "context", "buf", "ctx", "srq", "qp2"} \subseteq Objects(program)
      BY <1>7 DEF Objects
    <3> HIDE DEF R
    <3>2. QED  BY <1>1, <3>1 DEF Labels
  <2>3. t.create \in Seq(R)
    <3> HIDE DEF a1, a2, a3, R, t
    <3>1. QED  BY <2>1, <2>2
  <2>4. t.cleanup \in Seq(F)
    <3>1. t.cleanup = <<Label("clean_qps_full", <<>>), Label("clean_qps", <<"qp2", "qp", "srq">>)>> \o CommonLabels
      BY DEF srq_init_ctx
    <3>2. {"qp", "cq", "mr", "pd", "channel", "context", "buf", "ctx", "srq", "qp2"} \subseteq Objects(program)
      BY <1>7 DEF Objects
    <3>3. <<Label("clean_qps_full", <<>>), Label("clean_qps", <<"qp2", "qp", "srq">>)>> \in Seq(F)
      BY <3>2 DEF Label, Labels
    <3> HIDE DEF F
    <3>4. QED  BY <1>3, <3>1, <3>3
  <2>6. ASSUME Tidy(program), NEW j \in 1 .. Len(t.create) PROVE AfterFailure(t, j, {}) = {}
    <3> DEFINE L == Labels \ {"clean_qp"}
    <3>1. Upto(L, a1, {}, {"context", "buf", "ctx"})
      BY <2>6 DEF Upto, Step, Kept, Labels
    <3>2. Upto(L, a2, {"context", "buf", "ctx"}, {"channel", "context", "buf", "ctx"})
      BY UptoChannel DEF Labels
    <3>3. Upto(L, a3, {"channel", "context", "buf", "ctx"}, {"qp2", "qp", "srq", "cq", "mr", "pd", "channel", "context", "buf", "ctx"})
      BY UptoSrq DEF Labels
    <3> HIDE DEF L, t, R, a1, a2, a3
    <3>5. Upto(L, a1 \o a2 \o a3, {}, {"qp2", "qp", "srq", "cq", "mr", "pd", "channel", "context", "buf", "ctx"}) /\ a1 \o a2 \o a3 \in Seq(R)
      BY <2>2, <3>1, <3>2, <3>3, UptoThree
    <3>6. Upto(L, t.create, {}, {"qp2", "qp", "srq", "cq", "mr", "pd", "channel", "context", "buf", "ctx"}) /\ Len(t.create) \in Nat
      BY <2>1, <2>3, <3>5
    <3>7. Made(t.create, j - 1) \subseteq Kept(t.create[j].label) /\ t.create[j].label \in L
      BY <3>6, UptoMade
    <3>8. t.cleanup = SrqCleanup
      BY DEF t, srq_init_ctx, SrqCleanup
    <3>9. QED  BY <3>7, <3>8, SrqLeaves DEF L
  <2> HIDE DEF t, R, F
  <2>5. QED  BY <1>2, <1>7, <2>3, <2>4, <2>6 DEF t
<1>8. QED  BY <1>4, <1>5, <1>6, <1>7 DEF PingPongs

(****************************************************************************)
(* One process at a time, while nothing goes wrong.                          *)
(****************************************************************************)
(* A step of node n keeps what it promises, and the counts.                     *)
Goes(P, n, p, h, p2, h2) ==
  /\ SteadyInv(P, n, p2, h2)
  /\ p2.rcnt + Arrived(p2, h2, 0) = p.rcnt + Arrived(p, h, 0)
  /\ Posted(p2) + Len(h.wire[0]) = Posted(p) + Len(h2.wire[0])

LEMMA PostedType ==
  ASSUME NEW p, NEW h, Typed(p, h)
  PROVE  /\ Posted(p) \in Nat /\ p.scnt \in Nat /\ p.rcnt \in Nat
         /\ Sending(p, 0) \in {0, 1} /\ Answers(p) \in {0, 1}
         /\ Arrived(p, h, 0) \in Nat /\ Len(h.wire[0]) \in Nat
<1>1. 0 \in QP
  BY QPAssumption
<1>2. /\ p.scnt \in Nat /\ p.rcnt \in Nat /\ Sending(p, 0) \in {0, 1}
      /\ Arrived(p, h, 0) \in Nat /\ Len(h.wire[0]) \in Nat
  BY <1>1, Fields, Numbers
<1>3. QED  BY <1>2 DEF Posted, Answers

(* The process goes on, its counts and queues stay.                             *)
LEMMA SameGoes ==
  ASSUME NEW P, NEW n, NEW p, NEW h, NEW p2, NEW h2, SteadyInv(P, n, p, h), Typed(p, h),
         p2.scnt = p.scnt, p2.rcnt = p.rcnt, p2.pending[0] = p.pending[0], p2.todo = p.todo,
         h2.wire[0] = h.wire[0], h2.cq = h.cq, p2.pc \notin Gone,
         n = 0 /\ p2.pc \notin Before => p.pc \notin Before
  PROVE  Goes(P, n, p, h, p2, h2)
<1>1. Posted(p2) = Posted(p) /\ Answers(p2) = Answers(p) /\ Arrived(p2, h2, 0) = Arrived(p, h, 0)
  BY Zenon DEF Posted, Sending, Answers, Arrived
<1>2. SteadyInv(P, n, p2, h2)
  BY <1>1, Zenon DEF SteadyInv
<1>3. QED  BY <1>1, <1>2, Zenon DEF Goes

(* The server enters the loop.                                                  *)
LEMMA ReadyGoes ==
  ASSUME NEW P, NEW n, NEW p, NEW h, NEW p2, SteadyInv(P, n, p, h), Typed(p, h),
         p2.scnt = p.scnt, p2.rcnt = p.rcnt, p2.todo = p.todo, p2.pc \notin Gone,
         p.scnt = 0, p.pending[0] = {}, p2.pending[0] = {"recv"}
  PROVE  Goes(P, n, p, h, p2, h)
<1>1. Posted(p2) = 0 /\ Posted(p) = 0 /\ Answers(p2) = 0 /\ p2.rcnt \in Nat
  BY PostedType DEF Posted, Sending, Answers
<1>2. Arrived(p2, h, 0) = Arrived(p, h, 0)
  BY DEF Arrived
<1>3. SteadyInv(P, n, p2, h)
  BY <1>1 DEF SteadyInv
<1>4. QED  BY <1>1, <1>2, <1>3 DEF Goes

(* A poll takes the first completions of the CQ.                                *)
LEMMA TakenGoes ==
  ASSUME NEW P, NEW n, NEW p, NEW h, NEW p2, NEW h2, SteadyInv(P, n, p, h), Typed(p, h),
         NEW a \in Seq(Completion), NEW b \in Seq(Completion), h.cq = a \o b,
         p.todo = <<>>, p2.todo = a, h2.cq = b, h2.wire[0] = h.wire[0],
         p2.scnt = p.scnt, p2.rcnt = p.rcnt, p2.pending[0] = p.pending[0],
         p2.pc \notin Gone, p.pc \notin Before
  PROVE  Goes(P, n, p, h, p2, h2)
<1>1. Posted(p2) = Posted(p) /\ Answers(p2) = Answers(p)
  BY Zenon DEF Posted, Sending, Answers
<1>2. Arrived(p2, h2, 0) = Arrived(p, h, 0)
  <2> DEFINE M == Of("recv", 0)
  <2>1. Tally(a \o b, M) = Tally(a, M) + Tally(b, M) /\ Tally(<<>>, M) = 0
    BY TallyConcat, TallyEmpty
  <2>2. Tally(a, M) \in Nat /\ Tally(b, M) \in Nat
    BY TallyType
  <2>3. /\ Arrived(p2, h2, 0) = Tally(b, M) + Tally(a, M)
        /\ Arrived(p, h, 0) = Tally(a \o b, M) + Tally(<<>>, M)
    BY DEF Arrived
  <2> HIDE DEF M
  <2>4. QED  BY <2>1, <2>2, <2>3
<1>3. (\A i \in DOMAIN a : a[i].ok) /\ (\A i \in DOMAIN b : b[i].ok)
  <2>1. \A i \in DOMAIN (a \o b) : (a \o b)[i].ok
    BY DEF SteadyInv
  <2>2. /\ Len(a) \in Nat /\ Len(b) \in Nat /\ DOMAIN a = 1 .. Len(a) /\ DOMAIN b = 1 .. Len(b)
        /\ DOMAIN (a \o b) = 1 .. Len(a) + Len(b)
        /\ \A i \in 1 .. Len(a) : (a \o b)[i] = a[i]
        /\ \A i \in 1 .. Len(b) : (a \o b)[i + Len(a)] = b[i]
    BY ConcatProperties, LenProperties
  <2>3. ASSUME NEW i \in 1 .. Len(b) PROVE b[i].ok
    <3>1. i + Len(a) \in 1 .. Len(a) + Len(b)
      BY <2>2
    <3>2. QED  BY <2>1, <2>2, <3>1
  <2>4. ASSUME NEW i \in 1 .. Len(a) PROVE a[i].ok
    <3>1. i \in 1 .. Len(a) + Len(b)
      BY <2>2
    <3>2. QED  BY <2>1, <2>2, <3>1
  <2>5. QED  BY <2>2, <2>3, <2>4
<1>4. SteadyInv(P, n, p2, h2)
  BY <1>1, <1>3, Zenon DEF SteadyInv
<1>5. QED  BY <1>1, <1>2, <1>4, Zenon DEF Goes

(* A send is posted where nothing is pending.                                   *)
LEMMA PostGoes ==
  ASSUME NEW P, NEW n, NEW p, NEW h, NEW p2, NEW h2, SteadyInv(P, n, p, h), Typed(p, h),
         p2.scnt = p.scnt, p2.rcnt = p.rcnt, p2.todo = p.todo,
         p.pending[0] = {}, p2.pending[0] = Op, p.scnt < P.iters, P.iters \in Nat,
         NEW m \in Message, h2.wire[0] = Append(h.wire[0], m), h2.cq = h.cq,
         p2.pc \notin Gone, p.pc \notin Before
  PROVE  Goes(P, n, p, h, p2, h2)
<1>1. /\ Posted(p) = p.scnt /\ Posted(p2) = p.scnt + 1 /\ Answers(p) = 1 /\ Answers(p2) = 0
      /\ p.scnt \in Nat
  BY PostedType DEF Posted, Sending, Answers, Op
<1>2. Len(h2.wire[0]) = Len(h.wire[0]) + 1 /\ Len(h.wire[0]) \in Nat
  <2>1. h.wire[0] \in Seq(Message)
    BY Fields, QPAssumption
  <2>2. QED  BY <2>1
<1>3. Arrived(p2, h2, 0) = Arrived(p, h, 0)
  BY DEF Arrived
<1>4. Posted(p2) <= P.iters
  BY <1>1
<1>5. n = 0 /\ p2.pc \notin Before => Posted(p2) + Answers(p2) <= p2.rcnt
  <2>1. n = 0 => Posted(p) + Answers(p) <= p.rcnt
    BY DEF SteadyInv
  <2>2. Posted(p) + Answers(p) = Posted(p2) + Answers(p2)
    BY <1>1
  <2>3. QED  BY <2>1, <2>2
<1>6. SteadyInv(P, n, p2, h2)
  BY <1>4, <1>5, Zenon DEF SteadyInv
<1>7. Posted(p2) + Len(h.wire[0]) = Posted(p) + Len(h2.wire[0])
  BY <1>1, <1>2
<1>8. QED  BY <1>3, <1>6, <1>7, Zenon DEF Goes

(* A completion is handled, and nothing posted.                                 *)
LEMMA HandledGoes ==
  ASSUME NEW P, NEW n, NEW p, NEW h, NEW p2, NEW h2, SteadyInv(P, n, p, h), Typed(p, h),
         SendInv(P, p, h), NEW wc, wc = Head(p.todo), p.todo # <<>>, wc.qp = 0,
         p2.todo = Tail(p.todo), p2.pending[0] = p.pending[0] \ {wc.op},
         p2.scnt = (IF wc.op = "send" THEN p.scnt + 1 ELSE p.scnt),
         p2.rcnt = (IF wc.op = "recv" THEN p.rcnt + 1 ELSE p.rcnt),
         h2.wire[0] = h.wire[0], h2.cq = h.cq, p2.pc \notin Gone, p.pc \notin Before
  PROVE  Goes(P, n, p, h, p2, h2)
<1> DEFINE s == p.todo
           t == Tail(p.todo)
           R == Of("recv", 0)
           S == Of("send", 0)
<1>1. s \in Seq(Completion) /\ t \in Seq(Completion) /\ wc \in Completion
      /\ Len(t) \in Nat /\ DOMAIN t = 1 .. Len(t) /\ \A i \in DOMAIN t : t[i] = s[i + 1] /\ i + 1 \in DOMAIN s
  <2>1. s \in Seq(Completion)
    BY Fields
  <2>2. QED  BY <2>1
<1>2. wc.op \in {"send", "recv"} /\ (wc \in R <=> wc.op = "recv") /\ (wc \in S <=> wc.op = "send")
  BY <1>1 DEF Completion, Of
<1>3. /\ Tally(s, R) = Tally(t, R) + (IF wc \in R THEN 1 ELSE 0)
      /\ Tally(s, S) = Tally(t, S) + (IF wc \in S THEN 1 ELSE 0)
      /\ Tally(t, R) \in Nat /\ Tally(t, S) \in Nat /\ Tally(h.cq, R) \in Nat
  <2>1. h.cq \in Seq(Completion)
    BY Fields
  <2> HIDE DEF R, S
  <2>2. QED  BY <1>1, <2>1, TallyTail, TallyType
<1>4. wc.op = "send" => Sending(p, 0) = 1
  <2> SUFFICES ASSUME wc.op = "send" PROVE Sending(p, 0) = 1
    OBVIOUS
  <2>1. Sends(P, p, h, 0) <= Sending(p, 0) /\ Sending(p, 0) \in {0, 1}
    BY PostedType, QPAssumption DEF SendInv
  <2>2. Tally(s, S) >= 1
    BY <1>2, <1>3
  <2>3. /\ h.acks[0] \in Nat /\ Tally(h.cq, S) \in Nat /\ Tally(s, S) \in Nat /\ Len(h.wire[0]) \in Nat
    BY Numbers, QPAssumption
  <2>4. Sends(P, p, h, 0) = (IF Reliable(P) THEN Len(h.wire[0]) ELSE 0) + h.acks[0]
                              + Tally(h.cq, S) + Tally(s, S)
    BY DEF Sends
  <2> DEFINE a == IF Reliable(P) THEN Len(h.wire[0]) ELSE 0
             x == Tally(h.cq, S)
             y == Tally(s, S)
             z == h.acks[0]
             w == Sending(p, 0)
  <2>5. a \in Nat /\ x \in Nat /\ y \in Nat /\ z \in Nat /\ y >= 1 /\ w \in {0, 1} /\ a + z + x + y <= w
    BY <2>1, <2>2, <2>3, <2>4
  <2> HIDE DEF a, x, y, z, w
  <2>6. w = 1
    BY <2>5
  <2>7. QED  BY <2>6 DEF w
<1>5. Arrived(p, h, 0) = Tally(h.cq, R) + Tally(s, R) /\ Arrived(p2, h2, 0) = Tally(h.cq, R) + Tally(t, R)
  BY DEF Arrived
<1>6. /\ p.scnt \in Nat /\ p.rcnt \in Nat /\ Posted(p) = p.scnt + Sending(p, 0)
      /\ Posted(p2) = p2.scnt + Sending(p2, 0)
      /\ Sending(p, 0) \in {0, 1}
  BY PostedType DEF Posted
<1>7. /\ wc.op = "send" => Sending(p2, 0) = 0 /\ Answers(p2) = Answers(p)
      /\ wc.op = "recv" => Sending(p2, 0) = Sending(p, 0) /\ Answers(p2) = 1
  BY DEF Sending, Answers
<1>8. p2.rcnt + Arrived(p2, h2, 0) = p.rcnt + Arrived(p, h, 0)
  <2> DEFINE x == Tally(h.cq, R)
             y == Tally(s, R)
             z == Tally(t, R)
             d == IF wc \in R THEN 1 ELSE 0
  <2>1. d = (IF wc.op = "recv" THEN 1 ELSE 0) /\ x \in Nat /\ z \in Nat /\ y = z + d
        /\ Arrived(p, h, 0) = x + y /\ Arrived(p2, h2, 0) = x + z
    BY <1>2, <1>3, <1>5
  <2> HIDE DEF x, y, z, d
  <2>2. QED  BY <1>6, <2>1
<1>9. Posted(p2) = Posted(p)
  BY <1>2, <1>4, <1>6, <1>7
<1>10. n = 0 /\ p2.pc \notin Before => Posted(p2) + Answers(p2) <= p2.rcnt
  <2>1. n = 0 => Posted(p) + Answers(p) <= p.rcnt
    BY DEF SteadyInv
  <2>2. Posted(p) \in Nat /\ p.rcnt \in Nat /\ Answers(p) \in {0, 1}
    BY PostedType
  <2>3. CASE wc.op = "send"
    BY <1>7, <1>9, <2>1, <2>2, <2>3
  <2>4. CASE wc.op = "recv"
    <3>1. p2.rcnt = p.rcnt + 1 /\ Answers(p2) = 1
      BY <1>7, <2>4
    <3>2. QED  BY <1>9, <2>1, <2>2, <3>1
  <2>5. QED  BY <1>2, <2>3, <2>4
<1>11. \A i \in DOMAIN t : t[i].ok
  BY <1>1 DEF SteadyInv
<1>12. Posted(p2) <= P.iters
  BY <1>9 DEF SteadyInv
<1>13. SteadyInv(P, n, p2, h2)
  BY <1>10, <1>11, <1>12, Zenon DEF SteadyInv
<1>14. QED  BY <1>8, <1>9, <1>13, Zenon DEF Goes

(* The loop is over and everything released.                                    *)
LEMMA ClosedGoes ==
  ASSUME NEW P, NEW n, NEW p, NEW h, NEW p2, NEW h2, SteadyInv(P, n, p, h), Typed(p, h),
         SendInv(P, p, h), P.iters \in Nat, p.pc \notin Before,
         p.scnt >= P.iters, p.rcnt >= P.iters, p.rcnt + Arrived(p, h, 0) <= P.iters,
         p2.pc = "done", p2.todo = <<>>, p2.scnt = p.scnt, p2.rcnt = p.rcnt,
         p2.pending[0] = p.pending[0], h2.cq = <<>>,
         h2.wire[0] = IF Reliable(P) THEN <<>> ELSE h.wire[0]
  PROVE  Goes(P, n, p, h, p2, h2)
<1>1. /\ Posted(p) <= P.iters /\ Posted(p) = p.scnt + Sending(p, 0) /\ p.scnt \in Nat
      /\ p.rcnt \in Nat /\ Arrived(p, h, 0) \in Nat /\ Sending(p, 0) \in {0, 1}
  BY PostedType DEF SteadyInv, Posted
<1>2. Sending(p, 0) = 0 /\ Arrived(p, h, 0) = 0
  BY <1>1
<1>3. Len(h2.wire[0]) = Len(h.wire[0])
  <2>1. CASE Reliable(P)
    <3>1. Sends(P, p, h, 0) <= Sending(p, 0) /\ Sends(P, p, h, 0) >= Len(h.wire[0])
          /\ Len(h.wire[0]) \in Nat /\ Sends(P, p, h, 0) \in Nat
      BY <2>1, Numbers, QPAssumption DEF SendInv
    <3>2. Len(h.wire[0]) = 0
      BY <1>2, <3>1
    <3>3. QED  BY <2>1, <3>2
  <2>2. CASE ~Reliable(P)
    BY <2>2
  <2>3. QED  BY <2>1, <2>2
<1>4. Posted(p2) = Posted(p) /\ Answers(p2) = Answers(p)
  BY Zenon DEF Posted, Sending, Answers
<1>5. Arrived(p2, h2, 0) = 0
  <2>1. Tally(<<>>, Of("recv", 0)) = 0
    BY TallyEmpty
  <2>2. Arrived(p2, h2, 0) = 0 + 0
    BY <2>1 DEF Arrived
  <2>3. QED  BY <2>2
<1>6. SteadyInv(P, n, p2, h2)
  BY <1>1, <1>4 DEF SteadyInv
<1>7. QED  BY <1>2, <1>3, <1>4, <1>5, <1>6, Zenon DEF Goes

(****************************************************************************)
(* The pair while nothing goes wrong.                                        *)
(****************************************************************************)
Calm ==
  /\ PairInv /\ SteadyTypes /\ RunInv
  /\ Steady(program) /\ faults = 0

LEMMA CalmFacts ==
  ASSUME Calm, NEW n \in Pair
  PROVE  /\ Here(n) /\ n \in Node /\ 1 - n \in Pair /\ 1 - n \in Node
         /\ LocalInv(program, n, proc[n], hca[n])
         /\ Typed(proc[n], hca[n]) /\ SteadyInv(program, n, proc[n], hca[n])
         /\ SendInv(program, proc[n], hca[n])
         /\ PlaceInv(program, n, proc[n])
         /\ QueueInv(program, n, proc[n], hca[n])
         /\ Accounted(proc[n], hca[n], proc[1 - n], hca[1 - n])
         /\ program.qps[n] = {0} /\ program.iters \in Nat \ {0} /\ ~(program.event /\ program.ts)
         /\ dropped = 0 /\ program.name \in PingPongs /\ program \in Programs
<1>1. program.name \in PingPongs /\ program \in Programs /\ program.name # "srq"
  BY DEF Calm, Steady, PingPongs, PairInv
<1>2. (n = 0 /\ 1 - n = 1) \/ (n = 1 /\ 1 - n = 0)
  BY DEF Pair
<1>3. 1 - n \in Pair /\ Pair \subseteq Node
  BY <1>2, NodeAssumption DEF Pair
<1>4. LocalInv(program, n, proc[n], hca[n]) /\ Here(n)
  BY <1>1, PairHere DEF Calm, PairInv
<1>5. SteadyInv(program, n, proc[n], hca[n]) /\ dropped = 0 /\ CountInv
  BY DEF Calm, RunInv
<1>6. Accounted(proc[n], hca[n], proc[1 - n], hca[1 - n])
  BY <1>2, <1>5 DEF CountInv
<1>7. program.qps[n] = {0} /\ program.iters \in Nat \ {0} /\ ~(program.event /\ program.ts)
  BY <1>1, PairProgram DEF Calm, Steady
<1>8. QED  BY <1>1, <1>3, <1>4, <1>5, <1>6, <1>7, Zenon DEF LocalInv

(* Before it has sent, nobody is through; nor as long as a message of it is on  *)
(* its way.                                                                     *)
LEMMA PeerStays ==
  ASSUME Calm, NEW n \in Pair, proc[n].pc \in Before \/ Len(hca[n].wire[0]) > 0
  PROVE  proc[1 - n].pc \notin Gone
<1> DEFINE k == 1 - n
<1>1. k \in Pair /\ 1 - k = n
  BY DEF Pair
<1> SUFFICES ASSUME proc[k].pc \in Gone PROVE FALSE
  OBVIOUS
<1>2. /\ SteadyInv(program, k, proc[k], hca[k]) /\ SteadyInv(program, n, proc[n], hca[n])
      /\ Accounted(proc[k], hca[k], proc[n], hca[n])
      /\ program.iters \in Nat \ {0} /\ PlaceInv(program, n, proc[n])
      /\ Typed(proc[k], hca[k]) /\ Typed(proc[n], hca[n])
  BY <1>1, CalmFacts
<1> HIDE DEF k
<1>3. proc[k].rcnt >= program.iters /\ Posted(proc[n]) <= program.iters
  BY <1>2 DEF SteadyInv
<1>4. /\ proc[k].rcnt + Arrived(proc[k], hca[k], 0) + Len(hca[n].wire[0]) = Posted(proc[n])
      /\ Len(hca[n].wire[0]) \in Nat
      /\ proc[k].rcnt \in Nat /\ Arrived(proc[k], hca[k], 0) \in Nat /\ Posted(proc[n]) \in Nat
  BY <1>2, PostedType DEF Accounted
<1>5. CASE proc[n].pc \in Before
  <2>1. Posted(proc[n]) = 0
    BY <1>2, <1>5, QPAssumption DEF PlaceInv, Posted, Sending
  <2>2. QED  BY <1>2, <1>3, <1>4, <2>1
<1>6. CASE Len(hca[n].wire[0]) > 0
  BY <1>2, <1>3, <1>4, <1>6
<1>7. QED  BY <1>5, <1>6

(* With one QP, each receive that has completed is of it.                       *)
LEMMA RecvTally ==
  ASSUME NEW s \in Seq(Completion), \A i \in DOMAIN s : s[i].qp = 0
  PROVE  Tally(s, OfRecv) = Tally(s, Of("recv", 0))
<1>1. \A i \in DOMAIN s : s[i] \in OfRecv <=> s[i] \in Of("recv", 0)
  BY DEF OfRecv, Of
<1>2. {i \in DOMAIN s : s[i] \in OfRecv} = {i \in DOMAIN s : s[i] \in Of("recv", 0)}
  BY <1>1, Zenon
<1>3. QED  BY <1>2, Zenon DEF Tally

(* A message on its way finds its receiver prepared.                            *)
LEMMA PeerPrepared ==
  ASSUME Calm, NEW n \in Pair, Len(hca[n].wire[0]) > 0
  PROVE  hca[1 - n].qp[0] = "rts" /\ hca[1 - n].rq > 0
<1> DEFINE k == 1 - n
           p == proc[n]
           h == hca[n]
           o == proc[k]
           g == hca[k]
<1>1. k \in Pair /\ 1 - k = n /\ ((n = 0 /\ k = 1) \/ (n = 1 /\ k = 0))
  BY DEF Pair
<1>2. /\ SteadyInv(program, k, o, g) /\ SteadyInv(program, n, p, h)
      /\ Accounted(o, g, p, h) /\ Accounted(p, h, o, g)
      /\ PlaceInv(program, n, p) /\ PlaceInv(program, k, o)
      /\ QueueInv(program, k, o, g) /\ LocalInv(program, k, o, g)
      /\ Typed(o, g) /\ Typed(p, h) /\ program.qps[k] = {0}
  BY <1>1, CalmFacts
<1>3. o.pc \notin Gone
  BY PeerStays
<1>4. /\ o.rcnt + Arrived(o, g, 0) + Len(h.wire[0]) = Posted(p)
      /\ p.rcnt + Arrived(p, h, 0) + Len(g.wire[0]) = Posted(o)
      /\ Len(h.wire[0]) \in Nat /\ o.rcnt \in Nat /\ Arrived(o, g, 0) \in Nat /\ Posted(p) \in Nat
      /\ Len(g.wire[0]) \in Nat /\ p.rcnt \in Nat /\ Arrived(p, h, 0) \in Nat /\ Posted(o) \in Nat
  BY <1>2, PostedType DEF Accounted
<1>5. p.pc \notin Before
  <2>1. Posted(p) # 0
    BY <1>4
  <2>2. QED  BY <1>2, <2>1, QPAssumption DEF PlaceInv, Posted, Sending
<1>6. o.pc \in {"read_done", "first"} \cup LoopPc
  <2>1. CASE n = 1
    <3>1. p.pc \in {"first", "done"} \cup LoopPc
      BY <1>2, <1>5 DEF PlaceInv, SteadyInv
    <3>2. proc[0].pc \notin {"create", "exchange"}
      BY <2>1, <3>1 DEF Calm, SteadyTypes, SetupInv
    <3>3. QED  BY <1>1, <1>2, <1>3, <2>1, <3>2 DEF PlaceInv, Before
  <2>2. CASE n = 0
    <3>1. Posted(p) + Answers(p) <= p.rcnt /\ Answers(p) \in {0, 1}
      BY <1>2, <1>5, <2>2, PostedType DEF SteadyInv
    <3>2. Posted(o) # 0
      <4> DEFINE a == Arrived(o, g, 0)
                 b == Arrived(p, h, 0)
                 c == Answers(p)
                 i == o.rcnt
                 j == p.rcnt
                 x == Posted(p)
                 y == Posted(o)
                 l == Len(h.wire[0])
                 m == Len(g.wire[0])
      <4>1. /\ i + a + l = x /\ j + b + m = y /\ x + c <= j /\ l > 0 /\ c \in {0, 1}
            /\ i \in Nat /\ a \in Nat /\ l \in Nat /\ x \in Nat /\ j \in Nat /\ b \in Nat
            /\ m \in Nat /\ y \in Nat
        BY <1>4, <3>1
      <4> HIDE DEF a, b, c, i, j, x, y, l, m
      <4>2. y # 0
        BY <4>1
      <4>3. QED  BY <4>2 DEF y
    <3>3. o.pc \notin Before
      BY <1>2, <3>2, QPAssumption DEF PlaceInv, Posted, Sending
    <3>4. QED  BY <1>2, <1>3, <3>3 DEF PlaceInv
  <2>3. QED  BY <1>1, <2>1, <2>2
<1>7. g.qp[0] = "rts"
  BY <1>2, <1>6 DEF QueueInv
<1>8. Arrived(o, g, 0) = 0
  <2>1. Balls(program, 0, proc[0], hca[0], 0) + Balls(program, 1, proc[1], hca[1], 0) <= 1
    BY QPAssumption DEF Calm, PairInv
  <2>2. Balls(program, n, p, h, 0) + Balls(program, k, o, g, 0) <= 1
    <3>1. /\ Balls(program, 0, proc[0], hca[0], 0) \in Nat
          /\ Balls(program, 1, proc[1], hca[1], 0) \in Nat
      BY <1>1, <1>2, Numbers, QPAssumption
    <3>2. QED  BY <1>1, <2>1, <3>1
  <2>3. /\ Balls(program, n, p, h, 0) >= Len(h.wire[0])
        /\ Balls(program, n, p, h, 0) \in Nat
        /\ Balls(program, k, o, g, 0) = Len(g.wire[0]) + Arrived(o, g, 0) + Owes(program, k, o, 0)
        /\ Owes(program, k, o, 0) \in {0, 1}
    BY <1>2, Numbers, QPAssumption DEF Balls
  <2> DEFINE a == Arrived(o, g, 0)
             b == Balls(program, n, p, h, 0)
             c == Balls(program, k, o, g, 0)
             e == Owes(program, k, o, 0)
             l == Len(h.wire[0])
             m == Len(g.wire[0])
  <2>4. /\ b + c <= 1 /\ b >= l /\ c = m + a + e /\ l > 0 /\ e \in {0, 1}
        /\ b \in Nat /\ l \in Nat /\ m \in Nat /\ a \in Nat
    BY <1>4, <2>2, <2>3
  <2> HIDE DEF a, b, c, e, l, m
  <2>5. a = 0
    BY <2>4
  <2>6. QED  BY <2>5 DEF a
<1>9. /\ Tally(g.cq, OfRecv) = Tally(g.cq, Of("recv", 0))
      /\ Tally(o.todo, OfRecv) = Tally(o.todo, Of("recv", 0))
  <2>1. g.cq \in Seq(Completion) /\ o.todo \in Seq(Completion)
    BY <1>2, Fields
  <2>2. (\A i \in DOMAIN g.cq : g.cq[i].qp = 0) /\ (\A i \in DOMAIN o.todo : o.todo[i].qp = 0)
    BY <1>2 DEF QueueInv
  <2>3. QED  BY <2>1, <2>2, RecvTally
<1>10. g.rq > 0
  <2>1. /\ o.routs >= 1 /\ o.routs = g.rq + Tally(g.cq, OfRecv) + Tally(o.todo, OfRecv)
    BY <1>2, <1>3, <1>6 DEF LocalInv, RecvInv, LoopPc
  <2>2. Tally(g.cq, Of("recv", 0)) + Tally(o.todo, Of("recv", 0)) = 0
    BY <1>8 DEF Arrived
  <2>3. /\ g.rq \in Nat /\ Tally(g.cq, Of("recv", 0)) \in Nat /\ Tally(o.todo, Of("recv", 0)) \in Nat
    BY <1>2, Fields, Numbers, QPAssumption
  <2> DEFINE x == Tally(g.cq, Of("recv", 0))
             y == Tally(o.todo, Of("recv", 0))
             r == g.rq
  <2>4. r + x + y >= 1 /\ x + y = 0 /\ x \in Nat /\ y \in Nat /\ r \in Nat
    BY <1>9, <2>1, <2>2, <2>3
  <2> HIDE DEF x, y, r
  <2>5. r > 0
    BY <2>4
  <2>6. QED  BY <2>5 DEF r
<1>11. QED  BY <1>7, <1>10

(****************************************************************************)
(* What the steps of a process do to its record and to that of its HCA.      *)
(****************************************************************************)
(* It goes on to pc2 and has made the objects m; all else it has stays.         *)
Quiet(n, pc2, m) ==
  /\ proc'[n].pc = pc2 /\ proc'[n].made = m /\ proc'[n].pp_cnt = proc[n].pp_cnt
  /\ proc'[n].todo = proc[n].todo /\ proc'[n].pending = proc[n].pending
  /\ proc'[n].scnt = proc[n].scnt /\ proc'[n].rcnt = proc[n].rcnt
  /\ hca'[n].wire = hca[n].wire /\ hca'[n].cq = hca[n].cq

LEMMA QuietProc ==
  ASSUME NEW n, Here(n), NEW pc2, NEW m, NEW k,
         \/ proc' = [proc EXCEPT ![n].pc = pc2] /\ m = proc[n].made
         \/ proc' = [proc EXCEPT ![n].pc = pc2, ![n].made = m]
         \/ proc' = [proc EXCEPT ![n].pc = pc2, ![n].routs = k, ![n].made = m],
         hca'[n].wire = hca[n].wire, hca'[n].cq = hca[n].cq
  PROVE  Quiet(n, pc2, m)
<1> DEFINE p == proc[n]
<1>1. n \in Node /\ DOMAIN proc = Node /\ Typed(p, hca[n])
  BY HereFacts DEF Here
<1>2. \/ proc'[n] = [p EXCEPT !.pc = pc2] /\ m = p.made
      \/ proc'[n] = [p EXCEPT !.pc = pc2, !.made = m]
      \/ proc'[n] = [p EXCEPT !.pc = pc2, !.routs = k, !.made = m]
  BY <1>1
<1> HIDE DEF p
<1>3. /\ proc'[n].pc = pc2 /\ proc'[n].made = m /\ proc'[n].pp_cnt = p.pp_cnt
      /\ proc'[n].todo = p.todo /\ proc'[n].pending = p.pending
      /\ proc'[n].scnt = p.scnt /\ proc'[n].rcnt = p.rcnt
  BY <1>1, <1>2 DEF Typed
<1>4. QED  BY <1>3 DEF Quiet, p

LEMMA PrepareQuiet ==
  ASSUME NEW n, Here(n), NEW table, prepared(n, table, program.rx_depth)
  PROVE  /\ Quiet(n, "exchange", Made(table.create, Len(table.create)))
         /\ proc[n].pc = "create" /\ UNCHANGED <<sock, faults, dropped>>
<1> DEFINE h == hca[n]
           h2 == Created(h, qpsOf(n), program.rx_depth, program.event)
<1>1. /\ proc[n].pc = "create" /\ UNCHANGED <<sock, faults, dropped>>
      /\ proc' = [proc EXCEPT ![n].pc = "exchange", ![n].routs = program.rx_depth,
                              ![n].made = Made(table.create, Len(table.create))]
      /\ hca' = [hca EXCEPT ![n] = h2]
  BY DEF prepared
<1>2. h \in HCA /\ n \in Node /\ DOMAIN hca = Node
  BY HereFacts DEF Here, Typed
<1>3. h2.wire = h.wire /\ h2.cq = h.cq
  BY <1>2 DEF Created, HCA
<1> HIDE DEF h2
<1>4. hca'[n] = h2
  BY <1>1, <1>2
<1>5. hca'[n].wire = hca[n].wire /\ hca'[n].cq = hca[n].cq
  BY <1>3, <1>4
<1> DEFINE m == Made(table.create, Len(table.create))
<1>6. proc' = [proc EXCEPT ![n].pc = "exchange", ![n].routs = program.rx_depth, ![n].made = m]
  BY <1>1
<1> HIDE DEF m
<1>7. Quiet(n, "exchange", m)
  BY <1>5, <1>6, QuietProc
<1>8. QED  BY <1>1, <1>7 DEF m

(* The client: it calls, reads and connects.                                    *)
LEMMA ClientQuiet ==
  ASSUME NEW n, Here(n)
  PROVE  /\ client_calls(n) => \/ exited(server) /\ return_error(n) /\ UNCHANGED <<sock, faults, dropped>>
                               \/ /\ Quiet(n, "read_addr", proc[n].made) /\ proc[n].pc = "exchange"
                                  /\ sock' = sockAfter(n, server, FALSE, <<"addr">>)
                                  /\ UNCHANGED <<faults, dropped>>
         /\ client_reads(n) => /\ Quiet(n, "connect", proc[n].made) /\ proc[n].pc = "read_addr"
                               /\ sock' = sockAfter(n, server, TRUE, <<"done">>)
                               /\ UNCHANGED <<faults, dropped>>
         /\ \A more : client_connects(n, more) =>
              /\ Quiet(n, "first", proc[n].made \cup more) /\ proc[n].pc = "connect"
              /\ UNCHANGED <<sock, faults, dropped>>
<1>1. n \in Node /\ DOMAIN hca = Node /\ DOMAIN proc = Node /\ hca[n] \in HCA /\ program.qps[n] \in SUBSET QP
      /\ qpsOf(n) = program.qps[n]
  BY HereFacts DEF Here, Typed
<1>2. ASSUME proc' = [proc EXCEPT ![n].pc = "read_addr"], UNCHANGED hca
      PROVE  Quiet(n, "read_addr", proc[n].made)
  BY <1>2, QuietProc
<1>3. ASSUME client_reads(n)
      PROVE  Quiet(n, "connect", proc[n].made)
  <2>1. proc' = [proc EXCEPT ![n].pc = "connect"] /\ UNCHANGED hca
    BY <1>3 DEF client_reads
  <2>2. QED  BY <2>1, QuietProc
<1>4. ASSUME NEW more, client_connects(n, more)
      PROVE  Quiet(n, "first", proc[n].made \cup more)
  <2> DEFINE h2 == Connected(hca[n], qpsOf(n))
             m == proc[n].made \cup more
  <2>1. /\ proc' = [proc EXCEPT ![n].pc = "first", ![n].made = m]
        /\ hca' = [hca EXCEPT ![n] = h2]
    BY <1>4 DEF client_connects
  <2>2. h2.wire = hca[n].wire /\ h2.cq = hca[n].cq
    BY <1>1, ConnectedFields
  <2> HIDE DEF h2, m
  <2>3. hca'[n] = h2
    BY <1>1, <2>1
  <2>4. Quiet(n, "first", m)
    BY <2>1, <2>2, <2>3, QuietProc
  <2>5. QED  BY <2>4 DEF m
<1>5. ASSUME client_calls(n)
      PROVE  \/ exited(server) /\ return_error(n) /\ UNCHANGED <<sock, faults, dropped>>
             \/ /\ proc' = [proc EXCEPT ![n].pc = "read_addr"] /\ UNCHANGED hca
                /\ proc[n].pc = "exchange"
                /\ sock' = sockAfter(n, server, FALSE, <<"addr">>)
                /\ UNCHANGED <<faults, dropped>>
  BY <1>5, Zenon DEF client_calls
<1>6. client_reads(n) => /\ proc[n].pc = "read_addr" /\ UNCHANGED <<faults, dropped>>
                         /\ sock' = sockAfter(n, server, TRUE, <<"done">>)
  BY Zenon DEF client_reads
<1>7. \A more : client_connects(n, more) =>
        proc[n].pc = "connect" /\ UNCHANGED <<sock, faults, dropped>>
  BY Zenon DEF client_connects
<1>8. QED  BY <1>2, <1>3, <1>4, <1>5, <1>6, <1>7, Zenon

(* The server accepts.                                                          *)
LEMMA AcceptQuiet ==
  ASSUME NEW n, Here(n), NEW more, server_accepts(n, more)
  PROVE  /\ Quiet(n, "read_done", proc[n].made \cup more) /\ proc[n].pc = "exchange"
         /\ sock' = sockAfter(n, peer(n), TRUE, <<"addr">>) /\ UNCHANGED <<faults, dropped>>
<1>1. n \in Node /\ DOMAIN hca = Node /\ hca[n] \in HCA /\ program.qps[n] \in SUBSET QP
      /\ qpsOf(n) = program.qps[n]
  BY HereFacts DEF Here, Typed
<1> DEFINE h2 == Connected(hca[n], qpsOf(n))
           m == proc[n].made \cup more
<1>2. /\ proc' = [proc EXCEPT ![n].pc = "read_done", ![n].made = m]
      /\ hca' = [hca EXCEPT ![n] = h2]
  BY DEF server_accepts
<1>3. h2.wire = hca[n].wire /\ h2.cq = hca[n].cq
  BY <1>1, ConnectedFields
<1> HIDE DEF h2, m
<1>4. hca'[n] = h2
  BY <1>1, <1>2
<1>5. Quiet(n, "read_done", m)
  BY <1>2, <1>3, <1>4, QuietProc
<1>6. QED  BY <1>5 DEF m, server_accepts

LEMMA EventQuiet ==
  ASSUME NEW n, Here(n), get_cq_event(n)
  PROVE  /\ Quiet(n, "poll", proc[n].made) /\ proc[n].pc = "loop"
         /\ UNCHANGED <<sock, faults, dropped>>
<1>1. n \in Node /\ DOMAIN hca = Node /\ hca[n] \in HCA
  BY HereFacts DEF Here, Typed
<1>2. /\ proc' = [proc EXCEPT ![n].pc = "poll"] /\ proc[n].pc = "loop"
      /\ hca' = [hca EXCEPT ![n].events = @ - 1, ![n].armed = TRUE]
      /\ UNCHANGED <<sock, faults, dropped>>
  BY DEF get_cq_event
<1>3. hca'[n].wire = hca[n].wire /\ hca'[n].cq = hca[n].cq
  BY <1>1, <1>2 DEF HCA
<1>4. QED  BY <1>2, <1>3, QuietProc

(* The other steps: what they do to the queues, and that they make nothing.     *)
Unmade(n) == proc'[n].made = proc[n].made /\ proc'[n].pp_cnt = proc[n].pp_cnt

LEMMA ReadyFields ==
  ASSUME NEW n, Here(n), server_ready(n)
  PROVE  /\ n = 0 /\ proc[n].pc = "read_done" /\ proc'[n].pc = "loop" /\ Unmade(n)
         /\ proc'[n].todo = proc[n].todo /\ proc'[n].scnt = proc[n].scnt /\ proc'[n].rcnt = proc[n].rcnt
         /\ 0 \in program.qps[n] => proc'[n].pending[0] = {"recv"}
         /\ UNCHANGED <<hca, faults, dropped>> /\ sock' = sockAfter(n, peer(n), TRUE, <<>>)
<1> DEFINE pending2 == [q \in QP |-> IF q \in qpsOf(n) THEN {"recv"} ELSE {}]
<1>1. n \in Node /\ DOMAIN proc = Node /\ Typed(proc[n], hca[n]) /\ qpsOf(n) = program.qps[n]
  BY HereFacts DEF Here
<1>2. 0 \in program.qps[n] => pending2[0] = {"recv"}
  BY <1>1, QPAssumption
<1>3. /\ n = 0 /\ proc[n].pc = "read_done" /\ UNCHANGED <<hca, faults, dropped>>
      /\ sock' = sockAfter(n, peer(n), TRUE, <<>>)
      /\ proc' = [proc EXCEPT ![n].pc = "loop", ![n].pending = pending2]
  BY Zenon DEF server_ready, server
<1> HIDE DEF pending2
<1>4. proc'[n] = [proc[n] EXCEPT !.pc = "loop", !.pending = pending2]
  BY <1>1, <1>3
<1>5. /\ proc'[n].pc = "loop" /\ Unmade(n) /\ proc'[n].pending = pending2
      /\ proc'[n].todo = proc[n].todo /\ proc'[n].scnt = proc[n].scnt /\ proc'[n].rcnt = proc[n].rcnt
  BY <1>1, <1>4 DEF Typed, Unmade
<1>6. QED  BY <1>2, <1>3, <1>5, Zenon

LEMMA PostedQueues ==
  ASSUME NEW h \in HCA, NEW q \in QP, NEW m \in Message, NEW g, g = SendPosted(h, q, m)
  PROVE  g.cq = h.cq /\ g.wire = [h.wire EXCEPT ![q] = Append(h.wire[q], m)]
<1>1. g.cq = h.cq
  BY DEF HCA, SendPosted
<1>2. g.wire = [h.wire EXCEPT ![q] = Append(h.wire[q], m)]
  BY DEF HCA, SendPosted
<1>3. QED  BY <1>1, <1>2

LEMMA FirstSendFields ==
  ASSUME NEW n, Here(n), client_first_send(n)
  PROVE  /\ proc[n].pc = "first" /\ proc'[n].pc \in {"first", "loop"} /\ Unmade(n) /\ n = 1
         /\ proc'[n].todo = proc[n].todo /\ proc'[n].scnt = proc[n].scnt /\ proc'[n].rcnt = proc[n].rcnt
         /\ hca'[n].cq = hca[n].cq /\ UNCHANGED <<sock, faults, dropped>>
         /\ program.qps[n] = {0} =>
              /\ proc[n].pending[0] = {} /\ proc'[n].pending[0] = Op
              /\ hca'[n].wire[0] = Append(hca[n].wire[0], toPeer(n, 0))
<1> DEFINE p == proc[n]
           h == hca[n]
<1>1. /\ n \in Pair /\ n \in Node /\ DOMAIN proc = Node /\ DOMAIN hca = Node /\ qpsOf(n) = program.qps[n]
      /\ Typed(p, h) /\ program.qps[n] \subseteq QP /\ h \in HCA
      /\ p.pending \in [QP -> SUBSET Op] /\ h.wire \in [QP -> Seq(Message)]
  BY HereFacts, Fields, ZenonT(40) DEF Here, Typed
<1>2. n = 1 /\ p.pc = "first" /\ UNCHANGED <<sock, faults, dropped>>
  BY <1>1 DEF client_first_send, server, Pair
<1>3. PICK q \in program.qps[n] :
        /\ p.pending[q] = {}
        /\ hca' = [hca EXCEPT ![n] = SendPosted(@, q, toPeer(n, q))]
        /\ \/ proc' = [proc EXCEPT ![n].pending[q] = Op, ![n].pc = "loop"]
           \/ proc' = [proc EXCEPT ![n].pending[q] = Op, ![n].pc = @]
  BY <1>1 DEF client_first_send
<1> DEFINE w == [p.pending EXCEPT ![q] = Op]
           m == toPeer(n, q)
           h2 == SendPosted(h, q, m)
<1>4. proc'[n] = [p EXCEPT !.pending = w, !.pc = "loop"] \/ proc'[n] = [p EXCEPT !.pending = w]
  <2>1. CASE proc' = [proc EXCEPT ![n].pending[q] = Op, ![n].pc = "loop"]
    BY <1>1, <2>1
  <2>2. CASE proc' = [proc EXCEPT ![n].pending[q] = Op, ![n].pc = @]
    BY <1>1, <2>2 DEF Typed
  <2>3. QED  BY <1>3, <2>1, <2>2
<1>5. w[q] = Op /\ q \in QP
  BY <1>1
<1> HIDE DEF w
<1>6. /\ proc'[n].pc \in {"first", "loop"} /\ Unmade(n) /\ proc'[n].todo = p.todo
      /\ proc'[n].scnt = p.scnt /\ proc'[n].rcnt = p.rcnt /\ proc'[n].pending = w
  BY <1>1, <1>2, <1>4 DEF Typed, Unmade
<1>7. m \in Message
  <2>1. peer(n) \in Node
    BY <1>2, NodeAssumption DEF peer
  <2>2. QED  BY <1>5, <2>1 DEF toPeer, Message
<1>8. h2.cq = h.cq /\ h2.wire = [h.wire EXCEPT ![q] = Append(h.wire[q], m)]
  <2> HIDE DEF h2
  <2>1. h2 = SendPosted(h, q, m)
    BY DEF h2
  <2> HIDE DEF m, h
  <2>2. QED  BY <1>1, <1>5, <1>7, <2>1, PostedQueues
<1>9. h2.wire[q] = Append(h.wire[q], m)
  <2> HIDE DEF h2, m
  <2>1. QED  BY <1>1, <1>5, <1>8
<1> HIDE DEF h2
<1>10. hca'[n] = h2
  <2>1. hca' = [hca EXCEPT ![n] = h2]
    BY <1>3 DEF h2
  <2>2. QED  BY <1>1, <2>1
<1>11. program.qps[n] = {0} => q = 0
  OBVIOUS
<1> HIDE DEF p, h
<1>12. QED  BY <1>2, <1>3, <1>5, <1>6, <1>8, <1>9, <1>10, <1>11, Zenon DEF p, h

(* A poll: the completions a, and more that stay.                               *)
Took(n) ==
  \E a, b \in Seq(Completion) :
     /\ hca[n].cq = a \o b /\ proc'[n].todo = a /\ hca'[n].cq = b
     /\ hca'[n].wire = hca[n].wire /\ proc[n].todo = <<>>
     /\ proc'[n].scnt = proc[n].scnt /\ proc'[n].rcnt = proc[n].rcnt /\ proc'[n].pending = proc[n].pending
     /\ proc'[n].pc \in {"loop", "parse"} /\ proc[n].pc \in LoopPc /\ Unmade(n)

LEMMA TookFields ==
  ASSUME NEW n, Here(n), proc[n].pc \in LoopPc, proc[n].pc # "parse",
         NEW a \in Seq(Completion), NEW b \in Seq(Completion), hca[n].cq = a \o b,
         NEW pc2 \in {"loop", "parse"}, NEW t2,
         \/ proc' = [proc EXCEPT ![n].pc = pc2, ![n].todo = a]
         \/ proc' = [proc EXCEPT ![n].pc = pc2, ![n].turn = t2, ![n].todo = a],
         hca' = [hca EXCEPT ![n].cq = b]
  PROVE  Took(n)
<1> DEFINE p == proc[n]
           h == hca[n]
<1>1. /\ n \in Node /\ DOMAIN proc = Node /\ DOMAIN hca = Node /\ Typed(p, h) /\ h \in HCA
      /\ PlaceInv(program, n, p)
  BY HereFacts DEF Here, Typed
<1>2. hca'[n] = [h EXCEPT !.cq = b]
  BY <1>1
<1>3. hca'[n].cq = b /\ hca'[n].wire = h.wire
  BY <1>1, <1>2 DEF HCA
<1>4. proc'[n] = [p EXCEPT !.pc = pc2, !.todo = a] \/ proc'[n] = [p EXCEPT !.pc = pc2, !.turn = t2, !.todo = a]
  BY <1>1
<1>5. /\ proc'[n].pc = pc2 /\ proc'[n].todo = a /\ Unmade(n) /\ proc'[n].pending = p.pending
      /\ proc'[n].scnt = p.scnt /\ proc'[n].rcnt = p.rcnt
  BY <1>1, <1>4 DEF Typed, Unmade
<1>6. p.todo = <<>>
  BY <1>1 DEF PlaceInv
<1>7. QED  BY <1>3, <1>5, <1>6, Zenon DEF Took

(****************************************************************************)
(* What each step of a process keeps: Sound whatever goes wrong, and Goes    *)
(* while nothing does.                                                       *)
(****************************************************************************)
Known == PairInv /\ SteadyTypes /\ program.name \in PingPongs

Early == {"create", "exchange"}
Past == {"connect", "first", "done"} \cup LoopPc

(* The client is not past the exchange before the server.                       *)
Ahead(n) ==
  IF n = 0
  THEN proc'[0].pc \notin Early \/ (proc[0].pc \in Early /\ sock' = sock)
  ELSE /\ proc'[1].pc \in Past => proc[1].pc \in Past \/ sock[<<0, 1>>] # <<>>
       /\ sock'[<<0, 1>>] # <<>> => sock[<<0, 1>>] # <<>>

Sound(n) ==
  /\ faults' \in Nat /\ (faults' = 0 => faults = 0) /\ dropped' = dropped /\ SockInv'
  /\ proc'[n].made \subseteq Objects(program) /\ proc'[n].pp_cnt = proc[n].pp_cnt
  /\ Clean(program, proc'[n])
  /\ Ahead(n)

GoesOn(n) == Goes(program, n, proc[n], hca[n], proc'[n], hca'[n])

Works(n) == Sound(n) /\ (Calm /\ faults' = 0 => GoesOn(n))

Onward(n) ==
  /\ proc'[n].pc \in Past => proc[n].pc \in Past
  /\ proc'[n].pc \in Early => proc[n].pc \in Early
  /\ Clean(program, proc'[n])

LEMMA KnownFacts ==
  ASSUME Known, NEW n \in Pair
  PROVE  /\ Here(n) /\ proc[n].made \subseteq Objects(program) /\ faults \in Nat /\ SockInv
         /\ PlaceInv(program, n, proc[n]) /\ n \in Node /\ peer(n) \in Pair /\ peer(n) # n
         /\ (n # 0 => n = 1 /\ peer(n) = 0) /\ (n = 0 => peer(n) = 1)
<1>1. Here(n)
  BY PairHere DEF Known
<1>2. (n = 0 /\ peer(n) = 1) \/ (n = 1 /\ peer(n) = 0)
  BY DEF Pair, peer
<1>3. QED  BY <1>1, <1>2, HereFacts DEF Known, SteadyTypes, MadeInv, Pair

(* A step that does not read or write a connection.                             *)
LEMMA StillSound ==
  ASSUME Known, NEW n \in Pair, UNCHANGED <<sock, dropped>>, faults' \in {faults, faults + 1},
         proc'[n].made \subseteq Objects(program), proc'[n].pp_cnt = proc[n].pp_cnt, Onward(n)
  PROVE  Sound(n)
<1>1. faults \in Nat /\ SockInv
  BY KnownFacts
<1>2. faults' \in Nat /\ (faults' = 0 => faults = 0)
  BY <1>1
<1>3. SockInv'
  BY <1>1 DEF SockInv
<1>4. Ahead(n)
  BY DEF Ahead, Onward, Pair
<1>5. QED  BY <1>2, <1>3, <1>4 DEF Sound, Onward

LEMMA QuietGoes ==
  ASSUME Calm, NEW n \in Pair, NEW pc2, NEW m, Quiet(n, pc2, m), pc2 \notin Gone,
         n = 0 /\ pc2 \notin Before => proc[n].pc \notin Before
  PROVE  GoesOn(n)
<1>1. SteadyInv(program, n, proc[n], hca[n]) /\ Typed(proc[n], hca[n])
  BY CalmFacts
<1> DEFINE p == proc[n]
           h == hca[n]
           p2 == proc'[n]
           h2 == hca'[n]
<1>2. /\ p2.pc = pc2 /\ p2.todo = p.todo /\ p2.pending[0] = p.pending[0]
      /\ p2.scnt = p.scnt /\ p2.rcnt = p.rcnt /\ h2.wire[0] = h.wire[0] /\ h2.cq = h.cq
  BY Zenon DEF Quiet
<1> HIDE DEF p, h, p2, h2
<1>3. Goes(program, n, p, h, p2, h2)
  BY <1>1, <1>2, SameGoes DEF p, h
<1>4. QED  BY <1>3 DEF GoesOn, p, h, p2, h2

LEMMA PrepareWorks ==
  ASSUME Known, NEW n \in Pair, NEW table, Table(program, table),
         prepared(n, table, program.rx_depth)
  PROVE  Works(n)
<1> DEFINE m == Made(table.create, Len(table.create))
<1>1. /\ Quiet(n, "exchange", m) /\ proc[n].pc = "create" /\ UNCHANGED <<sock, faults, dropped>>
  BY KnownFacts, PrepareQuiet
<1>2. m \subseteq Objects(program)
  BY MadeSubset DEF Table
<1> HIDE DEF m
<1>3. Sound(n)
  <2>1. Onward(n)
    BY <1>1 DEF Onward, Quiet, Early, Past, LoopPc, Clean
  <2>2. QED  BY <1>1, <1>2, <2>1, StillSound DEF Quiet
<1>4. Calm => GoesOn(n)
  BY <1>1, QuietGoes DEF Gone, Before
<1>5. QED  BY <1>3, <1>4 DEF Works

LEMMA InitFailsWorks ==
  ASSUME Known, NEW n \in Pair, NEW table, Table(program, table), init_fails(n, table)
  PROVE  Works(n)
<1> DEFINE p == proc[n]
<1>1. /\ n \in Node /\ DOMAIN proc = Node /\ Typed(p, hca[n]) /\ faults \in Nat
  BY KnownFacts, HereFacts DEF Here
<1>2. PICK i \in DOMAIN table.create : \E part \in SUBSET table.create[i].makes :
        /\ part # table.create[i].makes \/ part = {}
        /\ proc' = [proc EXCEPT ![n].pc = "no_ctx", ![n].made = AfterFailure(table, i, part)]
  BY DEF init_fails
<1>3. PICK part \in SUBSET table.create[i].makes :
        /\ part # table.create[i].makes \/ part = {}
        /\ proc' = [proc EXCEPT ![n].pc = "no_ctx", ![n].made = AfterFailure(table, i, part)]
  BY <1>2
<1> DEFINE m == AfterFailure(table, i, part)
<1>4. m \subseteq Objects(program)
  <2>1. m \subseteq Made(table.create, i - 1) \cup part
    BY AfterFailureSubset DEF Table
  <2>2. part \subseteq Objects(program)
    BY DEF Table
  <2>3. \A j \in 1 .. i - 1 : table.create[j].makes \subseteq Objects(program)
    <3>1. \A j \in 1 .. i - 1 : j \in DOMAIN table.create
      BY DEF Table
    <3>2. QED  BY <3>1 DEF Table
  <2>4. Made(table.create, i - 1) \subseteq Objects(program)
    BY <2>3, MadeSubset
  <2> HIDE DEF m
  <2>5. QED  BY <2>1, <2>2, <2>4
<1>5. UNCHANGED <<sock, dropped>> /\ faults' = faults + 1
  BY DEF init_fails
<1>12. Tidy(program) => m = {}
  BY <1>3 DEF Table
<1> HIDE DEF m
<1>6. proc'[n] = [p EXCEPT !.pc = "no_ctx", !.made = m]
  BY <1>1, <1>3 DEF m
<1>7. proc'[n].pc = "no_ctx" /\ proc'[n].made = m /\ proc'[n].pp_cnt = p.pp_cnt
  BY <1>1, <1>6 DEF Typed
<1>8. Onward(n)
  BY <1>7, <1>12 DEF Onward, Early, Past, LoopPc, Clean
<1>9. Sound(n)
  BY <1>4, <1>5, <1>7, <1>8, StillSound
<1>10. faults' # 0
  BY <1>1, <1>5
<1>11. QED  BY <1>9, <1>10 DEF Works

(* main returns an error.                                                       *)
LEMMA ErrorSound ==
  ASSUME Known, NEW n \in Pair, return_error(n), UNCHANGED <<sock, dropped>>,
         faults' \in {faults, faults + 1}
  PROVE  Sound(n)
<1> DEFINE p == proc[n]
<1>1. n \in Node /\ DOMAIN proc = Node /\ Typed(p, hca[n]) /\ p.made \subseteq Objects(program)
  BY KnownFacts, HereFacts DEF Here
<1>2. proc'[n] = [p EXCEPT !.pc = "failed", !.todo = <<>>]
  BY <1>1 DEF return_error
<1>3. proc'[n].pc = "failed" /\ proc'[n].made = p.made /\ proc'[n].pp_cnt = p.pp_cnt
  BY <1>1, <1>2 DEF Typed
<1>4. Onward(n)
  BY <1>3 DEF Onward, Early, Past, LoopPc, Clean
<1>5. QED  BY <1>1, <1>3, <1>4, StillSound

LEMMA MainFailsWorks ==
  ASSUME Known, NEW n \in Pair, main_fails(n)
  PROVE  Works(n)
<1>1. return_error(n) /\ UNCHANGED <<sock, dropped>> /\ faults' = faults + 1 /\ faults \in Nat
  BY KnownFacts DEF main_fails
<1>2. QED  BY <1>1, ErrorSound DEF Works

(* A step that reads or writes a connection.                                    *)
LEMMA SockTyped ==
  ASSUME SockInv, NEW n \in Node, NEW m \in Node, n # m, NEW read \in BOOLEAN,
         read => sock[<<m, n>>] # <<>>, NEW written \in Seq(Written),
         sock' = sockAfter(n, m, read, written)
  PROVE  /\ SockInv'
         /\ sock'[<<m, n>>] = (IF read THEN Tail(sock[<<m, n>>]) ELSE sock[<<m, n>>])
<1> DEFINE c == <<m, n>>
           d == <<n, m>>
           E == Node \X Node
           v == IF read THEN Tail(sock[c]) ELSE sock[c]
           w == sock[d] \o written
<1>1. c \in E /\ d \in E /\ c # d /\ sock \in [E -> Seq(Written)]
  BY DEF SockInv
<1>2. v \in Seq(Written) /\ w \in Seq(Written)
  <2>1. sock[c] \in Seq(Written) /\ sock[d] \in Seq(Written)
    BY <1>1
  <2>2. read => sock[c] # <<>>
    OBVIOUS
  <2> HIDE DEF c, d
  <2>3. QED  BY <2>1, <2>2
<1>3. sock' = [sock EXCEPT ![c] = v, ![d] = w]
  BY <1>1 DEF sockAfter
<1> HIDE DEF c, d, v, w, E
<1>4. sock' \in [E -> Seq(Written)] /\ sock'[c] = v
  BY <1>1, <1>2, <1>3
<1>5. QED  BY <1>4 DEF SockInv, c, v, E

LEMMA TalkSound ==
  ASSUME Known, NEW n \in Pair, UNCHANGED <<faults, dropped>>,
         proc'[n].made \subseteq Objects(program), proc'[n].pp_cnt = proc[n].pp_cnt,
         NEW read \in BOOLEAN, read => sock[<<peer(n), n>>] # <<>>, NEW written \in Seq(Written),
         sock' = sockAfter(n, peer(n), read, written),
         IF n = 0 THEN proc'[n].pc \notin Early
         ELSE proc'[n].pc \in Past => read,
         proc'[n].pc \notin Gone
  PROVE  Sound(n)
<1>1. n \in Node /\ peer(n) \in Node /\ n # peer(n) /\ SockInv /\ faults \in Nat
      /\ (n # 0 => n = 1 /\ peer(n) = 0)
  <2>1. Pair \subseteq Node
    BY NodeAssumption DEF Pair
  <2>2. QED  BY <2>1, KnownFacts
<1>2. /\ SockInv'
      /\ sock'[<<peer(n), n>>] = (IF read THEN Tail(sock[<<peer(n), n>>]) ELSE sock[<<peer(n), n>>])
  BY <1>1, SockTyped, Zenon
<1>3. Ahead(n)
  <2>1. CASE n = 0
    BY <2>1 DEF Ahead
  <2>2. CASE n # 0
    BY <1>1, <1>2, <2>2 DEF Ahead
  <2>3. QED  BY <2>1, <2>2
<1>4. Clean(program, proc'[n])
  BY DEF Clean, Gone
<1>5. QED  BY <1>1, <1>2, <1>3, <1>4 DEF Sound

LEMMA CallWorks ==
  ASSUME Known, NEW n \in Pair, client_calls(n)
  PROVE  Works(n)
<1>1. /\ Here(n) /\ n = 1 /\ server = peer(n) /\ server = 0 /\ proc[n].pc = "exchange"
      /\ proc[n].made \subseteq Objects(program)
  BY KnownFacts DEF client_calls, server
<1>2. CASE exited(server) /\ return_error(n) /\ UNCHANGED <<sock, faults, dropped>>
  <2>1. Sound(n)
    BY <1>2, ErrorSound
  <2>2. ~Calm
    <3>1. Calm => proc[1 - n].pc \notin Gone
      BY <1>1, PeerStays DEF Before
    <3>2. 1 - n = 0
      BY <1>1
    <3>3. QED  BY <1>1, <1>2, <3>1, <3>2 DEF exited, Gone
  <2>3. QED  BY <2>1, <2>2 DEF Works
<1>3. CASE /\ Quiet(n, "read_addr", proc[n].made) /\ proc[n].pc = "exchange"
           /\ sock' = sockAfter(n, server, FALSE, <<"addr">>)
           /\ UNCHANGED <<faults, dropped>>
  <2>1. proc'[n].pc = "read_addr" /\ proc'[n].made = proc[n].made /\ proc'[n].pp_cnt = proc[n].pp_cnt
    BY <1>3 DEF Quiet
  <2>2. <<"addr">> \in Seq(Written)
    BY DEF Written
  <2>5. sock' = sockAfter(n, peer(n), FALSE, <<"addr">>)
    BY <1>1, <1>3, Zenon
  <2>7. n # 0 /\ proc'[n].pc \notin Past /\ proc'[n].pc \notin Gone
    BY <1>1, <2>1 DEF Past, LoopPc, Gone
  <2>3. Sound(n)
    BY <1>1, <1>3, <2>1, <2>2, <2>5, <2>7, TalkSound
  <2>4. Calm => GoesOn(n)
    BY <1>1, <1>3, QuietGoes DEF Gone, Before
  <2>6. QED  BY <2>3, <2>4 DEF Works
<1>4. QED  BY <1>1, <1>2, <1>3, ClientQuiet, Zenon

LEMMA ReadWorks ==
  ASSUME Known, NEW n \in Pair, client_reads(n)
  PROVE  Works(n)
<1>1. /\ Here(n) /\ n = 1 /\ server = peer(n) /\ server = 0
      /\ proc[n].made \subseteq Objects(program) /\ sock[<<peer(n), n>>] # <<>>
  BY KnownFacts DEF client_reads, server, socket_read
<1>2. /\ Quiet(n, "connect", proc[n].made) /\ proc[n].pc = "read_addr"
      /\ sock' = sockAfter(n, server, TRUE, <<"done">>)
      /\ UNCHANGED <<faults, dropped>>
  BY <1>1, ClientQuiet, Zenon
<1>3. proc'[n].pc = "connect" /\ proc'[n].made = proc[n].made /\ proc'[n].pp_cnt = proc[n].pp_cnt
  BY <1>2 DEF Quiet
<1>4. <<"done">> \in Seq(Written)
  BY DEF Written
<1>8. sock' = sockAfter(n, peer(n), TRUE, <<"done">>)
  BY <1>1, <1>2, Zenon
<1>9. /\ proc'[n].made \subseteq Objects(program) /\ proc'[n].pp_cnt = proc[n].pp_cnt /\ n # 0
      /\ UNCHANGED <<faults, dropped>> /\ sock[<<peer(n), n>>] # <<>>
      /\ proc'[n].pc \notin Gone
  BY <1>1, <1>2, <1>3 DEF Gone
<1>5. Sound(n)
  BY <1>4, <1>8, <1>9, TalkSound
<1>6. Calm => GoesOn(n)
  BY <1>1, <1>2, QuietGoes DEF Gone, Before
<1>7. QED  BY <1>5, <1>6 DEF Works

LEMMA AcceptWorks ==
  ASSUME Known, NEW n \in Pair, NEW more \in SUBSET Objects(program), server_accepts(n, more)
  PROVE  Works(n)
<1>1. /\ Here(n) /\ n = 0 /\ proc[n].made \subseteq Objects(program) /\ sock[<<peer(n), n>>] # <<>>
  BY KnownFacts DEF server_accepts, server, socket_read
<1> DEFINE m == proc[n].made \cup more
<1>2. /\ Quiet(n, "read_done", m) /\ proc[n].pc = "exchange"
      /\ sock' = sockAfter(n, peer(n), TRUE, <<"addr">>) /\ UNCHANGED <<faults, dropped>>
  BY <1>1, AcceptQuiet, Zenon
<1>3. m \subseteq Objects(program)
  BY <1>1
<1> HIDE DEF m
<1>4. proc'[n].pc = "read_done" /\ proc'[n].made = m /\ proc'[n].pp_cnt = proc[n].pp_cnt
  BY <1>2 DEF Quiet
<1>5. <<"addr">> \in Seq(Written)
  BY DEF Written
<1>6. Sound(n)
  BY <1>1, <1>2, <1>3, <1>4, <1>5, TalkSound DEF Early, Gone
<1>7. Calm => GoesOn(n)
  BY <1>1, <1>2, QuietGoes DEF Gone, Before
<1>8. QED  BY <1>6, <1>7 DEF Works

LEMMA ServerReadyWorks ==
  ASSUME Known, NEW n \in Pair, server_ready(n)
  PROVE  Works(n)
<1>1. /\ Here(n) /\ n = 0 /\ proc[n].made \subseteq Objects(program) /\ sock[<<peer(n), n>>] # <<>>
      /\ PlaceInv(program, n, proc[n])
  BY KnownFacts DEF server_ready, server, socket_read
<1>2. /\ proc[n].pc = "read_done" /\ proc'[n].pc = "loop" /\ Unmade(n)
      /\ proc'[n].todo = proc[n].todo /\ proc'[n].scnt = proc[n].scnt /\ proc'[n].rcnt = proc[n].rcnt
      /\ 0 \in program.qps[n] => proc'[n].pending[0] = {"recv"}
      /\ UNCHANGED <<hca, faults, dropped>> /\ sock' = sockAfter(n, peer(n), TRUE, <<>>)
  BY <1>1, ReadyFields, Zenon
<1>3. <<>> \in Seq(Written)
  OBVIOUS
<1>4. Sound(n)
  BY <1>1, <1>2, <1>3, TalkSound DEF Early, Unmade, Gone
<1>5. ASSUME Calm PROVE GoesOn(n)
  <2>1. SteadyInv(program, n, proc[n], hca[n]) /\ Typed(proc[n], hca[n]) /\ program.qps[n] = {0}
    BY <1>5, CalmFacts
  <2>2. proc[n].scnt = 0 /\ proc[n].pending[0] = {}
    BY <1>1, <1>2, QPAssumption DEF PlaceInv, Before
  <2>3. proc'[n].pc \notin Gone /\ hca'[n] = hca[n] /\ proc'[n].pending[0] = {"recv"}
    BY <1>2, <2>1 DEF Gone
  <2>4. Goes(program, n, proc[n], hca[n], proc'[n], hca[n])
    BY <1>2, <2>1, <2>2, <2>3, ReadyGoes
  <2>5. QED  BY <2>3, <2>4 DEF GoesOn
<1>6. QED  BY <1>4, <1>5 DEF Works

LEMMA ExchangeFailsWorks ==
  ASSUME Known, NEW n \in Pair, exchange_fails(n)
  PROVE  Works(n)
<1>1. /\ proc[n].pc \in Before /\ exited(1 - n) /\ return_error(n) /\ UNCHANGED <<sock, faults, dropped>>
  BY DEF exchange_fails, peer, Before
<1>2. Sound(n)
  BY <1>1, ErrorSound
<1>3. ~Calm
  BY <1>1, PeerStays DEF exited, Gone
<1>4. QED  BY <1>2, <1>3 DEF Works

LEMMA ClientConnectsWorks ==
  ASSUME Known, NEW n \in Pair, NEW more \in SUBSET Objects(program), client_connects(n, more)
  PROVE  Works(n)
<1>1. /\ Here(n) /\ n = 1 /\ proc[n].made \subseteq Objects(program)
  BY KnownFacts DEF client_connects, server
<1> DEFINE m == proc[n].made \cup more
<1>2. /\ Quiet(n, "first", m) /\ proc[n].pc = "connect" /\ UNCHANGED <<sock, faults, dropped>>
  BY <1>1, ClientQuiet, Zenon
<1>3. m \subseteq Objects(program)
  BY <1>1
<1> HIDE DEF m
<1>4. Onward(n)
  BY <1>2 DEF Quiet, Onward, Early, Past, LoopPc, Clean
<1>5. Sound(n)
  BY <1>2, <1>3, <1>4, StillSound DEF Quiet
<1>6. Calm => GoesOn(n)
  BY <1>1, <1>2, QuietGoes DEF Gone, Before
<1>7. QED  BY <1>5, <1>6 DEF Works

(* A step that makes nothing and stays past the exchange.                       *)
LEMMA LoopSound ==
  ASSUME Known, NEW n \in Pair, Unmade(n), UNCHANGED <<sock, faults, dropped>>,
         proc[n].pc \in Past, proc'[n].pc \in Past, proc'[n].pc # "done"
  PROVE  Sound(n)
<1>1. proc[n].made \subseteq Objects(program)
  BY KnownFacts
<1>2. Onward(n)
  BY DEF Onward, Past, Early, LoopPc, Clean
<1>3. QED  BY <1>1, <1>2, StillSound DEF Unmade

LEMMA FirstSendWorks ==
  ASSUME Known, NEW n \in Pair, client_first_send(n)
  PROVE  Works(n)
<1>1. /\ Here(n) /\ proc[n].pc = "first" /\ proc'[n].pc \in {"first", "loop"} /\ Unmade(n) /\ n = 1
      /\ proc'[n].todo = proc[n].todo /\ proc'[n].scnt = proc[n].scnt /\ proc'[n].rcnt = proc[n].rcnt
      /\ hca'[n].cq = hca[n].cq /\ UNCHANGED <<sock, faults, dropped>>
      /\ program.qps[n] = {0} =>
           /\ proc[n].pending[0] = {} /\ proc'[n].pending[0] = Op
           /\ hca'[n].wire[0] = Append(hca[n].wire[0], toPeer(n, 0))
      /\ PlaceInv(program, n, proc[n])
  BY KnownFacts, FirstSendFields, Zenon
<1>2. Sound(n)
  BY <1>1, LoopSound DEF Past, LoopPc
<1>3. ASSUME Calm PROVE GoesOn(n)
  <2>1. SteadyInv(program, n, proc[n], hca[n]) /\ Typed(proc[n], hca[n]) /\ program.qps[n] = {0}
        /\ program.iters \in Nat \ {0}
    BY <1>3, CalmFacts
  <2>2. proc[n].scnt < program.iters
    BY <1>1, <2>1 DEF PlaceInv
  <2>3. toPeer(n, 0) \in Message
    <3>1. peer(n) \in Node
      BY <1>1, NodeAssumption DEF peer
    <3>2. QED  BY <3>1, QPAssumption DEF toPeer, Message
  <2>4. proc'[n].pc \notin Gone /\ proc[n].pc \notin Before
    BY <1>1 DEF Gone, Before
  <2>5. /\ proc[n].pending[0] = {} /\ proc'[n].pending[0] = Op
        /\ hca'[n].wire[0] = Append(hca[n].wire[0], toPeer(n, 0))
    BY <1>1, <2>1
  <2> DEFINE p == proc[n]
             h == hca[n]
             p2 == proc'[n]
             h2 == hca'[n]
             m == toPeer(n, 0)
  <2>6. /\ SteadyInv(program, n, p, h) /\ Typed(p, h) /\ p2.scnt = p.scnt /\ p2.rcnt = p.rcnt
        /\ p2.todo = p.todo /\ p.pending[0] = {} /\ p2.pending[0] = Op /\ p.scnt < program.iters
        /\ program.iters \in Nat /\ m \in Message /\ h2.wire[0] = Append(h.wire[0], m)
        /\ h2.cq = h.cq /\ p2.pc \notin Gone /\ p.pc \notin Before
    BY <1>1, <2>1, <2>2, <2>3, <2>4, <2>5
  <2> HIDE DEF p, h, p2, h2, m
  <2>7. Goes(program, n, p, h, p2, h2)
    BY <2>6, PostGoes
  <2>8. QED  BY <2>7 DEF GoesOn, p, h, p2, h2
<1>4. QED  BY <1>2, <1>3 DEF Works

LEMMA EventWorks ==
  ASSUME Known, NEW n \in Pair, get_cq_event(n)
  PROVE  Works(n)
<1>1. /\ Quiet(n, "poll", proc[n].made) /\ proc[n].pc = "loop" /\ UNCHANGED <<sock, faults, dropped>>
  BY KnownFacts, EventQuiet, Zenon
<1>2. Sound(n)
  BY <1>1, LoopSound DEF Past, LoopPc, Quiet, Unmade
<1>3. Calm => GoesOn(n)
  BY <1>1, QuietGoes DEF Gone, Before
<1>4. QED  BY <1>2, <1>3 DEF Works

(* The polls.                                                                   *)
LEMMA TookGoes ==
  ASSUME Calm, NEW n \in Pair, Took(n)
  PROVE  GoesOn(n)
<1>1. SteadyInv(program, n, proc[n], hca[n]) /\ Typed(proc[n], hca[n])
  BY CalmFacts
<1>2. PICK a \in Seq(Completion), b \in Seq(Completion) :
        /\ hca[n].cq = a \o b /\ proc'[n].todo = a /\ hca'[n].cq = b
        /\ hca'[n].wire = hca[n].wire /\ proc[n].todo = <<>>
        /\ proc'[n].scnt = proc[n].scnt /\ proc'[n].rcnt = proc[n].rcnt /\ proc'[n].pending = proc[n].pending
        /\ proc'[n].pc \in {"loop", "parse"} /\ proc[n].pc \in LoopPc
  BY Zenon DEF Took
<1>3. proc'[n].pc \notin Gone /\ proc[n].pc \notin Before
  BY <1>2 DEF Gone, Before, LoopPc
<1> DEFINE p == proc[n]
           h == hca[n]
           p2 == proc'[n]
           h2 == hca'[n]
<1>4. /\ SteadyInv(program, n, p, h) /\ Typed(p, h) /\ h.cq = a \o b /\ p.todo = <<>>
      /\ p2.todo = a /\ h2.cq = b /\ h2.wire[0] = h.wire[0] /\ p2.scnt = p.scnt /\ p2.rcnt = p.rcnt
      /\ p2.pending[0] = p.pending[0] /\ p2.pc \notin Gone /\ p.pc \notin Before
  BY <1>1, <1>2, <1>3
<1> HIDE DEF p, h, p2, h2
<1>5. Goes(program, n, p, h, p2, h2)
  BY <1>4, TakenGoes
<1>6. QED  BY <1>5 DEF GoesOn, p, h, p2, h2

LEMMA TookWorks ==
  ASSUME Known, NEW n \in Pair, Took(n), UNCHANGED <<sock, faults, dropped>>
  PROVE  Works(n)
<1>1. Unmade(n) /\ proc[n].pc \in Past /\ proc'[n].pc \in Past /\ proc'[n].pc # "done"
  BY DEF Took, Past, LoopPc
<1>2. Sound(n)
  BY <1>1, LoopSound
<1>3. QED  BY <1>2, TookGoes DEF Works

LEMMA PollWorks ==
  ASSUME Known, NEW n \in Pair, NEW batch \in Nat, batch >= 2 * Cardinality(program.qps[n]),
         poll_cq(n, batch)
  PROVE  Works(n)
<1> DEFINE p == proc[n]
           h == hca[n]
           ne == IF Len(h.cq) < batch THEN Len(h.cq) ELSE batch
           a == SubSeq(h.cq, 1, ne)
           b == SubSeq(h.cq, ne + 1, Len(h.cq))
           pc2 == IF ne = 0 THEN "loop" ELSE "parse"
<1>1. /\ Here(n) /\ n \in Node /\ DOMAIN proc = Node /\ DOMAIN hca = Node /\ Typed(p, h)
      /\ h.cq \in Seq(Completion)
  BY KnownFacts, HereFacts, Fields DEF Here
<1>2. /\ proc' = [proc EXCEPT ![n].pc = pc2, ![n].todo = a]
      /\ hca' = [hca EXCEPT ![n].cq = SubSeq(@, ne + 1, Len(@))]
      /\ UNCHANGED <<sock, faults, dropped>> /\ p.pc \in {"loop", "poll"}
  BY DEF poll_cq, polls
<1>3. ne = Len(h.cq) /\ ne \in Nat
  BY <1>1, CqBound
<1>4. a \in Seq(Completion) /\ b \in Seq(Completion) /\ a \o b = h.cq
  <2>1. a = h.cq
    BY <1>1, <1>3, SubSeqFull
  <2>2. b = <<>>
    <3>1. ne + 1 \in Int /\ Len(h.cq) \in Int /\ Len(h.cq) < ne + 1
      BY <1>3
    <3>2. QED  BY <3>1, SubSeqEmpty
  <2> HIDE DEF a, b, ne
  <2>3. <<>> \in Seq(Completion)
    OBVIOUS
  <2>4. h.cq \o <<>> = h.cq
    BY <1>1, ConcatEmptySeq
  <2>5. QED  BY <1>1, <2>1, <2>2, <2>3, <2>4
<1>5. hca' = [hca EXCEPT ![n].cq = b]
  BY <1>1, <1>2
<1>6. pc2 \in {"loop", "parse"} /\ p.pc \in LoopPc /\ p.pc # "parse"
  BY <1>2 DEF LoopPc
<1> HIDE DEF a, b, ne, pc2
<1>7. Took(n)
  BY <1>1, <1>2, <1>4, <1>5, <1>6, TookFields
<1>8. QED  BY <1>2, <1>7, TookWorks

LEMMA OneWorks ==
  ASSUME Known, NEW n \in Pair, NEW t2, hca[n].cq # <<>>,
         proc[n].pc \in {"loop", "poll", "next_poll"},
         proc' = [proc EXCEPT ![n].pc = "parse", ![n].turn = t2, ![n].todo = <<Head(hca[n].cq)>>],
         hca' = [hca EXCEPT ![n].cq = Tail(@)], UNCHANGED <<sock, faults, dropped>>
  PROVE  Works(n)
<1> DEFINE h == hca[n]
           a == <<Head(h.cq)>>
           b == Tail(h.cq)
<1>1. /\ Here(n) /\ n \in Node /\ DOMAIN hca = Node /\ h.cq \in Seq(Completion)
  BY KnownFacts, HereFacts, Fields DEF Here
<1>2. a \in Seq(Completion) /\ b \in Seq(Completion) /\ h.cq = a \o b
  <2>1. Head(h.cq) \in Completion /\ b \in Seq(Completion)
    BY <1>1, HeadTailProperties
  <2>2. a \in Seq(Completion)
    BY <2>1
  <2>3. a \o b = h.cq
    BY <1>1
  <2>4. QED  BY <2>1, <2>2, <2>3
<1>3. hca' = [hca EXCEPT ![n].cq = b]
  BY <1>1
<1>4. proc' = [proc EXCEPT ![n].pc = "parse", ![n].turn = t2, ![n].todo = a]
  OBVIOUS
<1>5. "parse" \in {"loop", "parse"} /\ proc[n].pc \in LoopPc /\ proc[n].pc # "parse"
  BY DEF LoopPc
<1> HIDE DEF a, b
<1>6. Took(n)
  BY <1>1, <1>2, <1>3, <1>4, <1>5, TookFields
<1>7. QED  BY <1>6, TookWorks

LEMMA StartPollWorks ==
  ASSUME Known, NEW n \in Pair, rc_start_poll(n)
  PROVE  Works(n)
<1>1. program.ts /\ UNCHANGED <<sock, faults, dropped>> /\ proc[n].pc \in {"loop", "poll", "next_poll"}
      /\ (~program.event => hca[n].cq # <<>>)
  BY DEF rc_start_poll, polls
<1>2. CASE hca[n].cq = <<>>
  <2>1. return_error(n) /\ program.event
    BY <1>1, <1>2 DEF rc_start_poll
  <2>2. Sound(n)
    BY <1>1, <2>1, ErrorSound
  <2>3. ~Calm
    BY <1>1, <2>1 DEF Calm, Steady
  <2>4. QED  BY <2>2, <2>3 DEF Works
<1>3. CASE hca[n].cq # <<>>
  <2>1. proc' = [proc EXCEPT ![n].pc = "parse", ![n].turn = 0, ![n].todo = <<Head(hca[n].cq)>>]
        /\ hca' = [hca EXCEPT ![n].cq = Tail(@)]
    BY <1>3 DEF rc_start_poll
  <2>2. QED  BY <1>1, <1>3, <2>1, OneWorks
<1>4. QED  BY <1>2, <1>3

LEMMA NextPollWorks ==
  ASSUME Known, NEW n \in Pair, rc_next_poll(n)
  PROVE  Works(n)
<1>1. UNCHANGED <<sock, faults, dropped>> /\ proc[n].pc = "next_poll" /\ Here(n)
  BY KnownFacts DEF rc_next_poll
<1>2. CASE hca[n].cq = <<>>
  <2>1. proc' = [proc EXCEPT ![n].pc = "loop"] /\ UNCHANGED hca
    BY <1>2 DEF rc_next_poll
  <2>2. Quiet(n, "loop", proc[n].made)
    BY <1>1, <2>1, QuietProc
  <2>3. Sound(n)
    BY <1>1, <2>2, LoopSound DEF Past, LoopPc, Quiet, Unmade
  <2>4. Calm => GoesOn(n)
    BY <1>1, <2>2, QuietGoes DEF Gone, Before
  <2>5. QED  BY <2>3, <2>4 DEF Works
<1>3. CASE hca[n].cq # <<>>
  <2>1. proc' = [proc EXCEPT ![n].pc = "parse", ![n].turn = 1, ![n].todo = <<Head(hca[n].cq)>>]
        /\ hca' = [hca EXCEPT ![n].cq = Tail(@)]
    BY <1>3 DEF rc_next_poll
  <2>2. QED  BY <1>1, <1>3, <2>1, OneWorks
<1>4. QED  BY <1>2, <1>3

(* A completion is handled and a send posted.                                   *)
LEMMA ServedGoes ==
  ASSUME NEW P, NEW n, NEW p, NEW h, NEW p2, NEW h2, SteadyInv(P, n, p, h), Typed(p, h),
         SendInv(P, p, h), Typed(p2, h2), P.iters \in Nat,
         NEW wc, wc = Head(p.todo), p.todo # <<>>, wc.qp = 0, p2.todo = Tail(p.todo),
         p.pending[0] \ {wc.op} = {}, p2.pending[0] = Op, p2.scnt < P.iters,
         p2.scnt = (IF wc.op = "send" THEN p.scnt + 1 ELSE p.scnt),
         p2.rcnt = (IF wc.op = "recv" THEN p.rcnt + 1 ELSE p.rcnt),
         NEW m \in Message, h2.wire[0] = Append(h.wire[0], m), h2.cq = h.cq,
         p2.pc \notin Gone, p2.pc \notin Before, p.pc \notin Before
  PROVE  Goes(P, n, p, h, p2, h2)
<1> DEFINE e == [p2.pending EXCEPT ![0] = {}]
           p1 == [p2 EXCEPT !.pending = e]
           h1 == [h2 EXCEPT !.wire = h.wire]
<1>1. /\ 0 \in QP /\ p2.pending \in [QP -> SUBSET Op] /\ h.wire \in [QP -> Seq(Message)]
      /\ h.wire[0] \in Seq(Message)
  BY Fields, QPAssumption
<1>2. e \in [QP -> SUBSET Op] /\ e[0] = {}
  BY <1>1
<1> HIDE DEF e
<1>3. /\ p1.pending = e /\ p1.todo = p2.todo /\ p1.scnt = p2.scnt /\ p1.rcnt = p2.rcnt /\ p1.pc = p2.pc
      /\ h1.wire = h.wire /\ h1.cq = h2.cq
  BY DEF Typed, HCA
<1>4. Typed(p1, h1)
  <2>1. h1 \in HCA /\ h1.tx_cq = <<>>
    BY <1>1 DEF Typed, HCA
  <2>2. p1 \in [pc : {p1.pc}, made : {p1.made}, todo : Seq(Completion), pending : [QP -> SUBSET Op],
                routs : Nat, scnt : Nat, rcnt : Nat, pp_cnt : {p1.pp_cnt}, turn : Nat]
    BY <1>2 DEF Typed
  <2>3. QED  BY <2>1, <2>2 DEF Typed
<1> HIDE DEF p1, h1
<1>5. Goes(P, n, p, h, p1, h1)
  <2>1. /\ p1.todo = Tail(p.todo) /\ p1.pending[0] = p.pending[0] \ {wc.op}
        /\ p1.scnt = (IF wc.op = "send" THEN p.scnt + 1 ELSE p.scnt)
        /\ p1.rcnt = (IF wc.op = "recv" THEN p.rcnt + 1 ELSE p.rcnt)
        /\ h1.wire[0] = h.wire[0] /\ h1.cq = h.cq /\ p1.pc \notin Gone
    BY <1>2, <1>3
  <2>2. QED  BY <2>1, HandledGoes, Zenon
<1>6. Goes(P, n, p1, h1, p2, h2)
  <2>1. SteadyInv(P, n, p1, h1)
    BY <1>5, Zenon DEF Goes
  <2>2. /\ p2.scnt = p1.scnt /\ p2.rcnt = p1.rcnt /\ p2.todo = p1.todo /\ p1.pending[0] = {}
        /\ p1.scnt < P.iters /\ h2.wire[0] = Append(h1.wire[0], m) /\ h2.cq = h1.cq
        /\ p1.pc \notin Before
    BY <1>2, <1>3
  <2>3. QED  BY <1>4, <2>1, <2>2, PostGoes, Zenon
<1>7. /\ p2.rcnt + Arrived(p2, h2, 0) = p.rcnt + Arrived(p, h, 0)
      /\ Posted(p1) + Len(h.wire[0]) = Posted(p) + Len(h1.wire[0])
      /\ Posted(p2) + Len(h1.wire[0]) = Posted(p1) + Len(h2.wire[0])
      /\ SteadyInv(P, n, p2, h2)
  BY <1>5, <1>6, Zenon DEF Goes
<1>8. Posted(p2) + Len(h.wire[0]) = Posted(p) + Len(h2.wire[0])
  <2> DEFINE a == Posted(p)
             b == Posted(p1)
             c == Posted(p2)
             x == Len(h.wire[0])
             y == Len(h1.wire[0])
             z == Len(h2.wire[0])
  <2>1. a \in Nat /\ b \in Nat /\ c \in Nat /\ x \in Nat /\ y \in Nat /\ z \in Nat
    BY <1>4, PostedType, Zenon
  <2>2. b + x = a + y /\ c + y = b + z
    BY <1>7
  <2> HIDE DEF a, b, c, x, y, z
  <2>3. c + x = a + z
    BY <2>1, <2>2
  <2>4. QED  BY <2>3 DEF a, c, x, z
<1>9. QED  BY <1>7, <1>8, Zenon DEF Goes

LEMMA RecvPostedFields ==
  ASSUME NEW h \in HCA, NEW k \in Nat, NEW g, g = RecvPosted(h, k)
  PROVE  g \in HCA /\ g.cq = h.cq /\ g.wire = h.wire
<1> DEFINE r == h.rq + k
<1>1. r \in Nat
  BY DEF HCA
<1> HIDE DEF r
<1>2. g = [h EXCEPT !.rq = r]
  BY DEF RecvPosted, r
<1>3. QED  BY <1>1, <1>2 DEF HCA

LEMMA ParseWorks ==
  ASSUME Known, NEW n \in Pair, NEW low \in 1 .. RxDepth, NEW next,
         next = (IF program.ts /\ proc[n].turn = 0 THEN "next_poll" ELSE "loop"),
         parse_wc(n, low, next)
  PROVE  Works(n)
<1> DEFINE P == program
           p == proc[n]
           h == hca[n]
           wc == Head(p.todo)
           q == wc.qp
           left == IF wc.op = "recv" THEN p.routs - 1 ELSE p.routs
           more == IF wc.op = "recv" THEN refill(left, low) ELSE 0
           scnt == IF wc.op = "send" THEN p.scnt + 1 ELSE p.scnt
           rcnt == IF wc.op = "recv" THEN p.rcnt + 1 ELSE p.rcnt
           pending == p.pending[q] \ {wc.op}
           again == serves(pending, scnt)
           pc1 == IF Len(p.todo) > 1 THEN "parse" ELSE next
           routs1 == left + more
           h1 == RecvPosted(h, more)
           m == toPeer(n, q)
           h2 == SendPosted(h1, q, m)
           x == IF again THEN Op ELSE pending
<1>1. /\ Here(n) /\ n \in Pair /\ n \in Node /\ Typed(p, h) /\ PlaceInv(P, n, p) /\ h \in HCA
      /\ DOMAIN proc = Node /\ DOMAIN hca = Node /\ p.todo \in Seq(Completion)
      /\ p.pending \in [QP -> SUBSET Op]
  BY KnownFacts, HereFacts, Fields, Zenon DEF Here, Typed
<1>2. p.pc = "parse" /\ UNCHANGED <<sock, faults, dropped>>
  BY Zenon DEF parse_wc
<1>3. p.todo # <<>> /\ wc \in Completion /\ wc = p.todo[1] /\ 1 \in DOMAIN p.todo /\ q \in QP
  <2>1. p.todo # <<>>
    BY <1>1, <1>2 DEF PlaceInv
  <2>2. wc \in Completion /\ wc = p.todo[1] /\ 1 \in DOMAIN p.todo
    BY <1>1, <2>1
  <2>3. QED  BY <2>1, <2>2 DEF Completion
<1>4. CASE ~wc.ok
  <2>1. return_error(n)
    BY <1>4 DEF parse_wc
  <2>2. Sound(n)
    BY <1>2, <2>1, ErrorSound
  <2>3. ~Calm
    <3>1. Calm => SteadyInv(P, n, p, h)
      BY CalmFacts
    <3>2. QED  BY <1>3, <1>4, <3>1 DEF SteadyInv
  <2>4. QED  BY <2>2, <2>3 DEF Works
<1>5. CASE wc.ok
  <2>1. /\ proc' = [proc EXCEPT ![n].todo = Tail(@), ![n].pc = pc1, ![n].routs = routs1,
                                ![n].scnt = scnt, ![n].rcnt = rcnt, ![n].pending[q] = x]
        /\ hca' = [hca EXCEPT ![n] = IF again THEN h2 ELSE h1]
    BY <1>5, Zenon DEF parse_wc
  <2>2. h1.cq = h.cq /\ h1.wire = h.wire /\ h1 \in HCA
    <3>1. more \in Nat
      <4>1. p.routs \in Nat /\ low \in Nat /\ RxDepth \in Nat /\ program.rx_depth = RxDepth
        BY <1>1, HereFacts, Fields, DepthAssumption
      <4>2. wc.op = "recv" => p.routs >= 1
        <5>1. RecvInv(program, p, h)
          BY <1>1 DEF Here, LocalInv
        <5>2. QED  BY <1>2, <5>1 DEF RecvInv, Gone
      <4>3. QED  BY <4>1, <4>2 DEF refill
    <3>2. h1 = RecvPosted(h, more)
      OBVIOUS
    <3> HIDE DEF more, h1, h
    <3>3. QED  BY <1>1, <3>1, <3>2, RecvPostedFields
  <2>3. m \in Message
    <3>1. peer(n) \in Node
      BY KnownFacts, NodeAssumption DEF Pair
    <3> HIDE DEF q
    <3>2. QED  BY <1>3, <3>1 DEF toPeer, Message
  <2>4. h2.cq = h.cq /\ h2.wire = [h.wire EXCEPT ![q] = Append(h.wire[q], m)]
    <3>3. h2 = SendPosted(h1, q, m)
      OBVIOUS
    <3> HIDE DEF h1, m, q, h2
    <3>1. h2.cq = h1.cq /\ h2.wire = [h1.wire EXCEPT ![q] = Append(h1.wire[q], m)]
      BY <1>3, <2>2, <2>3, <3>3, PostedQueues
    <3>2. QED  BY <2>2, <3>1
  <2>5. hca'[n] = IF again THEN h2 ELSE h1
    <3> HIDE DEF again, h1, h2
    <3>1. QED  BY <1>1, <2>1
  <2>6. /\ proc'[n].todo = Tail(p.todo) /\ proc'[n].pc = pc1 /\ proc'[n].scnt = scnt
        /\ proc'[n].rcnt = rcnt /\ proc'[n].pending = [p.pending EXCEPT ![q] = x] /\ Unmade(n)
    <3> HIDE DEF x, pc1, routs1, scnt, rcnt, q
    <3>1. proc'[n] = [p EXCEPT !.todo = Tail(p.todo), !.pc = pc1, !.routs = routs1, !.scnt = scnt,
                               !.rcnt = rcnt, !.pending = [p.pending EXCEPT ![q] = x]]
      BY <1>1, <2>1 DEF Typed
    <3> DEFINE y == [p.pending EXCEPT ![q] = x]
               t == Tail(p.todo)
    <3> HIDE DEF y, t
    <3>2. proc'[n] = [p EXCEPT !.todo = t, !.pc = pc1, !.routs = routs1, !.scnt = scnt,
                               !.rcnt = rcnt, !.pending = y]
      BY <3>1 DEF y, t
    <3>3. /\ proc'[n].todo = t /\ proc'[n].pc = pc1 /\ proc'[n].scnt = scnt
          /\ proc'[n].rcnt = rcnt /\ proc'[n].pending = y /\ Unmade(n)
      BY <1>1, <3>2 DEF Typed, Unmade
    <3>4. QED  BY <3>3 DEF y, t
  <2>7. pc1 \in {"parse", "next_poll", "loop"}
    OBVIOUS
  <2>8. Sound(n)
    <3> HIDE DEF pc1
    <3>1. QED  BY <1>2, <2>6, <2>7, LoopSound DEF Past, LoopPc
  <2>9. ASSUME Calm PROVE GoesOn(n)
    <3>1. /\ SteadyInv(P, n, p, h) /\ SendInv(P, p, h) /\ P.iters \in Nat /\ P.qps[n] = {0}
          /\ QueueInv(P, n, p, h)
      BY <2>9, CalmFacts
    <3>2. q = 0
      BY <1>3, <3>1 DEF QueueInv
    <3>3. Typed(proc'[n], hca'[n])
      BY <1>1, ParseStep, Zenon DEF Moved, LocalInv
    <3>4. /\ proc'[n].pc \notin Gone /\ proc'[n].pc \notin Before /\ p.pc \notin Before
      <4> HIDE DEF pc1
      <4>1. QED  BY <1>2, <2>6, <2>7 DEF Gone, Before
    <3>5. proc'[n].pending[0] = x
      <4> HIDE DEF x, q
      <4>1. QED  BY <1>1, <1>3, <2>6, <3>2
    <3>6. pending = p.pending[0] \ {wc.op}
      BY <3>2
    <3>7. CASE again
      <4>1. pending = {} /\ scnt < P.iters /\ x = Op
        BY <3>7, Zenon DEF serves
      <4>2. hca'[n].cq = h.cq /\ hca'[n].wire[0] = Append(h.wire[0], m)
        <5>1. hca'[n] = h2
          BY <2>5, <3>7, Zenon
        <5>2. h.wire \in [QP -> Seq(Message)]
          BY <1>1, Fields
        <5> HIDE DEF h2, m, q
        <5>3. QED  BY <1>3, <2>4, <3>2, <5>1, <5>2
      <4>3. /\ proc'[n].todo = Tail(p.todo) /\ p.pending[0] \ {wc.op} = {} /\ proc'[n].pending[0] = Op
            /\ proc'[n].scnt < P.iters /\ proc'[n].scnt = scnt /\ proc'[n].rcnt = rcnt
        <5> HIDE DEF x, pending, scnt, rcnt
        <5>1. QED  BY <2>6, <3>5, <3>6, <4>1
      <4> DEFINE p2 == proc'[n]
                 g == hca'[n]
      <4> HIDE DEF p2, g, m
      <4>4. Goes(P, n, p, h, p2, g)
        BY <1>1, <1>3, <2>3, <3>1, <3>2, <3>3, <3>4, <4>2, <4>3, ServedGoes, Zenon DEF p2, g
      <4>5. QED  BY <4>4, Zenon DEF GoesOn, p2, g
    <3>8. CASE ~again
      <4>1. hca'[n] = h1 /\ x = pending
        BY <2>5, <3>8, Zenon
      <4>2. hca'[n].cq = h.cq /\ hca'[n].wire[0] = h.wire[0]
        <5> HIDE DEF h1
        <5>1. QED  BY <2>2, <4>1
      <4>3. /\ proc'[n].todo = Tail(p.todo) /\ proc'[n].pending[0] = p.pending[0] \ {wc.op}
            /\ proc'[n].scnt = scnt /\ proc'[n].rcnt = rcnt
        <5> HIDE DEF x, pending, scnt, rcnt
        <5>1. QED  BY <2>6, <3>5, <3>6, <4>1
      <4> DEFINE p2 == proc'[n]
                 g == hca'[n]
      <4> HIDE DEF p2, g
      <4>4. Goes(P, n, p, h, p2, g)
        BY <1>1, <1>3, <3>1, <3>2, <3>4, <4>2, <4>3, HandledGoes, Zenon DEF p2, g
      <4>5. QED  BY <4>4, Zenon DEF GoesOn, p2, g
    <3>9. QED  BY <3>7, <3>8
  <2>10. QED  BY <2>8, <2>9 DEF Works
<1>6. QED  BY <1>4, <1>5

(* The loop is over and everything is released, which no call refuses.          *)
LEMMA CloseWorks ==
  ASSUME Known, NEW n \in Pair, NEW objects, main_closes(n, objects),
         \/ program.name \in {"rc", "uc"} /\ objects = <<"qp", "cq", "mr", "pd", "channel", "context", "buf", "ctx">>
         \/ program.name = "ud" /\ objects = <<"qp", "cq", "mr", "ah", "pd", "channel", "context", "buf", "ctx">>
         \/ program.name = "srq" /\ objects = <<"qp", "qp2", "srq", "cq", "mr", "pd", "channel", "context", "buf", "ctx">>
  PROVE  Works(n)
<1> DEFINE P == program
           p == proc[n]
           h == hca[n]
           p2 == proc'[n]
           g == hca'[n]
<1>1. /\ n \in Node /\ DOMAIN proc = Node /\ DOMAIN hca = Node /\ Typed(p, h) /\ PlaceInv(P, n, p)
      /\ p.made \subseteq Objects(P) /\ h \in HCA /\ h.wire \in [QP -> Seq(Message)]
  <2>1. Here(n) /\ p.made \subseteq Objects(P)
    BY KnownFacts
  <2>2. QED  BY <2>1, HereFacts, Fields DEF Here, Typed
<1>2. Closed(p.made, objects).ok /\ Closed(p.made, objects).left = {}
  <2>1. p.made \subseteq Objects(P)
    BY <1>1
  <2> HIDE DEF p
  <2>2. QED  BY <2>1, Releases
<1>3. /\ p.pc = "loop" /\ finished(n) /\ UNCHANGED <<program, sock, faults, dropped>>
      /\ hca' = [hca EXCEPT ![n] = Destroyed(h)]
      /\ proc' = [proc EXCEPT ![n].pc = "done", ![n].made = {}]
  BY <1>2 DEF main_closes, close_ctx
<1>4. p2 = [p EXCEPT !.pc = "done", !.made = {}] /\ g = Destroyed(h)
  BY <1>1, <1>3
<1>5. /\ p2.pc = "done" /\ p2.made = {} /\ p2.pp_cnt = p.pp_cnt /\ p2.todo = p.todo
      /\ p2.scnt = p.scnt /\ p2.rcnt = p.rcnt /\ p2.pending = p.pending
  BY <1>1, <1>4 DEF Typed
<1>6. p.todo = <<>>
  BY <1>1, <1>3 DEF PlaceInv
<1>7. g.cq = <<>> /\ g.wire[0] = IF Reliable(P) THEN <<>> ELSE h.wire[0]
  <2> DEFINE w == IF reliable THEN NoHCA.wire ELSE h.wire
  <2>1. g = [NoHCA EXCEPT !.wire = w]
    BY <1>4 DEF Destroyed, NoHCA
  <2>2. \A x : [NoHCA EXCEPT !.wire = x].wire = x /\ [NoHCA EXCEPT !.wire = x].cq = <<>>
    BY DEF NoHCA
  <2>3. NoHCA.wire[0] = <<>>
    BY QPAssumption DEF NoHCA
  <2>4. w[0] = IF Reliable(P) THEN <<>> ELSE h.wire[0]
    BY <2>3 DEF reliable, Reliable
  <2> HIDE DEF w, g
  <2>5. g.wire = w /\ g.cq = <<>>
    BY <2>1, <2>2, Zenon
  <2>6. QED  BY <2>4, <2>5
<1>8. Sound(n)
  <2>1. Onward(n)
    BY <1>3, <1>5 DEF Onward, Past, Early, LoopPc, Clean
  <2>2. QED  BY <1>3, <1>5, <2>1, StillSound
<1>9. ASSUME Calm PROVE GoesOn(n)
  <2>1. /\ SteadyInv(P, n, p, h) /\ SendInv(P, p, h) /\ P.iters \in Nat /\ 1 - n \in Pair
        /\ Accounted(p, h, proc[1 - n], hca[1 - n])
    BY <1>9, CalmFacts
  <2>2. /\ SteadyInv(P, 1 - n, proc[1 - n], hca[1 - n]) /\ Typed(proc[1 - n], hca[1 - n])
    BY <1>9, <2>1, CalmFacts
  <2>3. p.rcnt + Arrived(p, h, 0) <= P.iters
    <3> DEFINE x == Posted(proc[1 - n])
               y == Arrived(p, h, 0)
               l == Len(hca[1 - n].wire[0])
               i == p.rcnt
    <3>1. x \in Nat /\ y \in Nat /\ l \in Nat /\ i \in Nat /\ i + y + l = x /\ x <= P.iters
      BY <1>1, <2>1, <2>2, PostedType DEF SteadyInv, Accounted
    <3> HIDE DEF x, y, l, i
    <3>2. i + y <= P.iters
      BY <2>1, <3>1
    <3>3. QED  BY <3>2 DEF i, y
  <2>4. p.scnt >= P.iters /\ p.rcnt >= P.iters /\ p.pc \notin Before
    BY <1>3 DEF finished, Before
  <2>5. /\ p2.pc = "done" /\ p2.todo = <<>> /\ p2.scnt = p.scnt /\ p2.rcnt = p.rcnt
        /\ p2.pending[0] = p.pending[0]
    BY <1>5, <1>6
  <2> HIDE DEF p2, g, p, h
  <2>6. Goes(P, n, p, h, p2, g)
    BY <1>1, <1>7, <2>1, <2>3, <2>4, <2>5, ClosedGoes
  <2>7. QED  BY <2>6 DEF GoesOn, p2, g, p, h
<1>10. QED  BY <1>8, <1>9 DEF Works

(****************************************************************************)
(* All the steps of a process.                                               *)
(****************************************************************************)
LEMMA ProcessWorks ==
  ASSUME Known, NEW n \in Pair,
         \/ RcNext(n) \/ UcNext(n) \/ UdNext(n) \/ SrqNext(n) \/ XsrqNext(n)
         \/ IbProbeNext(n) \/ YmpiNext(n) \/ IballputallNext(n) \/ main_fails(n)
  PROVE  Works(n)
<1>1. /\ program.name \in PingPongs /\ (program.ts => program.name = "rc")
      /\ program.event \in BOOLEAN /\ program.ts \in BOOLEAN
  BY PairProgram DEF Known, PairInv
<1>2. /\ 1 \in 1 .. RxDepth /\ Cardinality(qpsOf(n)) \in 1 .. RxDepth
      /\ program.rx_depth + Cardinality(qpsOf(n)) \in Nat
      /\ program.rx_depth + Cardinality(qpsOf(n)) >= 2 * Cardinality(program.qps[n])
      /\ program.name # "srq" => 2 >= 2 * Cardinality(program.qps[n])
  <2>1. Here(n)
    BY KnownFacts
  <2>2. QED  BY <2>1, Batches
<1>10. /\ program.name = "rc" => Table(program, rc_init_ctx)
       /\ program.name = "uc" => Table(program, uc_init_ctx)
       /\ program.name = "ud" => Table(program, ud_init_ctx)
       /\ program.name = "srq" => Table(program, srq_init_ctx)
  BY <1>1, Tables
<1>11. {} \in SUBSET Objects(program) /\ (program.name = "ud" => {"ah"} \in SUBSET Objects(program))
  BY DEF Objects
<1>3. CASE main_fails(n)
  BY <1>3, MainFailsWorks
<1>4. CASE RcNext(n)
  <2>1. program.name = "rc"
    BY <1>4 DEF RcNext
  <2>2. CASE rc_prepare(n)
    BY <2>2, <1>10, <2>1, PrepareWorks DEF rc_prepare
  <2>3. CASE rc_init_fails(n)
    BY <2>3, <1>10, <2>1, InitFailsWorks DEF rc_init_fails
  <2>4. CASE rc_client_exch_dest(n)
    BY <2>4, CallWorks, ReadWorks DEF rc_client_exch_dest
  <2>5. CASE rc_server_exch_dest(n)
    BY <2>5, <1>11, <2>1, AcceptWorks, ServerReadyWorks DEF rc_server_exch_dest
  <2>6. CASE exchange_fails(n)
    BY <2>6, ExchangeFailsWorks
  <2>7. CASE rc_connect_ctx(n)
    BY <2>7, <1>11, <2>1, ClientConnectsWorks DEF rc_connect_ctx
  <2>8. CASE rc_first_send(n)
    BY <2>8, FirstSendWorks DEF rc_first_send
  <2>9. CASE rc_get_cq_event(n)
    BY <2>9, EventWorks DEF rc_get_cq_event
  <2>10. CASE rc_poll_cq(n)
    <3>1. 2 \in Nat /\ 2 >= 2 * Cardinality(program.qps[n]) /\ poll_cq(n, 2) /\ ~program.ts
      BY <1>2, <2>1, <2>10 DEF rc_poll_cq
    <3>2. QED  BY <3>1, PollWorks
  <2>11. CASE rc_start_poll(n)
    BY <2>1, <2>11, StartPollWorks
  <2>12. CASE rc_next_poll(n)
    BY <2>1, <2>12, NextPollWorks
  <2>13. CASE rc_parse_single_wc(n)
    <3> DEFINE next == IF program.ts /\ proc[n].turn = 0 THEN "next_poll" ELSE "loop"
    <3>1. parse_wc(n, 1, next)
      BY <2>13 DEF rc_parse_single_wc
    <3>2. QED  BY <1>2, <3>1, ParseWorks
  <2>14. CASE rc_close_ctx(n)
    BY <2>14, <2>1, CloseWorks DEF rc_close_ctx
  <2>15. QED
    BY <1>4, <2>2, <2>3, <2>4, <2>5, <2>6, <2>7, <2>8, <2>9, <2>10, <2>11, <2>12, <2>13, <2>14,
       Zenon DEF RcNext
<1>5. CASE UcNext(n)
  <2>1. program.name = "uc" /\ ~program.ts
    BY <1>1, <1>5 DEF UcNext
  <2>2. CASE uc_prepare(n)
    BY <2>2, <1>10, <2>1, PrepareWorks DEF uc_prepare
  <2>3. CASE uc_init_fails(n)
    BY <2>3, <1>10, <2>1, InitFailsWorks DEF uc_init_fails
  <2>4. CASE uc_client_exch_dest(n)
    BY <2>4, CallWorks, ReadWorks DEF uc_client_exch_dest
  <2>5. CASE uc_server_exch_dest(n)
    BY <2>5, <1>11, <2>1, AcceptWorks, ServerReadyWorks DEF uc_server_exch_dest
  <2>6. CASE exchange_fails(n)
    BY <2>6, ExchangeFailsWorks
  <2>7. CASE uc_connect_ctx(n)
    BY <2>7, <1>11, <2>1, ClientConnectsWorks DEF uc_connect_ctx
  <2>8. CASE uc_first_send(n)
    BY <2>8, FirstSendWorks DEF uc_first_send
  <2>9. CASE uc_get_cq_event(n)
    BY <2>9, EventWorks DEF uc_get_cq_event
  <2>10. CASE uc_poll_cq(n)
    <3>1. 2 \in Nat /\ 2 >= 2 * Cardinality(program.qps[n]) /\ poll_cq(n, 2)
      BY <1>2, <2>1, <2>10 DEF uc_poll_cq
    <3>2. QED  BY <2>1, <3>1, PollWorks
  <2>11. CASE uc_parse_wc(n)
    <3>1. parse_wc(n, 1, "loop")
          /\ "loop" = (IF program.ts /\ proc[n].turn = 0 THEN "next_poll" ELSE "loop")
      BY <2>1, <2>11 DEF uc_parse_wc
    <3>2. QED  BY <1>2, <3>1, ParseWorks
  <2>12. CASE uc_close_ctx(n)
    BY <2>12, <2>1, CloseWorks DEF uc_close_ctx
  <2>13. QED
    BY <1>5, <2>2, <2>3, <2>4, <2>5, <2>6, <2>7, <2>8, <2>9, <2>10, <2>11, <2>12, Zenon DEF UcNext
<1>6. CASE UdNext(n)
  <2>1. program.name = "ud" /\ ~program.ts
    BY <1>1, <1>6 DEF UdNext
  <2>2. CASE ud_prepare(n)
    BY <2>2, <1>10, <2>1, PrepareWorks DEF ud_prepare
  <2>3. CASE ud_init_fails(n)
    BY <2>3, <1>10, <2>1, InitFailsWorks DEF ud_init_fails
  <2>4. CASE ud_client_exch_dest(n)
    BY <2>4, CallWorks, ReadWorks DEF ud_client_exch_dest
  <2>5. CASE ud_server_exch_dest(n)
    BY <2>5, <1>11, <2>1, AcceptWorks, ServerReadyWorks DEF ud_server_exch_dest
  <2>6. CASE exchange_fails(n)
    BY <2>6, ExchangeFailsWorks
  <2>7. CASE ud_connect_ctx(n)
    BY <2>7, <1>11, <2>1, ClientConnectsWorks DEF ud_connect_ctx
  <2>8. CASE ud_first_send(n)
    BY <2>8, FirstSendWorks DEF ud_first_send
  <2>9. CASE ud_get_cq_event(n)
    BY <2>9, EventWorks DEF ud_get_cq_event
  <2>10. CASE ud_poll_cq(n)
    <3>1. 2 \in Nat /\ 2 >= 2 * Cardinality(program.qps[n]) /\ poll_cq(n, 2)
      BY <1>2, <2>1, <2>10 DEF ud_poll_cq
    <3>2. QED  BY <2>1, <3>1, PollWorks
  <2>11. CASE ud_parse_wc(n)
    <3>1. parse_wc(n, 1, "loop")
          /\ "loop" = (IF program.ts /\ proc[n].turn = 0 THEN "next_poll" ELSE "loop")
      BY <2>1, <2>11 DEF ud_parse_wc
    <3>2. QED  BY <1>2, <3>1, ParseWorks
  <2>12. CASE ud_close_ctx(n)
    BY <2>12, <2>1, CloseWorks DEF ud_close_ctx
  <2>13. QED
    BY <1>6, <2>2, <2>3, <2>4, <2>5, <2>6, <2>7, <2>8, <2>9, <2>10, <2>11, <2>12, Zenon DEF UdNext
<1>7. CASE SrqNext(n)
  <2>1. program.name = "srq" /\ ~program.ts
    BY <1>1, <1>7 DEF SrqNext
  <2>2. CASE srq_prepare(n)
    BY <2>2, <1>10, <2>1, PrepareWorks DEF srq_prepare
  <2>3. CASE srq_init_fails(n)
    BY <2>3, <1>10, <2>1, InitFailsWorks DEF srq_init_fails
  <2>4. CASE srq_client_exch_dest(n)
    BY <2>4, CallWorks, ReadWorks DEF srq_client_exch_dest
  <2>5. CASE srq_server_exch_dest(n)
    BY <2>5, <1>11, <2>1, AcceptWorks, ServerReadyWorks DEF srq_server_exch_dest
  <2>6. CASE srq_done_fails(n)
    BY <2>6, ExchangeFailsWorks DEF srq_done_fails
  <2>7. CASE srq_connect_ctx(n)
    BY <2>7, <1>11, <2>1, ClientConnectsWorks DEF srq_connect_ctx
  <2>8. CASE srq_first_send(n)
    BY <2>8, FirstSendWorks DEF srq_first_send
  <2>9. CASE srq_get_cq_event(n)
    BY <2>9, EventWorks DEF srq_get_cq_event
  <2>10. CASE srq_poll_cq(n)
    <3> DEFINE batch == program.rx_depth + Cardinality(qpsOf(n))
    <3>1. batch \in Nat /\ batch >= 2 * Cardinality(program.qps[n]) /\ poll_cq(n, batch)
      BY <1>2, <2>10 DEF srq_poll_cq
    <3> HIDE DEF batch
    <3>2. QED  BY <2>1, <3>1, PollWorks
  <2>11. CASE srq_parse_wc(n)
    <3>1. parse_wc(n, Cardinality(qpsOf(n)), "loop")
          /\ "loop" = (IF program.ts /\ proc[n].turn = 0 THEN "next_poll" ELSE "loop")
      BY <2>1, <2>11 DEF srq_parse_wc
    <3>2. QED  BY <1>2, <3>1, ParseWorks
  <2>12. CASE srq_close_ctx(n)
    BY <2>12, <2>1, CloseWorks DEF srq_close_ctx
  <2>13. QED
    BY <1>7, <2>2, <2>3, <2>4, <2>5, <2>6, <2>7, <2>8, <2>9, <2>10, <2>11, <2>12, Zenon DEF SrqNext
<1>8. ~XsrqNext(n) /\ ~IbProbeNext(n) /\ ~YmpiNext(n) /\ ~IballputallNext(n)
  BY <1>1 DEF PingPongs, XsrqNext, IbProbeNext, YmpiNext, IballputallNext
<1>9. QED  BY <1>3, <1>4, <1>5, <1>6, <1>7, <1>8

(* What one process counts, the other can go by.                                *)
LEMMA CountsKept ==
  ASSUME NEW P, NEW n, NEW p, NEW h, NEW p2, NEW h2, NEW o, NEW g,
         Typed(p, h), Typed(p2, h2), Typed(o, g), Goes(P, n, p, h, p2, h2),
         Accounted(p, h, o, g), Accounted(o, g, p, h)
  PROVE  SteadyInv(P, n, p2, h2) /\ Accounted(p2, h2, o, g) /\ Accounted(o, g, p2, h2)
<1> DEFINE a == p.rcnt + Arrived(p, h, 0)
           a2 == p2.rcnt + Arrived(p2, h2, 0)
           b == o.rcnt + Arrived(o, g, 0)
           s == Posted(p)
           s2 == Posted(p2)
           l == Len(h.wire[0])
           l2 == Len(h2.wire[0])
<1>1. /\ SteadyInv(P, n, p2, h2) /\ a2 = a /\ s2 + l = s + l2
      /\ a + Len(g.wire[0]) = Posted(o) /\ b + l = s
  BY DEF Goes, Accounted
<1>2. a \in Nat /\ a2 \in Nat /\ b \in Nat /\ s \in Nat /\ s2 \in Nat /\ l \in Nat /\ l2 \in Nat
  <2>1. /\ p.rcnt \in Nat /\ Arrived(p, h, 0) \in Nat /\ p2.rcnt \in Nat /\ Arrived(p2, h2, 0) \in Nat
        /\ o.rcnt \in Nat /\ Arrived(o, g, 0) \in Nat /\ s \in Nat /\ s2 \in Nat /\ l \in Nat /\ l2 \in Nat
    BY PostedType
  <2>2. QED  BY <2>1
<1> HIDE DEF a, a2, b, s, s2, l, l2
<1>3. a2 + Len(g.wire[0]) = Posted(o) /\ b + l2 = s2
  BY <1>1, <1>2
<1>4. QED  BY <1>1, <1>3 DEF a2, b, s2, l2, Accounted

LEMMA RunKept ==
  ASSUME Calm, NEW n \in Pair, GoesOn(n), Typed(proc'[n], hca'[n]), UNCHANGED <<program, dropped>>,
         \A m \in Node : m # n => proc'[m] = proc[m] /\ hca'[m] = hca[m]
  PROVE  RunInv'
<1> DEFINE k == 1 - n
<1>1. /\ (n = 0 /\ k = 1) \/ (n = 1 /\ k = 0)
      /\ k \in Pair /\ k \in Node /\ n \in Node /\ 1 - k = n
  BY NodeAssumption DEF Pair
<1>2. /\ Typed(proc[n], hca[n]) /\ Accounted(proc[n], hca[n], proc[k], hca[k]) /\ dropped = 0
  BY CalmFacts
<1>3. /\ Typed(proc[k], hca[k]) /\ Accounted(proc[k], hca[k], proc[n], hca[n])
      /\ SteadyInv(program, k, proc[k], hca[k])
  BY <1>1, CalmFacts
<1>4. proc'[k] = proc[k] /\ hca'[k] = hca[k]
  BY <1>1
<1> HIDE DEF k
<1>5. /\ SteadyInv(program, n, proc'[n], hca'[n])
      /\ Accounted(proc'[n], hca'[n], proc[k], hca[k]) /\ Accounted(proc[k], hca[k], proc'[n], hca'[n])
  BY <1>2, <1>3, CountsKept DEF GoesOn
<1>6. /\ \A m \in Pair : SteadyInv(program', m, proc'[m], hca'[m])
      /\ Accounted(proc'[0], hca'[0], proc'[1], hca'[1])
      /\ Accounted(proc'[1], hca'[1], proc'[0], hca'[0])
  BY <1>1, <1>3, <1>4, <1>5 DEF Pair
<1>7. QED  BY <1>2, <1>6 DEF RunInv, CountInv

(****************************************************************************)
(* The steps of the adapters.                                                *)
(****************************************************************************)
(* A completion at the end of a CQ.                                             *)
LEMMA EnteredCq ==
  ASSUME program.split = FALSE, NEW g \in HCA, NEW wc, NEW e, e = Entered(g, wc)
  PROVE  e.cq = Append(g.cq, wc) /\ e.wire = g.wire /\ e.rq = g.rq
<1> DEFINE c == Append(g.cq, wc)
           v == IF g.armed THEN g.events + 1 ELSE g.events
<1>1. e = [g EXCEPT !.cq = c, !.armed = FALSE, !.events = v]
  BY EnteredFields
<1> HIDE DEF c, v
<1>2. e.cq = c /\ e.wire = g.wire /\ e.rq = g.rq
  BY <1>1 DEF HCA
<1>3. QED  BY <1>2 DEF c

(* A send completes.                                                            *)
LEMMA CompleteGoes ==
  ASSUME Calm, NEW n \in Pair, NEW q \in QP, hca_complete(n, q), UNCHANGED <<program, proc>>
  PROVE  GoesOn(n) /\ \A m \in Node : m # n => proc'[m] = proc[m] /\ hca'[m] = hca[m]
<1> DEFINE p == proc[n]
           h == hca[n]
           wc == [op |-> "send", qp |-> q, ok |-> TRUE]
           a2 == [h.acks EXCEPT ![q] = h.acks[q] - 1]
           g == [h EXCEPT !.acks = a2]
           e == Entered(g, wc)
<1>1. /\ n \in Node /\ Typed(p, h) /\ h \in HCA /\ h.acks \in [QP -> Nat] /\ SteadyInv(program, n, p, h)
      /\ DOMAIN hca = Node /\ h.cq \in Seq(Completion) /\ program.split = FALSE
  <2>1. Typed(p, h) /\ Here(n) /\ SteadyInv(program, n, p, h) /\ program \in Programs
        /\ program.name \in PingPongs
    BY CalmFacts
  <2>2. QED  BY <2>1, HereFacts, Fields, PairProgram DEF Here, Typed
<1>2. h.acks[q] > 0 /\ hca' = [hca EXCEPT ![n] = e]
  <2>1. h.acks[q] > 0 /\ hca' = [hca EXCEPT ![n] = Entered([h EXCEPT !.acks[q] = h.acks[q] - 1], wc)]
    BY DEF hca_complete
  <2>2. [h EXCEPT !.acks[q] = h.acks[q] - 1] = g
    BY <1>1 DEF HCA
  <2> HIDE DEF wc, g, h
  <2>3. QED  BY <2>1, <2>2
<1>3. hca'[n] = e /\ \A m \in Node : m # n => hca'[m] = hca[m]
  <2> HIDE DEF e
  <2>1. QED  BY <1>1, <1>2
<1>4. g \in HCA /\ g.cq = h.cq /\ g.wire = h.wire
  <2>1. a2 \in [QP -> Nat]
    BY <1>1, <1>2
  <2> HIDE DEF a2
  <2>2. QED  BY <1>1, <2>1 DEF HCA
<1>5. wc \in Completion /\ wc.ok /\ wc \notin Of("recv", 0)
  BY DEF Completion, Of
<1> HIDE DEF wc, g, e, h, p
<1>6. e.cq = Append(h.cq, wc) /\ e.wire = h.wire
  <2>1. e = Entered(g, wc)
    BY DEF e
  <2>2. e.cq = Append(g.cq, wc) /\ e.wire = g.wire
    BY <1>1, <1>4, <2>1, EnteredCq
  <2>3. QED  BY <1>4, <2>2
<1>7. Arrived(p, e, 0) = Arrived(p, h, 0)
  <2>1. Tally(e.cq, Of("recv", 0)) = Tally(h.cq, Of("recv", 0)) + 0
    BY <1>1, <1>5, <1>6, TallyAppend
  <2>2. Tally(h.cq, Of("recv", 0)) \in Nat
    BY <1>1, TallyType
  <2>3. Tally(e.cq, Of("recv", 0)) = Tally(h.cq, Of("recv", 0))
    BY <2>1, <2>2
  <2>4. QED  BY <2>3, Zenon DEF Arrived
<1>8. \A i \in DOMAIN e.cq : e.cq[i].ok
  BY <1>1, <1>5, <1>6 DEF SteadyInv
<1>9. Goes(program, n, p, h, p, e)
  BY <1>1, <1>6, <1>7, <1>8, Zenon DEF Goes, SteadyInv
<1>10. proc'[n] = p /\ hca'[n] = e /\ \A m \in Node : proc'[m] = proc[m]
  BY <1>3 DEF p
<1>11. GoesOn(n)
  BY <1>9, <1>10 DEF GoesOn, p, h
<1>12. QED  BY <1>3, <1>10, <1>11

(* A message that is delivered is taken by its receiver, or an unreliable        *)
(* transport drops it.                                                          *)
LEMMA DeliverFields ==
  ASSUME PairInv, program.name \in PingPongs, NEW n \in Pair, NEW q \in QP, hca_deliver(n, q)
  PROVE  LET k == 1 - n
             wc == [op |-> "recv", qp |-> q, ok |-> TRUE]
         IN /\ hca[n].wire[q] # <<>> /\ q \in program.qps[n]
            /\ hca'[n].wire = [hca[n].wire EXCEPT ![q] = Tail(hca[n].wire[q])]
            /\ hca'[n].cq = hca[n].cq
            /\ \/ /\ hca'[k].cq = Append(hca[k].cq, wc) /\ hca'[k].wire = hca[k].wire
                  /\ dropped' = dropped
               \/ /\ ~reliable /\ (hca[k].qp[q] # "rts" \/ hca[k].rq = 0)
                  /\ dropped' = dropped + 1
<1> DEFINE P == program
           h == hca[n]
           k == 1 - n
           hk == hca[k]
           m == Head(h.wire[q])
           sent == Sent(n, q, m)
           w0 == [op |-> "recv", qp |-> m.qp, ok |-> TRUE]
           wc == [op |-> "recv", qp |-> q, ok |-> TRUE]
           h2 == Carried(P, h, q)
<1>1. k \in Pair /\ k # n /\ k \in Node /\ n \in Node
  BY NodeAssumption DEF Pair
<1>2. Here(n) /\ Here(k) /\ P.split = FALSE
  BY <1>1, PairHere, PairProgram DEF Here
<1>3. h \in HCA /\ hk \in HCA /\ h.wire \in [QP -> Seq(Message)]
  BY <1>2, HereFacts, Fields DEF Typed
<1>4. h.wire[q] # <<>>
  BY DEF hca_deliver
<1>5. q \in P.qps[n] /\ m.to = k /\ m.qp = q /\ m.via = k /\ m.viaQp = q /\ m.signaled
  <2>1. /\ q \in P.qps[n]
        /\ m = [to |-> 1 - n, qp |-> q, via |-> 1 - n, viaQp |-> q, signaled |-> TRUE]
    BY <1>2, <1>4, FirstMessage
  <2> HIDE DEF m
  <2>2. QED  BY <2>1
<1>6. sent[n] = h2 /\ DOMAIN sent = Node /\ sent[k] = hk
  <2> HIDE DEF m, sent
  <2>1. sent = Sent(n, q, m)
    BY DEF sent
  <2>2. QED  BY <1>1, <1>2, <1>5, <2>1, SentFields
<1>7. h2.wire = [h.wire EXCEPT ![q] = Tail(h.wire[q])] /\ h2.cq = h.cq
  BY <1>3 DEF Carried, HCA
<1>8. \/ /\ hca' = [sent EXCEPT ![m.to] = Entered([sent[m.to] EXCEPT !.rq = @ - 1], w0)]
         /\ dropped' = dropped
      \/ /\ ~reliable /\ (~ready(m) \/ hca[m.to].rq = 0)
         /\ hca' = sent /\ dropped' = dropped + 1
  BY Zenon DEF hca_deliver, Sent
<1>9. w0 = wc
  BY <1>5
<1>10. CASE /\ hca' = [sent EXCEPT ![m.to] = Entered([sent[m.to] EXCEPT !.rq = @ - 1], w0)]
            /\ dropped' = dropped
  <2> DEFINE g == [hk EXCEPT !.rq = hk.rq - 1]
             e == Entered(g, wc)
  <2>1. [sent[m.to] EXCEPT !.rq = @ - 1] = g
    <3> HIDE DEF sent, m
    <3>1. QED  BY <1>5, <1>6
  <2>2. g.cq = hk.cq /\ g.wire = hk.wire
    BY <1>3 DEF HCA
  <2> HIDE DEF sent, m, g, w0, wc, hk, h2, h
  <2>3. hca' = [sent EXCEPT ![k] = e]
    BY <1>5, <1>9, <1>10, <2>1
  <2>4. e = [g EXCEPT !.cq = Append(g.cq, wc), !.armed = FALSE,
                      !.events = IF g.armed THEN g.events + 1 ELSE g.events]
    BY <1>2, EnteredFields
  <2>5. e.cq = Append(g.cq, wc) /\ e.wire = g.wire
    <3> DEFINE c == Append(g.cq, wc)
               v == IF g.armed THEN g.events + 1 ELSE g.events
               r == hk.rq - 1
    <3> HIDE DEF c, v, r
    <3>1. g = [hk EXCEPT !.rq = r]
      BY DEF g, r
    <3>2. e = [g EXCEPT !.cq = c, !.armed = FALSE, !.events = v]
      BY <2>4 DEF c, v
    <3>3. e.cq = c /\ e.wire = g.wire
      BY <1>3, <3>1, <3>2 DEF HCA
    <3>4. QED  BY <3>3 DEF c
  <2> HIDE DEF e
  <2>6. hca'[k] = e /\ hca'[n] = h2
    BY <1>1, <1>6, <2>3
  <2>7. hca'[k].cq = Append(hk.cq, wc) /\ hca'[k].wire = hk.wire
    BY <2>2, <2>5, <2>6
  <2>8. QED  BY <1>4, <1>5, <1>7, <1>10, <2>6, <2>7 DEF hk, wc, h
<1>11. CASE /\ ~reliable /\ (~ready(m) \/ hca[m.to].rq = 0)
            /\ hca' = sent /\ dropped' = dropped + 1
  <2>1. hca[k].qp[q] # "rts" \/ hca[k].rq = 0
    BY <1>5, <1>11 DEF ready
  <2> HIDE DEF sent, m, h2
  <2>2. hca'[n] = h2
    BY <1>6, <1>11
  <2>3. QED  BY <1>4, <1>5, <1>7, <1>11, <2>1, <2>2
<1>12. QED  BY <1>8, <1>10, <1>11

(* The first message on the wire of one is a completion in the CQ of the other. *)
Delivered(h, g, h2, g2) ==
  /\ \E wc \in Completion : wc.ok /\ wc \in Of("recv", 0) /\ g2.cq = Append(g.cq, wc)
  /\ g2.wire = g.wire /\ h2.cq = h.cq /\ h.wire[0] # <<>> /\ h2.wire[0] = Tail(h.wire[0])

LEMMA DeliveredCounts ==
  ASSUME NEW P, NEW n, NEW k, NEW p, NEW h, NEW h2, NEW o, NEW g, NEW g2,
         Typed(p, h), Typed(o, g), SteadyInv(P, n, p, h), SteadyInv(P, k, o, g),
         Accounted(p, h, o, g), Accounted(o, g, p, h),
         Delivered(h, g, h2, g2)
  PROVE  /\ SteadyInv(P, n, p, h2) /\ SteadyInv(P, k, o, g2)
         /\ Accounted(p, h2, o, g2) /\ Accounted(o, g2, p, h2)
<1>1. h.wire[0] \in Seq(Message) /\ g.cq \in Seq(Completion)
  BY QPAssumption, Fields
<1>0. PICK wc \in Completion : wc.ok /\ wc \in Of("recv", 0) /\ g2.cq = Append(g.cq, wc)
  BY DEF Delivered
<1>9. g2.wire = g.wire /\ h2.cq = h.cq /\ h.wire[0] # <<>> /\ h2.wire[0] = Tail(h.wire[0])
  BY DEF Delivered
<1>2. SteadyInv(P, n, p, h2)
  BY <1>9, Zenon DEF SteadyInv
<1>3. \A i \in DOMAIN g2.cq : g2.cq[i].ok
  BY <1>0, <1>1 DEF SteadyInv
<1>4. SteadyInv(P, k, o, g2)
  BY <1>3, Zenon DEF SteadyInv
<1>5. Accounted(p, h2, o, g2)
  BY <1>9, Zenon DEF Accounted, Arrived
<1>6. Arrived(o, g2, 0) = Arrived(o, g, 0) + 1
  <2> DEFINE c == Tally(g.cq, Of("recv", 0))
             c2 == Tally(g2.cq, Of("recv", 0))
             t == Tally(o.todo, Of("recv", 0))
  <2>1. c2 = c + 1 /\ c \in Nat
    BY <1>0, <1>1, TallyAppend, TallyType
  <2>2. t \in Nat
    BY Fields, TallyType
  <2>3. Arrived(o, g2, 0) = c2 + t /\ Arrived(o, g, 0) = c + t
    BY DEF Arrived
  <2> HIDE DEF c, c2, t
  <2>4. QED  BY <2>1, <2>2, <2>3
<1>7. Accounted(o, g2, p, h2)
  <2> DEFINE a == Arrived(o, g, 0)
             a2 == Arrived(o, g2, 0)
             l == Len(h.wire[0])
             l2 == Len(h2.wire[0])
             r == o.rcnt
             s == Posted(p)
  <2>1. r + a + l = s /\ a2 = a + 1
    BY <1>6 DEF Accounted
  <2>2. l2 + 1 = l /\ l2 \in Nat
    BY <1>1, <1>9
  <2>3. a \in Nat /\ r \in Nat
    BY PostedType
  <2> HIDE DEF a, a2, l, l2, r, s
  <2>4. r + a2 + l2 = s
    BY <2>1, <2>2, <2>3
  <2>5. QED  BY <2>4 DEF a2, l2, r, s, Accounted
<1>8. QED  BY <1>2, <1>4, <1>5, <1>7

LEMMA DeliverRuns ==
  ASSUME Calm, NEW n \in Pair, NEW q \in QP, hca_deliver(n, q), UNCHANGED <<program, proc>>
  PROVE  RunInv'
<1> DEFINE k == 1 - n
           h == hca[n]
           g == hca[k]
           h2 == hca'[n]
           g2 == hca'[k]
           wc == [op |-> "recv", qp |-> q, ok |-> TRUE]
<1>1. /\ (n = 0 /\ k = 1) \/ (n = 1 /\ k = 0)
      /\ k \in Pair /\ 1 - k = n /\ PairInv /\ program.name \in PingPongs
  BY CalmFacts DEF Pair, Calm
<1>2. /\ h.wire[q] # <<>> /\ q \in program.qps[n]
      /\ h2.wire = [h.wire EXCEPT ![q] = Tail(h.wire[q])] /\ h2.cq = h.cq
      /\ \/ g2.cq = Append(g.cq, wc) /\ g2.wire = g.wire /\ dropped' = dropped
         \/ ~reliable /\ (g.qp[q] # "rts" \/ g.rq = 0) /\ dropped' = dropped + 1
  BY <1>1, DeliverFields
<1>3. /\ Typed(proc[n], h) /\ SteadyInv(program, n, proc[n], h)
      /\ Accounted(proc[n], h, proc[k], g) /\ program.qps[n] = {0} /\ dropped = 0
  BY CalmFacts
<1>4. /\ Typed(proc[k], g) /\ SteadyInv(program, k, proc[k], g) /\ Accounted(proc[k], g, proc[n], h)
  BY <1>1, CalmFacts
<1>5. q = 0 /\ h.wire \in [QP -> Seq(Message)]
  BY <1>2, <1>3, Fields
<1>6. Len(h.wire[0]) > 0
  BY <1>2, <1>5
<1>7. g.qp[0] = "rts" /\ g.rq > 0
  BY <1>6, PeerPrepared
<1>8. g2.cq = Append(g.cq, wc) /\ g2.wire = g.wire /\ dropped' = dropped
  BY <1>2, <1>5, <1>7
<1>9. h2.wire[0] = Tail(h.wire[0]) /\ h.wire[0] # <<>>
  BY <1>2, <1>5
<1>10. wc \in Completion /\ wc.ok /\ wc \in Of("recv", 0)
  BY <1>5 DEF Completion, Of
<1> DEFINE p == proc[n]
           o == proc[k]
           P == program
<1> HIDE DEF h, g, h2, g2, wc, p, o, P
<1>11. /\ SteadyInv(P, n, p, h2) /\ SteadyInv(P, k, o, g2)
       /\ Accounted(p, h2, o, g2) /\ Accounted(o, g2, p, h2)
  <2>1. /\ Typed(p, h) /\ Typed(o, g) /\ SteadyInv(P, n, p, h) /\ SteadyInv(P, k, o, g)
        /\ Accounted(p, h, o, g) /\ Accounted(o, g, p, h)
    BY <1>3, <1>4, Zenon DEF p, o, P
  <2>2. Delivered(h, g, h2, g2)
    BY <1>2, <1>8, <1>9, <1>10 DEF Delivered
  <2> HIDE DEF k
  <2>3. QED  BY <2>1, <2>2, DeliveredCounts
<1>12. /\ proc'[n] = p /\ proc'[k] = o /\ program' = P
  BY DEF p, o, P
<1> HIDE DEF k
<1>13. /\ \A j \in Pair : SteadyInv(program', j, proc'[j], hca'[j])
       /\ Accounted(proc'[0], hca'[0], proc'[1], hca'[1])
       /\ Accounted(proc'[1], hca'[1], proc'[0], hca'[0])
  BY <1>1, <1>11, <1>12 DEF Pair, h2, g2
<1>14. dropped' = 0
  BY <1>3, <1>8
<1>15. QED  BY <1>13, <1>14 DEF RunInv, CountInv

(* A message whose receiver is there is not given up.                           *)
LEMMA RetryFaults ==
  ASSUME Calm, NEW n \in Pair, NEW q \in QP, hca_retry_exceeded(n, q)
  PROVE  faults' = faults + 1
<1> DEFINE m == Head(hca[n].wire[q])
<1>1. /\ hca[n].wire[q] # <<>>
      /\ hca[m.via].qp[m.viaQp] = "none" \/ faults' = faults + 1
  BY Zenon DEF hca_retry_exceeded
<1>2. Here(n) /\ program.qps[n] = {0} /\ Typed(proc[n], hca[n])
  BY CalmFacts
<1>3. q \in program.qps[n]
      /\ m = [to |-> 1 - n, qp |-> q, via |-> 1 - n, viaQp |-> q, signaled |-> TRUE]
  BY <1>1, <1>2, FirstMessage
<1> HIDE DEF m
<1>4. m.via = 1 - n /\ m.viaQp = 0 /\ q = 0
  BY <1>2, <1>3
<1>5. Len(hca[n].wire[0]) > 0
  <2>1. hca[n].wire \in [QP -> Seq(Message)]
    BY <1>2, Fields
  <2>2. QED  BY <1>1, <1>4, <2>1, QPAssumption
<1>6. hca[1 - n].qp[0] = "rts"
  BY <1>5, PeerPrepared
<1>7. QED  BY <1>1, <1>4, <1>6

LEMMA AdapterSound ==
  ASSUME Known, hca_step, UNCHANGED <<program, proc>>
  PROVE  /\ faults' \in Nat /\ (faults' = 0 => faults = 0) /\ dropped' \in Nat
         /\ (Reliable(program) => dropped' = dropped) /\ UNCHANGED sock
         /\ Calm /\ faults' = 0 => RunInv'
<1>1. PairInv /\ program.name \in PingPongs /\ faults \in Nat /\ dropped \in Nat
  BY DEF Known, SteadyTypes
<1>2. PICK n \in Node, q \in QP :
        \/ hca_deliver(n, q) \/ hca_complete(n, q)
        \/ hca_retry_exceeded(n, q) \/ hca_lose(n, q)
  BY DEF hca_step
<1>3. n \in Pair
  <2>1. hca[n].wire[q] # <<>> \/ hca[n].acks[q] > 0
    BY <1>2, Zenon DEF hca_deliver, hca_complete, hca_retry_exceeded, hca_lose
  <2>2. QED  BY <1>1, <2>1, InPair, Zenon
<1>4. CASE hca_deliver(n, q)
  <2>1. UNCHANGED <<sock, faults>>
        /\ (dropped' = dropped \/ (~reliable /\ dropped' = dropped + 1))
    BY <1>4, Zenon DEF hca_deliver
  <2>2. Calm => RunInv'
    BY <1>3, <1>4, DeliverRuns
  <2>3. Reliable(program) => reliable
    BY DEF Reliable, reliable
  <2>4. QED  BY <1>1, <2>1, <2>2, <2>3
<1>5. CASE hca_complete(n, q)
  <2>1. UNCHANGED <<sock, faults, dropped>>
    BY <1>5 DEF hca_complete
  <2>2. ASSUME Calm PROVE RunInv'
    <3>1. GoesOn(n) /\ \A m \in Node : m # n => proc'[m] = proc[m] /\ hca'[m] = hca[m]
      BY <1>3, <1>5, <2>2, CompleteGoes
    <3>2. Typed(proc'[n], hca'[n])
      <4>1. Here(n)
        BY <1>1, <1>3, PairHere
      <4>2. Moved(n)
        BY <1>5, <4>1, CompleteStep
      <4>3. QED  BY <4>2 DEF Moved, LocalInv
    <3>3. QED  BY <1>3, <2>1, <2>2, <3>1, <3>2, RunKept
  <2>3. QED  BY <1>1, <2>1, <2>2
<1>6. CASE hca_retry_exceeded(n, q)
  <2>1. UNCHANGED <<sock, dropped>> /\ faults' \in {faults, faults + 1}
    BY <1>6, Zenon DEF hca_retry_exceeded
  <2>2. Calm => faults' = faults + 1
    BY <1>3, <1>6, RetryFaults
  <2>3. QED  BY <1>1, <2>1, <2>2
<1>7. CASE hca_lose(n, q)
  <2>1. UNCHANGED <<sock, dropped>> /\ faults' = faults + 1
    BY <1>7 DEF hca_lose
  <2>2. QED  BY <1>1, <2>1
<1>8. QED  BY <1>2, <1>4, <1>5, <1>6, <1>7

(****************************************************************************)
(* All steps, and the start.                                                 *)
(****************************************************************************)
Safe == SteadyTypes /\ (Reliable(program) => dropped = 0) /\ (Steady(program) => RunInv)

LEMMA ProcessSafe ==
  ASSUME Known, Safe, NEW n \in Pair, Moved(n), Works(n)
  PROVE  Safe'
<1>1. /\ program' = program /\ Typed(proc'[n], hca'[n])
      /\ \A m \in Node : m # n => proc'[m] = proc[m] /\ hca'[m] = hca[m]
  BY DEF Moved, LocalInv
<1>2. /\ faults' \in Nat /\ (faults' = 0 => faults = 0) /\ dropped' = dropped /\ SockInv'
      /\ proc'[n].made \subseteq Objects(program) /\ proc'[n].pp_cnt = proc[n].pp_cnt
      /\ Clean(program, proc'[n]) /\ Ahead(n)
  BY DEF Works, Sound
<1>3. /\ dropped \in Nat /\ MadeInv /\ SetupInv /\ (Reliable(program) => dropped = 0)
      /\ 0 \in Node /\ 1 \in Node /\ Pair \subseteq Node
  BY NodeAssumption DEF Safe, SteadyTypes, Pair
<1>4. MadeInv'
  <2>1. ASSUME NEW m \in Pair
        PROVE  /\ proc'[m].made \subseteq Objects(program) /\ proc'[m].pp_cnt = NoProcess.pp_cnt
               /\ Clean(program, proc'[m])
    <3>1. CASE m = n
      BY <1>2, <1>3, <3>1 DEF MadeInv
    <3>2. CASE m # n
      <4>1. proc'[m] = proc[m]
        BY <1>1, <1>3, <3>2
      <4>2. QED  BY <1>3, <4>1 DEF MadeInv
    <3>3. QED  BY <3>1, <3>2
  <2>2. ASSUME NEW m \in Node \ Pair PROVE proc'[m] = NoProcess
    BY <1>1, <1>3 DEF MadeInv
  <2>3. QED  BY <1>1, <2>1, <2>2 DEF MadeInv
<1>5. SetupInv'
  <2>1. CASE n = 0
    <3>1. proc'[1] = proc[1]
      BY <1>1, <1>3, <2>1
    <3>2. QED  BY <1>2, <1>3, <2>1, <3>1 DEF Ahead, SetupInv, Early, Past
  <2>2. CASE n = 1
    <3>1. proc'[0] = proc[0]
      BY <1>1, <1>3, <2>2
    <3>2. QED  BY <1>2, <1>3, <2>2, <3>1 DEF Ahead, SetupInv, Early, Past
  <2>3. QED  BY <2>1, <2>2 DEF Pair
<1>6. ASSUME Steady(program) PROVE RunInv'
  <2>1. CASE faults' = 0
    <3>1. Calm
      BY <1>2, <1>6, <2>1 DEF Calm, Known, Safe
    <3>2. GoesOn(n)
      BY <2>1, <3>1 DEF Works
    <3>3. QED  BY <1>1, <1>2, <3>1, <3>2, RunKept
  <2>2. CASE faults' # 0
    BY <2>2 DEF RunInv
  <2>3. QED  BY <2>1, <2>2
<1>7. SteadyTypes'
  BY <1>2, <1>3, <1>4, <1>5 DEF SteadyTypes
<1>8. QED  BY <1>1, <1>2, <1>3, <1>6, <1>7 DEF Safe

LEMMA AdapterSafe ==
  ASSUME Known, Safe, hca_step, UNCHANGED <<program, proc>>
  PROVE  Safe'
<1>1. /\ faults' \in Nat /\ (faults' = 0 => faults = 0) /\ dropped' \in Nat
      /\ (Reliable(program) => dropped' = dropped) /\ UNCHANGED sock
      /\ Calm /\ faults' = 0 => RunInv'
  BY AdapterSound
<1>2. SteadyTypes'
  <2>1. MadeInv' /\ SetupInv' /\ SockInv'
    BY <1>1 DEF Safe, SteadyTypes, MadeInv, SetupInv, SockInv
  <2>2. QED  BY <1>1, <2>1 DEF SteadyTypes
<1>3. ASSUME Steady(program) PROVE RunInv'
  <2>1. CASE faults' = 0
    <3>1. Calm
      BY <1>1, <1>3, <2>1 DEF Calm, Known, Safe
    <3>2. QED  BY <1>1, <2>1, <3>1
  <2>2. CASE faults' # 0
    BY <2>2 DEF RunInv
  <2>3. QED  BY <2>1, <2>2
<1>4. QED  BY <1>1, <1>2, <1>3 DEF Safe

LEMMA SafeStep ==
  ASSUME PairInv, program.name \in PingPongs, Safe, [Next]_vars
  PROVE  Safe'
<1>1. Known
  BY DEF Known, Safe
<1>2. CASE process_step
  <2>1. PICK n \in nodes :
          \/ RcNext(n) \/ UcNext(n) \/ UdNext(n) \/ SrqNext(n) \/ XsrqNext(n)
          \/ IbProbeNext(n) \/ YmpiNext(n) \/ IballputallNext(n) \/ main_fails(n)
    BY <1>2, Zenon DEF process_step
  <2>2. n \in Pair
    BY PairNodes
  <2>3. Moved(n)
    <3>1. Here(n)
      BY <2>2, PairHere
    <3>2. QED  BY <2>1, <3>1, ProcessStep
  <2>4. Works(n)
    BY <1>1, <2>1, <2>2, ProcessWorks
  <2>5. QED  BY <1>1, <2>2, <2>3, <2>4, ProcessSafe
<1>3. CASE hca_step /\ UNCHANGED <<program, proc>>
  BY <1>1, <1>3, AdapterSafe
<1>4. CASE UNCHANGED vars
  BY <1>4 DEF vars, Safe, SteadyTypes, SockInv, MadeInv, SetupInv, RunInv, CountInv
<1>5. QED  BY <1>2, <1>3, <1>4 DEF Next

LEMMA SafeInit ==
  ASSUME Init, program.name \in PingPongs
  PROVE  Safe
<1> DEFINE P == program
<1>1. /\ P \in Programs /\ hca = [n \in Node |-> NoHCA] /\ proc = [n \in Node |-> NoProcess]
      /\ sock = [e \in Node \X Node |-> <<>>] /\ dropped = 0 /\ faults = 0
  BY DEF Init, PingPongs
<1>2. \A n \in Node : proc[n] = NoProcess /\ hca[n] = NoHCA
  BY <1>1
<1>3. Pair \subseteq Node /\ 0 \in Node /\ 1 \in Node /\ 0 \in Pair /\ 1 \in Pair
  BY NodeAssumption DEF Pair
<1>4. SockInv
  <2>1. <<>> \in Seq(Written)
    OBVIOUS
  <2>2. QED  BY <1>1, <2>1 DEF SockInv
<1>5. MadeInv
  <2>1. NoProcess.made = {} /\ NoProcess.pc = "create"
    BY DEF NoProcess
  <2>2. QED  BY <1>2, <1>3, <2>1 DEF MadeInv, Clean
<1>6. SetupInv
  <2>1. NoProcess.pc = "create" /\ sock[<<0, 1>>] = <<>>
    BY <1>1, <1>3 DEF NoProcess
  <2>2. QED  BY <1>2, <1>3, <2>1 DEF SetupInv, LoopPc
<1>7. ASSUME Steady(P) PROVE RunInv
  <2> DEFINE p == NoProcess
             h == NoHCA
  <2>1. P.iters \in Nat \ {0}
    BY <1>1, PairProgram
  <2>2. /\ p.pc = "create" /\ p.todo = <<>> /\ p.scnt = 0 /\ p.rcnt = 0 /\ p.pending[0] = {}
        /\ h.cq = <<>> /\ h.wire[0] = <<>>
    BY QPAssumption DEF NoProcess, NoHCA
  <2> HIDE DEF p, h
  <2>3. Posted(p) = 0
    BY <2>2 DEF Posted, Sending
  <2>4. Arrived(p, h, 0) = 0
    <3>1. Tally(h.cq, Of("recv", 0)) = 0 /\ Tally(p.todo, Of("recv", 0)) = 0
      BY <2>2, TallyEmpty
    <3>2. QED  BY <3>1 DEF Arrived
  <2>5. \A n \in Pair : SteadyInv(P, n, p, h)
    <3>1. DOMAIN h.cq = {} /\ DOMAIN p.todo = {} /\ p.pc \notin Gone /\ p.pc \in Before
      BY <2>2 DEF Gone, Before
    <3>2. QED  BY <2>1, <2>3, <3>1 DEF SteadyInv
  <2>6. Accounted(p, h, p, h)
    BY <2>2, <2>3, <2>4 DEF Accounted
  <2>7. proc[0] = p /\ proc[1] = p /\ hca[0] = h /\ hca[1] = h
        /\ \A n \in Pair : proc[n] = p /\ hca[n] = h
    BY <1>2, <1>3 DEF p, h
  <2>8. QED  BY <1>1, <2>5, <2>6, <2>7 DEF RunInv, CountInv
<1>8. QED  BY <1>1, <1>4, <1>5, <1>6, <1>7 DEF Safe, SteadyTypes

(****************************************************************************)
(* The tables of processes and adapters stay functions.                      *)
(****************************************************************************)
Func(f) == f = [m \in DOMAIN f |-> f[m]]
Funcs == Func(proc) /\ Func(hca)

LEMMA PreparedFuncs ==
  ASSUME Funcs, NEW n, NEW table, NEW depth, prepared(n, table, depth) PROVE Funcs'
BY DEF Func, Funcs, prepared

LEMMA InitFailsFuncs ==
  ASSUME Funcs, NEW n, NEW table, init_fails(n, table) PROVE Funcs'
BY DEF Func, Funcs, init_fails

LEMMA ErrorFuncs ==
  ASSUME Funcs, NEW n, return_error(n) PROVE Funcs'
BY DEF Func, Funcs, return_error

LEMMA CallsFuncs ==
  ASSUME Funcs, NEW n, client_calls(n) PROVE Funcs'
BY ErrorFuncs DEF Func, Funcs, client_calls

LEMMA ReadsFuncs ==
  ASSUME Funcs, NEW n, client_reads(n) PROVE Funcs'
BY DEF Func, Funcs, client_reads

LEMMA AcceptsFuncs ==
  ASSUME Funcs, NEW n, NEW more, server_accepts(n, more) PROVE Funcs'
BY DEF Func, Funcs, server_accepts

LEMMA ReadyFuncs ==
  ASSUME Funcs, NEW n, server_ready(n) PROVE Funcs'
BY DEF Func, Funcs, server_ready

LEMMA ConnectsFuncs ==
  ASSUME Funcs, NEW n, NEW more, client_connects(n, more) PROVE Funcs'
BY DEF Func, Funcs, client_connects

LEMMA FirstSendFuncs ==
  ASSUME Funcs, NEW n, client_first_send(n) PROVE Funcs'
BY DEF Func, Funcs, client_first_send

LEMMA EventFuncs ==
  ASSUME Funcs, NEW n, get_cq_event(n) PROVE Funcs'
BY DEF Func, Funcs, get_cq_event

LEMMA PollFuncs ==
  ASSUME Funcs, NEW n, NEW batch, poll_cq(n, batch) PROVE Funcs'
BY DEF Func, Funcs, poll_cq

LEMMA StartPollFuncs ==
  ASSUME Funcs, NEW n, rc_start_poll(n) PROVE Funcs'
BY ErrorFuncs DEF Func, Funcs, rc_start_poll

LEMMA NextPollFuncs ==
  ASSUME Funcs, NEW n, rc_next_poll(n) PROVE Funcs'
BY DEF Func, Funcs, rc_next_poll

LEMMA ParseFuncs ==
  ASSUME Funcs, NEW n, NEW low, NEW next, parse_wc(n, low, next) PROVE Funcs'
BY ErrorFuncs DEF Func, Funcs, parse_wc

LEMMA ClosesFuncs ==
  ASSUME Funcs, NEW n, NEW objects, main_closes(n, objects) PROVE Funcs'
BY DEF Func, Funcs, main_closes, close_ctx

LEMMA AdapterFuncs ==
  ASSUME Funcs, hca_step, UNCHANGED <<program, proc>> PROVE Funcs'
<1>1. PICK n \in Node, q \in QP :
        \/ hca_deliver(n, q) \/ hca_complete(n, q)
        \/ hca_retry_exceeded(n, q) \/ hca_lose(n, q)
  BY DEF hca_step
<1>2. CASE hca_deliver(n, q)
  BY <1>2 DEF Func, Funcs, hca_deliver
<1>3. CASE hca_complete(n, q)
  BY <1>3 DEF Func, Funcs, hca_complete
<1>4. CASE hca_retry_exceeded(n, q)
  BY <1>4 DEF Func, Funcs, hca_retry_exceeded
<1>5. CASE hca_lose(n, q)
  BY <1>5 DEF Func, Funcs, hca_lose
<1>6. QED  BY <1>1, <1>2, <1>3, <1>4, <1>5

LEMMA RcFuncs ==
  ASSUME Funcs, NEW n, RcNext(n) PROVE Funcs'
<1>1. CASE rc_prepare(n)
  BY <1>1, PreparedFuncs DEF rc_prepare
<1>2. CASE rc_init_fails(n)
  BY <1>2, InitFailsFuncs DEF rc_init_fails
<1>3. CASE rc_client_exch_dest(n)
  BY <1>3, CallsFuncs, ReadsFuncs DEF rc_client_exch_dest
<1>4. CASE rc_server_exch_dest(n)
  BY <1>4, AcceptsFuncs, ReadyFuncs DEF rc_server_exch_dest
<1>5. CASE exchange_fails(n)
  BY <1>5, ErrorFuncs DEF exchange_fails
<1>6. CASE rc_connect_ctx(n)
  BY <1>6, ConnectsFuncs DEF rc_connect_ctx
<1>7. CASE rc_first_send(n)
  BY <1>7, FirstSendFuncs DEF rc_first_send
<1>8. CASE rc_get_cq_event(n)
  BY <1>8, EventFuncs DEF rc_get_cq_event
<1>9. CASE rc_poll_cq(n)
  BY <1>9, PollFuncs DEF rc_poll_cq
<1>10. CASE rc_start_poll(n)
  BY <1>10, StartPollFuncs
<1>11. CASE rc_next_poll(n)
  BY <1>11, NextPollFuncs
<1>12. CASE rc_parse_single_wc(n)
  BY <1>12, ParseFuncs DEF rc_parse_single_wc
<1>13. CASE rc_close_ctx(n)
  BY <1>13, ClosesFuncs DEF rc_close_ctx
<1>14. QED
  BY <1>1, <1>2, <1>3, <1>4, <1>5, <1>6, <1>7, <1>8, <1>9, <1>10, <1>11, <1>12, <1>13, Zenon DEF RcNext

LEMMA UcFuncs ==
  ASSUME Funcs, NEW n, UcNext(n) PROVE Funcs'
<1>1. CASE uc_prepare(n)
  BY <1>1, PreparedFuncs DEF uc_prepare
<1>2. CASE uc_init_fails(n)
  BY <1>2, InitFailsFuncs DEF uc_init_fails
<1>3. CASE uc_client_exch_dest(n)
  BY <1>3, CallsFuncs, ReadsFuncs DEF uc_client_exch_dest
<1>4. CASE uc_server_exch_dest(n)
  BY <1>4, AcceptsFuncs, ReadyFuncs DEF uc_server_exch_dest
<1>5. CASE exchange_fails(n)
  BY <1>5, ErrorFuncs DEF exchange_fails
<1>6. CASE uc_connect_ctx(n)
  BY <1>6, ConnectsFuncs DEF uc_connect_ctx
<1>7. CASE uc_first_send(n)
  BY <1>7, FirstSendFuncs DEF uc_first_send
<1>8. CASE uc_get_cq_event(n)
  BY <1>8, EventFuncs DEF uc_get_cq_event
<1>9. CASE uc_poll_cq(n)
  BY <1>9, PollFuncs DEF uc_poll_cq
<1>10. CASE uc_parse_wc(n)
  BY <1>10, ParseFuncs DEF uc_parse_wc
<1>11. CASE uc_close_ctx(n)
  BY <1>11, ClosesFuncs DEF uc_close_ctx
<1>12. QED
  BY <1>1, <1>2, <1>3, <1>4, <1>5, <1>6, <1>7, <1>8, <1>9, <1>10, <1>11, Zenon DEF UcNext

LEMMA UdFuncs ==
  ASSUME Funcs, NEW n, UdNext(n) PROVE Funcs'
<1>1. CASE ud_prepare(n)
  BY <1>1, PreparedFuncs DEF ud_prepare
<1>2. CASE ud_init_fails(n)
  BY <1>2, InitFailsFuncs DEF ud_init_fails
<1>3. CASE ud_client_exch_dest(n)
  BY <1>3, CallsFuncs, ReadsFuncs DEF ud_client_exch_dest
<1>4. CASE ud_server_exch_dest(n)
  BY <1>4, AcceptsFuncs, ReadyFuncs DEF ud_server_exch_dest
<1>5. CASE exchange_fails(n)
  BY <1>5, ErrorFuncs DEF exchange_fails
<1>6. CASE ud_connect_ctx(n)
  BY <1>6, ConnectsFuncs DEF ud_connect_ctx
<1>7. CASE ud_first_send(n)
  BY <1>7, FirstSendFuncs DEF ud_first_send
<1>8. CASE ud_get_cq_event(n)
  BY <1>8, EventFuncs DEF ud_get_cq_event
<1>9. CASE ud_poll_cq(n)
  BY <1>9, PollFuncs DEF ud_poll_cq
<1>10. CASE ud_parse_wc(n)
  BY <1>10, ParseFuncs DEF ud_parse_wc
<1>11. CASE ud_close_ctx(n)
  BY <1>11, ClosesFuncs DEF ud_close_ctx
<1>12. QED
  BY <1>1, <1>2, <1>3, <1>4, <1>5, <1>6, <1>7, <1>8, <1>9, <1>10, <1>11, Zenon DEF UdNext

LEMMA SrqFuncs ==
  ASSUME Funcs, NEW n, SrqNext(n) PROVE Funcs'
<1>1. CASE srq_prepare(n)
  BY <1>1, PreparedFuncs DEF srq_prepare
<1>2. CASE srq_init_fails(n)
  BY <1>2, InitFailsFuncs DEF srq_init_fails
<1>3. CASE srq_client_exch_dest(n)
  BY <1>3, CallsFuncs, ReadsFuncs DEF srq_client_exch_dest
<1>4. CASE srq_server_exch_dest(n)
  BY <1>4, AcceptsFuncs, ReadyFuncs DEF srq_server_exch_dest
<1>5. CASE srq_done_fails(n)
  BY <1>5, ErrorFuncs DEF srq_done_fails, exchange_fails
<1>6. CASE srq_connect_ctx(n)
  BY <1>6, ConnectsFuncs DEF srq_connect_ctx
<1>7. CASE srq_first_send(n)
  BY <1>7, FirstSendFuncs DEF srq_first_send
<1>8. CASE srq_get_cq_event(n)
  BY <1>8, EventFuncs DEF srq_get_cq_event
<1>9. CASE srq_poll_cq(n)
  BY <1>9, PollFuncs DEF srq_poll_cq
<1>10. CASE srq_parse_wc(n)
  BY <1>10, ParseFuncs DEF srq_parse_wc
<1>11. CASE srq_close_ctx(n)
  BY <1>11, ClosesFuncs DEF srq_close_ctx
<1>12. QED
  BY <1>1, <1>2, <1>3, <1>4, <1>5, <1>6, <1>7, <1>8, <1>9, <1>10, <1>11, Zenon DEF SrqNext

LEMMA FuncsStep ==
  ASSUME program.name \in PingPongs, Funcs, [Next]_vars
  PROVE  Funcs'
<1>1. CASE process_step
  <2>1. PICK n \in nodes :
          \/ RcNext(n) \/ UcNext(n) \/ UdNext(n) \/ SrqNext(n) \/ XsrqNext(n)
          \/ IbProbeNext(n) \/ YmpiNext(n) \/ IballputallNext(n) \/ main_fails(n)
    BY <1>1, Zenon DEF process_step
  <2>2. ~XsrqNext(n) /\ ~IbProbeNext(n) /\ ~YmpiNext(n) /\ ~IballputallNext(n)
    BY DEF PingPongs, XsrqNext, IbProbeNext, YmpiNext, IballputallNext
  <2>3. main_fails(n) => Funcs'
    BY ErrorFuncs DEF main_fails
  <2>4. QED  BY <2>1, <2>2, <2>3, RcFuncs, UcFuncs, UdFuncs, SrqFuncs, Zenon
<1>2. CASE hca_step /\ UNCHANGED <<program, proc>>
  BY <1>2, AdapterFuncs
<1>3. CASE UNCHANGED vars
  BY <1>3 DEF vars, Func, Funcs
<1>4. QED  BY <1>1, <1>2, <1>3 DEF Next

(****************************************************************************)
(* The theorems.                                                             *)
(****************************************************************************)
(* Whatever the order of messages, completions, events and failed calls, the    *)
(* counts of the two processes of rc, uc and ud agree until something goes      *)
(* wrong, and what the four programs make stays in the bounds of their tables.  *)
THEOREM SafeCorrect == Spec => [](program.name \in PingPongs => PairInv /\ Safe)
<1>1. Init => (program.name \in PingPongs => PairInv /\ Safe)
  BY PairInit, SafeInit
<1>2. (program.name \in PingPongs => PairInv /\ Safe) /\ [Next]_vars
        => (program.name \in PingPongs => PairInv /\ Safe)'
  <2> SUFFICES ASSUME program.name \in PingPongs => PairInv /\ Safe, [Next]_vars,
                      program'.name \in PingPongs
      PROVE  PairInv' /\ Safe'
    OBVIOUS
  <2>1. program' = program
    BY ProgramKept
  <2>2. QED  BY <2>1, PairStep, SafeStep
<1>3. QED  BY <1>1, <1>2, PTL DEF Spec

LEMMA SafeNothingDropped ==
  ASSUME program.name \in PingPongs, PairInv, Safe
  PROVE  NothingDropped
<1>1. CASE program.name \in {"rc", "srq"}
  <2>1. Reliable(program)
    BY <1>1, PairProgram DEF PairInv
  <2>2. QED  BY <2>1 DEF Safe, NothingDropped
<1>2. CASE program.name \in {"uc", "ud"}
  <2>1. ~program.ts
    BY <1>2, PairProgram DEF PairInv
  <2>2. RunInv
    BY <1>2, <2>1 DEF Steady, Safe
  <2>3. QED  BY <2>2 DEF RunInv, NothingDropped
<1>3. QED  BY <1>1, <1>2 DEF PingPongs

(* No ping-pong drops a message as long as the network and the calls do not     *)
(* fail: each side posts its receives before the other can send (uc_pingpong.c  *)
(* 271-283 and 797), and sends again only after it has received.                *)
THEOREM NothingDroppedCorrect == Spec => [](program.name \in PingPongs => NothingDropped)
<1>1. (program.name \in PingPongs => PairInv /\ Safe) => (program.name \in PingPongs => NothingDropped)
  BY SafeNothingDropped
<1>2. QED  BY <1>1, SafeCorrect, PTL

LEMMA SafeFailsOnlyOnFault ==
  ASSUME Steady(program), PairInv, Safe
  PROVE  FailsOnlyOnFault
<1>1. program.name \in PingPongs
  BY DEF Steady, PingPongs
<1> SUFFICES ASSUME NEW n \in nodes, proc[n].pc = "failed" PROVE faults > 0
  BY DEF FailsOnlyOnFault
<1>2. n \in Pair /\ faults \in Nat
  BY <1>1, PairNodes DEF Safe, SteadyTypes
<1>3. SteadyInv(program, n, proc[n], hca[n]) => proc[n].pc \notin {"failed"}
  BY DEF SteadyInv, Gone
<1>4. faults # 0
  BY <1>2, <1>3 DEF Safe, RunInv
<1>5. QED  BY <1>2, <1>4

(* Of rc, uc and ud: no order of completions, events and messages makes a       *)
(* process return an error, except for rc with events and timestamps.           *)
THEOREM FailsOnlyOnFaultCorrect == Spec => [](Steady(program) => FailsOnlyOnFault)
<1>1. (program.name \in PingPongs => PairInv /\ Safe) => (Steady(program) => FailsOnlyOnFault)
  BY SafeFailsOnlyOnFault DEF Steady, PingPongs
<1>2. QED  BY <1>1, SafeCorrect, PTL

LEMMA SafeNoOrphans ==
  ASSUME Steady(program), PairInv, Safe
  PROVE  NoOrphans
<1>1. program.name \in PingPongs
  BY DEF Steady, PingPongs
<1> SUFFICES ASSUME faults = 0, NEW n \in nodes, NEW q \in QP, NEW i \in DOMAIN hca[n].wire[q]
    PROVE  ~exited(hca[n].wire[q][i].via)
  BY DEF NoOrphans
<1>2. n \in Pair
  BY <1>1, PairNodes
<1>3. Calm
  BY DEF Calm, Safe
<1>4. program.qps[n] = {0} /\ Typed(proc[n], hca[n]) /\ QueueInv(program, n, proc[n], hca[n])
  BY <1>2, <1>3, CalmFacts
<1>5. q = 0 /\ hca[n].wire[q][i] = [to |-> 1 - n, qp |-> q, via |-> 1 - n, viaQp |-> q, signaled |-> TRUE]
  BY <1>4 DEF QueueInv
<1>6. hca[n].wire[q][i].via = 1 - n
  BY <1>5
<1>7. Len(hca[n].wire[0]) > 0
  <2>1. hca[n].wire[0] \in Seq(Message)
    BY <1>4, <1>5, Fields
  <2>2. QED  BY <1>5, <2>1
<1>8. proc[1 - n].pc \notin Gone
  BY <1>2, <1>3, <1>7, PeerStays
<1>9. QED  BY <1>6, <1>8 DEF exited, Gone

(* Of rc, uc and ud: a process closes its QP only when the other needs it no    *)
(* more, that is, when no message to it is left on the wire.                    *)
THEOREM NoOrphansCorrect == Spec => [](Steady(program) => NoOrphans)
<1>1. (program.name \in PingPongs => PairInv /\ Safe) => (Steady(program) => NoOrphans)
  BY SafeNoOrphans DEF Steady, PingPongs
<1>2. QED  BY <1>1, SafeCorrect, PTL

LEMMA SafeLeavesNothing ==
  ASSUME program.name \in PingPongs, PairInv, Safe
  PROVE  LeavesNothingElse /\ neverFreed = {}
<1>1. neverFreed = {}
  BY DEF neverFreed, PingPongs
<1>2. ASSUME NEW n \in nodes, proc[n].pc = "done" \/ (proc[n].pc = "no_ctx" /\ tidy)
      PROVE  proc[n].made = {}
  <2>1. Clean(program, proc[n])
    BY PairNodes DEF Safe, SteadyTypes, MadeInv
  <2>2. tidy <=> Tidy(program)
    BY DEF tidy, Tidy
  <2>3. QED  BY <1>2, <2>1, <2>2 DEF Clean
<1>3. QED  BY <1>1, <1>2 DEF LeavesNothingElse

(* A ping-pong that ends well leaves no object behind, and so does one whose    *)
(* set-up fails at any step: its cleanup labels release in an order no call of  *)
(* libibverbs refuses. (Not rc with timestamps, whose labels leak.) There is no *)
(* memory that it never frees.                                                  *)
THEOREM LeavesNothingCorrect ==
  Spec => [](program.name \in PingPongs => LeavesNothingElse /\ neverFreed = {})
<1>1. (program.name \in PingPongs => PairInv /\ Safe)
        => (program.name \in PingPongs => LeavesNothingElse /\ neverFreed = {})
  BY SafeLeavesNothing
<1>2. QED  BY <1>1, SafeCorrect, PTL

LEMMA FuncsInit ==
  ASSUME Init, program.name \in PingPongs
  PROVE  Funcs
<1>1. hca = [n \in Node |-> NoHCA] /\ proc = [n \in Node |-> NoProcess]
  BY DEF Init, PingPongs
<1>2. QED  BY <1>1 DEF Func, Funcs

LEMMA SafeTypeOK ==
  ASSUME program.name \in PingPongs, PairInv, Safe, Funcs
  PROVE  TypeOK
<1>1. /\ DOMAIN proc = Node /\ DOMAIN hca = Node /\ MadeInv /\ SockInv
      /\ faults \in Nat /\ dropped \in Nat
  BY DEF PairInv, Safe, SteadyTypes
<1>2. ASSUME NEW n \in Node PROVE hca[n] \in HCA /\ proc[n] \in Process
  <2>1. CASE n \in Pair
    <3> DEFINE p == proc[n]
    <3>1. Typed(p, hca[n]) /\ PlaceInv(program, n, p)
      BY <2>1 DEF PairInv, LocalInv
    <3>2. p.made \in SUBSET Object
      <4>1. Objects(program) \subseteq Object
        BY DEF Objects, Object, Qps
      <4>2. QED  BY <1>1, <2>1, <4>1 DEF MadeInv
    <3>3. p.pp_cnt \in [QP -> Nat]
      <4>1. NoProcess.pp_cnt \in [QP -> Nat]
        BY DEF NoProcess
      <4>2. QED  BY <1>1, <2>1, <4>1 DEF MadeInv
    <3>4. p.pc \in {"create", "exchange", "read_addr", "connect", "read_done",
                    "first", "loop", "poll", "parse", "next_poll", "await", "drain",
                    "barrier", "end", "read_end", "done", "failed", "no_ctx"}
      BY <3>1 DEF PlaceInv, Before, LoopPc, Gone
    <3> HIDE DEF p
    <3>5. p \in Process /\ hca[n] \in HCA
      BY <3>1, <3>2, <3>3, <3>4 DEF Typed, Process
    <3>6. QED  BY <3>5 DEF p
  <2>2. CASE n \notin Pair
    <3>1. proc[n] = NoProcess /\ hca[n] = NoHCA
      BY <1>1, <2>2 DEF MadeInv, PairInv
    <3>2. <<>> \in Seq(Completion) /\ <<>> \in Seq(Message)
      OBVIOUS
    <3>3. NoHCA \in HCA
      BY <3>2 DEF NoHCA, HCA
    <3>4. NoProcess \in Process
      <4>1. [q \in QP |-> {}] \in [QP -> SUBSET Op] /\ [q \in QP |-> 0] \in [QP -> Nat]
        OBVIOUS
      <4>2. {} \in SUBSET Object
        OBVIOUS
      <4>3. QED  BY <3>2, <4>1, <4>2 DEF NoProcess, Process
    <3>5. QED  BY <3>1, <3>3, <3>4
  <2>3. QED  BY <2>1, <2>2
<1>3. hca \in [Node -> HCA] /\ proc \in [Node -> Process]
  <2>1. hca = [n \in Node |-> hca[n]] /\ proc = [n \in Node |-> proc[n]]
    BY <1>1 DEF Func, Funcs
  <2>2. QED  BY <1>2, <2>1
<1>4. sock \in [Node \X Node -> Seq({"addr", "done", "END"})]
  BY <1>1 DEF SockInv, Written
<1>5. DOMAIN sock = Node \X Node /\ \A e \in DOMAIN sock : sock[e] \in Seq({"addr", "done", "END"})
  BY <1>4
<1>6. QED  BY <1>1, <1>3, <1>5 DEF TypeOK

(* In the four programs every queue, counter, object and connection keeps its   *)
(* type, for any number of nodes, QPs, receives, iterations and faults.         *)
THEOREM TypeOKCorrect == Spec => [](program.name \in PingPongs => TypeOK)
<1>1. Init => (program.name \in PingPongs => Funcs)
  BY FuncsInit
<1>2. (program.name \in PingPongs => Funcs) /\ [Next]_vars => (program.name \in PingPongs => Funcs)'
  <2> SUFFICES ASSUME program.name \in PingPongs => Funcs, [Next]_vars, program'.name \in PingPongs
      PROVE  Funcs'
    OBVIOUS
  <2>1. program' = program
    BY ProgramKept
  <2>2. QED  BY <2>1, FuncsStep
<1>3. /\ (program.name \in PingPongs => Funcs)
      /\ (program.name \in PingPongs => PairInv /\ Safe)
      => (program.name \in PingPongs => TypeOK)
  BY SafeTypeOK
<1>4. QED  BY <1>1, <1>2, <1>3, SafeCorrect, PTL DEF Spec
=============================================================================
