------------------------------ MODULE Alltoall ------------------------------
(* The write-based collectives of src/ympi.c, YMPI_Alltoall_write and           *)
(* YMPI_Alltoall_write_ptr, and the programs that call them: every rank writes  *)
(* a block into the receive buffer of every other. What the first call learns   *)
(* is kept and used by all later ones. YMPI_Write and YMPI_Zflush, of which     *)
(* module Ympi has the details, are here a write in flight and the wait for all *)
(* writes of the rank.                                                          *)
EXTENDS Naturals, SequencesExt

CONSTANTS NumProcs,  \* ranks of MPI_COMM_WORLD, on which all calls are made
          Bytes,     \* size of each buffer (bufsize)
          Programs   \* programs to choose from: calls, the same on all ranks

ASSUME NumProcsAssumption == NumProcs \in Nat /\ NumProcs >= 2
ASSUME BytesAssumption == Bytes \in Nat

(* An operation of a program: a collective, MPI_Barrier, or a look at what was  *)
(* received.                                                                    *)
Operation ==
  [call : {"alltoall"}, size : Nat, buffer : {"user", "other", "handle"}]
    \cup [call : {"MPI_Barrier"}] \cup [call : {"check"}, size : Nat]

(* The buffers have room for a block of every rank (bufsize is the largest size *)
(* times numprocs), and a barrier comes before every collective: as in          *)
(* osu_ympi_rdma_alltoall.c 78, 111 and 124.                                    *)
ASSUME ProgramsAssumption == \A p \in Programs :
  /\ p \in Seq(Operation)
  /\ \A i \in DOMAIN p : p[i].call = "alltoall" =>
       /\ p[i].size * NumProcs <= Bytes
       /\ i = 1 \/ p[i - 1].call = "MPI_Barrier"

Rank == 0 .. NumProcs - 1

VARIABLES program,
          proc,      \* each process
          cache,     \* the static variables of ympi.c
          net,       \* net[r][d]: writes of r to d that are not done, their sizes
          mem,       \* the receive buffer of each rank, byte by byte
          aborted    \* a process called abort, and MPI ended the others

vars == <<program, proc, cache, net, mem, aborted>>

(* A byte holds the rank that wrote it and which call it was written in.        *)
Byte == [from : Rank, call : Nat]
Unset == [from |-> 0, call |-> 0]

Proc == [pc : {"call", "gather", "write", "flush", "barrier", "aborted"},
         ip : Nat,          \* next call of the program
         dst : Rank,
         syncs : Nat,       \* MPI collectives entered
         contents : Nat]    \* what the send buffer holds: the call it was filled for

Buffer == {"none", "user", "handle", "other"}
Cache == [first_call : BOOLEAN, last : Buffer, bytes : Nat]  \* bytes: of _last_send, _last_recv

Init ==
  /\ program \in Programs
  /\ proc = [r \in Rank |-> [pc |-> "call", ip |-> 1, dst |-> r, syncs |-> 0, contents |-> 0]]
  /\ cache = [r \in Rank |-> [first_call |-> TRUE, last |-> "none", bytes |-> 0]]
  /\ net = [r \in Rank |-> [d \in Rank |-> <<>>]]
  /\ mem = [r \in Rank |-> [b \in 0 .. Bytes - 1 |-> Unset]]
  /\ aborted = FALSE

(****************************************************************************)
(* Programs.                                                                 *)
(****************************************************************************)
(* A call with the buffers that belong to it: those of the user, which the      *)
(* collective registers, or registered ones (handles).                          *)
Write_ptr(size) == [call |-> "alltoall", size |-> size, buffer |-> "user"]
Write_ptr_other(size) == [call |-> "alltoall", size |-> size, buffer |-> "other"]
Write(size) == [call |-> "alltoall", size |-> size, buffer |-> "handle"]
Barrier == [call |-> "MPI_Barrier"]
Check(size) == [call |-> "check", size |-> size]

(* osu_ympi_rdma_alltoall.c: for each size a barrier, the iterations with a     *)
(* barrier after each, another barrier and a look at what was received.         *)
osu(call, sizes, iterations) ==
  LET round(size) == <<Barrier>>
                       \o FlattenSeq([i \in 1 .. iterations |-> <<call[size], Barrier>>])
                       \o <<Barrier, Check(size)>>
  IN FlattenSeq([i \in DOMAIN sizes |-> round(sizes[i])])

running(r) == ~aborted /\ proc[r].ip <= Len(program)
op(r) == program[proc[r].ip]
at(r, pc) == running(r) /\ proc[r].pc = pc

(* Mutant: a rank waits for the others to be ahead.                             *)
synced_others(r) == \A p \in Rank \ {r} : proc[p].syncs > proc[r].syncs

(* Every rank has entered as many collectives as r.                             *)
synced(r) == \A p \in Rank : proc[p].syncs >= proc[r].syncs

(* Mutant: the last rank's successor is none.                                   *)
next_rank_unwrapped(d) == d + 1
next_rank(d) == (d + 1) % NumProcs

abort(r) ==
  /\ aborted' = TRUE
  /\ proc' = [proc EXCEPT ![r].pc = "aborted"]

(****************************************************************************)
(* The collective.                                                           *)
(****************************************************************************)
(* Mutant: room for one block.                                                  *)
registered_own_block(o) == IF o.buffer = "handle" THEN Bytes ELSE o.size

(* The bytes registered: YMPI_Allocate was called for what the buffer needs,    *)
(* YMPID_Register with the number of processes counted twice.                   *)
registered(o) == IF o.buffer = "handle" THEN Bytes ELSE o.size * NumProcs * NumProcs

(* The program fills its send buffer and calls.                                 *)
first_call(r) ==
  /\ at(r, "call") /\ op(r).call = "alltoall" /\ cache[r].first_call
  /\ cache' = [cache EXCEPT ![r] = [first_call |-> FALSE, last |-> op(r).buffer,
                                    bytes |-> registered(op(r))]]
  /\ proc' = [proc EXCEPT ![r].pc = "gather", ![r].syncs = @ + 1, ![r].contents = proc[r].ip]
  /\ UNCHANGED <<program, net, mem, aborted>>

(* The three MPI_Allgather.                                                     *)
gather(r) ==
  /\ at(r, "gather") /\ synced(r)
  /\ proc' = [proc EXCEPT ![r].pc = "write", ![r].dst = next_rank(r)]
  /\ UNCHANGED <<program, cache, net, mem, aborted>>

later_call(r) ==
  /\ at(r, "call") /\ op(r).call = "alltoall" /\ ~cache[r].first_call
  /\ IF cache[r].last = op(r).buffer
     THEN /\ proc' = [proc EXCEPT ![r].pc = "write", ![r].dst = next_rank(r),
                                  ![r].contents = proc[r].ip]
          /\ UNCHANGED aborted
     ELSE abort(r)
  /\ UNCHANGED <<program, cache, net, mem>>

(* YMPI_Write asserts that what it sends is registered.                         *)
write(r) ==
  /\ at(r, "write") /\ proc[r].dst # r
  /\ LET d == proc[r].dst
     IN IF (d + 1) * op(r).size > cache[r].bytes
        THEN abort(r) /\ UNCHANGED net
        ELSE /\ net' = [net EXCEPT ![r][d] = Append(@, op(r).size)]
             /\ proc' = [proc EXCEPT ![r].dst = next_rank(d)]
             /\ UNCHANGED aborted
  /\ UNCHANGED <<program, cache, mem>>

Stored(r, s, size) ==
  [b \in DOMAIN mem[r] |-> IF b \in s * size .. (s + 1) * size - 1
                           THEN [from |-> s, call |-> proc[s].contents] ELSE mem[r][b]]

copy_own(r) ==
  /\ at(r, "write") /\ proc[r].dst = r
  /\ mem' = [mem EXCEPT ![r] = Stored(r, r, op(r).size)]
  /\ proc' = [proc EXCEPT ![r].pc = "flush"]
  /\ UNCHANGED <<program, cache, net, aborted>>

(* Mutant: the barrier is entered with writes in flight.                        *)
flush_none(r) ==
  /\ at(r, "flush")
  /\ proc' = [proc EXCEPT ![r].pc = "barrier", ![r].syncs = @ + 1]
  /\ UNCHANGED <<program, cache, net, mem, aborted>>

(* YMPI_Zflush, and the barrier is entered.                                     *)
flush(r) ==
  /\ at(r, "flush") /\ \A d \in Rank : net[r][d] = <<>>
  /\ proc' = [proc EXCEPT ![r].pc = "barrier", ![r].syncs = @ + 1]
  /\ UNCHANGED <<program, cache, net, mem, aborted>>

return(r) ==
  /\ at(r, "barrier") /\ op(r).call = "alltoall" /\ synced(r)
  /\ proc' = [proc EXCEPT ![r].pc = "call", ![r].ip = @ + 1]
  /\ UNCHANGED <<program, cache, net, mem, aborted>>

(****************************************************************************)
(* The rest of a program, and the HCAs.                                      *)
(****************************************************************************)
enter_barrier(r) ==
  /\ at(r, "call") /\ op(r).call = "MPI_Barrier"
  /\ proc' = [proc EXCEPT ![r].pc = "barrier", ![r].syncs = @ + 1]
  /\ UNCHANGED <<program, cache, net, mem, aborted>>

leave_barrier(r) ==
  /\ at(r, "barrier") /\ op(r).call = "MPI_Barrier" /\ synced(r)
  /\ proc' = [proc EXCEPT ![r].pc = "call", ![r].ip = @ + 1]
  /\ UNCHANGED <<program, cache, net, mem, aborted>>

check(r) ==
  /\ at(r, "call") /\ op(r).call = "check"
  /\ proc' = [proc EXCEPT ![r].ip = @ + 1]
  /\ UNCHANGED <<program, cache, net, mem, aborted>>

(* A write is carried out; one outside what the target registered comes back as *)
(* an error, on which the writer exits.                                         *)
hca_write(r, d) ==
  /\ ~aborted /\ net[r][d] # <<>>
  /\ LET size == Head(net[r][d])
     IN IF (r + 1) * size > cache[d].bytes
        THEN abort(r) /\ UNCHANGED mem
        ELSE mem' = [mem EXCEPT ![d] = Stored(d, r, size)] /\ UNCHANGED <<proc, aborted>>
  /\ net' = [net EXCEPT ![r][d] = Tail(@)]
  /\ UNCHANGED <<program, cache>>

Next == \E r \in Rank :
  \/ first_call(r) \/ gather(r) \/ later_call(r) \/ write(r) \/ copy_own(r) \/ flush(r)
  \/ return(r) \/ enter_barrier(r) \/ leave_barrier(r) \/ check(r)
  \/ \E d \in Rank : hca_write(r, d)

Spec == Init /\ [][Next]_vars /\ WF_vars(Next)

(****************************************************************************)
(* Properties.                                                               *)
(****************************************************************************)
(* Processes, statics, writes and memory have their types.                      *)
TypeOK ==
  /\ proc \in [Rank -> Proc]
  /\ cache \in [Rank -> Cache]
  /\ net \in [Rank -> [Rank -> Seq(Nat)]]
  /\ mem \in [Rank -> [0 .. Bytes - 1 -> Byte]]
  /\ aborted \in BOOLEAN

(* When a rank looks at its receive buffer for the result of call k, its last:  *)
(* just after the call, or later in a check.                                    *)
reads(r, k) ==
  /\ proc[r].pc = "call" /\ k \in 1 .. proc[r].ip - 1 /\ program[k].call = "alltoall"
  /\ \A j \in k + 1 .. proc[r].ip - 1 : program[j].call # "alltoall"
  /\ k = proc[r].ip - 1 \/ (running(r) /\ op(r).call = "check")

(* What a rank reads is the result of its last call: the block of every rank,   *)
(* as that rank's send buffer was for this call. No write of the call is missing *)
(* (each rank flushes before the barrier), and none of the next has come (a     *)
(* rank that is ahead is held by the program's own barrier; ympi.c 1201-1202,   *)
(* osu_ympi_rdma_alltoall.c 124).                                               *)
ResultStable == \A r \in Rank : \A k \in DOMAIN program : reads(r, k) =>
  LET size == program[k].size
  IN \A s \in Rank : \A b \in s * size .. (s + 1) * size - 1 :
       mem[r][b] = [from |-> s, call |-> k]

(* The collectives abort only if a program does not keep to the caution in      *)
(* ympi.c 1239-1243, that buffers and sizes stay the same. The benchmark, which *)
(* doubles the size, does not: it ends when the size exceeds the ranks.         *)
calls == {program[i] : i \in {j \in DOMAIN program : program[j].call = "alltoall"}}

AbortsOnlyOnMisuse == aborted => \E c, d \in calls : c # d

(* Every program comes to its end or is aborted: all ranks make the exchange of *)
(* addresses in the same call, and no barrier is left waiting.                  *)
Termination == <>(aborted \/ \A r \in Rank : ~running(r))
=============================================================================
