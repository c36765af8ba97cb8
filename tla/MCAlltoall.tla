---------------------------- MODULE MCAlltoall ----------------------------
(* Alltoall for TLC: the benchmark with one size, with sizes that double up to  *)
(* the buffer, and with calls that change buffers.                              *)
EXTENDS Alltoall

Ptr == [s \in 1 .. Bytes |-> Write_ptr(s)]
Handle == [s \in 1 .. Bytes |-> Write(s)]

MCPrograms ==
  {osu(Ptr, <<1>>, 2), osu(Handle, <<2>>, 2), osu(Handle, <<1, 2>>, 1),
   osu(Ptr, <<1, 2, 4>>, 1), osu(Ptr, <<2, 1>>, 1),
   <<Write_ptr(1), Barrier, Write(1)>>, <<Write(1), Barrier, Write_ptr_other(1)>>,
   <<Write_ptr(1), Barrier, Write_ptr_other(1)>>}
=============================================================================
