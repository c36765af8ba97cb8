------------------------------ MODULE BoundedFifo ------------------------------
(***************************************************************************)
(* What a queue declared with DECLARE_LINKED_LIST (include/linkedlist.h)   *)
(* promises its caller: a FIFO queue of at most Capacity elements.  An     *)
(* enqueue into a full queue ends the program; a dequeue from an empty one *)
(* is reported by the zero value, or by status -1 with the caller's cell   *)
(* left alone.                                                             *)
(***************************************************************************)
EXTENDS Integers, Sequences

CONSTANTS
  Value,     \* the elements (vbuf ids in the library)
  Zero,      \* ZERO_VALUE of the declaration
  Capacity   \* pool_size given to _init

VARIABLES
  queue,     \* the elements, oldest first
  ret,       \* what the last _dequeue returned
  status,    \* what the last _dequeue_inplace returned
  cell,      \* the caller's variable _dequeue_inplace writes to
  alive      \* FALSE once exit(1) has been called

vars == <<queue, ret, status, cell, alive>>

Init == /\ queue = <<>>
        /\ ret = Zero
        /\ status = 0
        /\ cell = Zero
        /\ alive = TRUE

Enqueue(v) == /\ alive
              /\ Len(queue) < Capacity
              /\ queue' = Append(queue, v)
              /\ UNCHANGED <<ret, status, cell, alive>>

Overflow == /\ alive
            /\ Len(queue) = Capacity
            /\ alive' = FALSE
            /\ UNCHANGED <<queue, ret, status, cell>>

Dequeue == /\ alive
           /\ IF queue = <<>> THEN ret' = Zero /\ queue' = queue
                              ELSE ret' = Head(queue) /\ queue' = Tail(queue)
           /\ UNCHANGED <<status, cell, alive>>

DequeueInplace ==
  /\ alive
  /\ IF queue = <<>> THEN status' = -1 /\ UNCHANGED <<queue, cell>>
                     ELSE status' = 0 /\ cell' = Head(queue) /\ queue' = Tail(queue)
  /\ UNCHANGED <<ret, alive>>

Clear == /\ alive
         /\ queue' = <<>>
         /\ UNCHANGED <<ret, status, cell, alive>>

Next == \/ \E v \in Value : Enqueue(v)
        \/ Overflow
        \/ Dequeue
        \/ DequeueInplace
        \/ Clear

Spec == Init /\ [][Next]_vars
================================================================================
