----------------------------- MODULE BoundedFifo -----------------------------
(***************************************************************************)
(* What a buffer between writers and readers promises: bytes come out in   *)
(* the order they went in, each once, and no more than Capacity lie inside.*)
(***************************************************************************)
EXTENDS Integers, Sequences

CONSTANTS Bytes, Capacity, NoByte

VARIABLES
  queue,          \* the bytes inside, oldest first
  out             \* the byte that came out last

Init == queue = <<>> /\ out = NoByte

Put(b) == /\ Len(queue) < Capacity
          /\ queue' = Append(queue, b)
          /\ UNCHANGED out

Get == /\ queue # <<>>
       /\ out' = Head(queue)
       /\ queue' = Tail(queue)

Next == Get \/ \E b \in Bytes : Put(b)

Spec == Init /\ [][Next]_<<queue, out>>
=============================================================================
