---------------------------- MODULE BoundedFifo ----------------------------
(***************************************************************************)
(* What a single-producer/single-consumer ring promises its users: a FIFO  *)
(* queue that holds at most Cap items.  `out` is the sequence of items the *)
(* consumer has taken, in the order it took them.                          *)
(***************************************************************************)
EXTENDS Naturals, Sequences

CONSTANTS Cap, Items

VARIABLES queue, out

Init == queue = <<>> /\ out = <<>>

Put(x) == /\ Len(queue) < Cap
          /\ queue' = Append(queue, x)
          /\ UNCHANGED out

Get == /\ queue # <<>>
       /\ queue' = Tail(queue)
       /\ out' = Append(out, Head(queue))

Next == (\E x \in Items : Put(x)) \/ Get

Spec == Init /\ [][Next]_<<queue, out>>
=============================================================================
