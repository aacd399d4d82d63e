------------------------------ MODULE ByteQueue ------------------------------
(***************************************************************************)
(* What src/inc/tiny_nmea/internal/ringbuf.h promises of a ring buffer: a  *)
(* bounded first-in first-out queue of bytes.  The k-th byte put into the  *)
(* queue is the number k, so an element says where in the stream it was.   *)
(***************************************************************************)
EXTENDS Naturals, Sequences

CONSTANTS Capacity,     \* the most bytes the queue holds
          MaxBytes      \* bound: the bytes a behaviour puts into the queue

VARIABLES q,        \* the bytes in the queue, oldest first
          sent,     \* how many bytes have been put
          got       \* what the last pop or peek returned

vars == <<q, sent, got>>

Init == q = <<>> /\ sent = 0 /\ got = <<>>

(* The next n bytes of the stream. *)
Fresh(n) == [j \in 1..n |-> sent + j]

(* RINGBUF_PUSH_DROP and RINGBUF_PUSH_ATOMIC: the bytes written fit. *)
Put(n) == /\ Len(q) + n <= Capacity
          /\ sent + n <= MaxBytes
          /\ q' = q \o Fresh(n)
          /\ sent' = sent + n
          /\ UNCHANGED got

(* RINGBUF_PUSH_WRAP: the oldest bytes make room, the newest Capacity stay. *)
Overwrite(n) == LET all == q \o Fresh(n)
                IN /\ Len(all) > Capacity
                   /\ sent + n <= MaxBytes
                   /\ q' = SubSeq(all, Len(all) - Capacity + 1, Len(all))
                   /\ sent' = sent + n
                   /\ UNCHANGED got

(* Remove the n oldest bytes; Take also returns them. *)
Discard(n) == /\ n <= Len(q)
              /\ q' = SubSeq(q, n + 1, Len(q))
              /\ got' = <<>>
              /\ UNCHANGED sent

Take(n) == /\ n <= Len(q)
           /\ q' = SubSeq(q, n + 1, Len(q))
           /\ got' = SubSeq(q, 1, n)
           /\ UNCHANGED sent

(* Return n bytes, the first of them offset bytes behind the oldest. *)
Look(offset, n) == /\ offset + n <= Len(q)
                   /\ got' = SubSeq(q, offset + 1, offset + n)
                   /\ UNCHANGED <<q, sent>>

Clear == q' = <<>> /\ UNCHANGED <<sent, got>>

Next == \/ Clear
        \/ \E n \in 0..MaxBytes : \/ Put(n)
                                  \/ Overwrite(n)
                                  \/ Discard(n)
                                  \/ Take(n)
                                  \/ \E offset \in 0..MaxBytes : Look(offset, n)

Spec == Init /\ [][Next]_vars
=============================================================================
