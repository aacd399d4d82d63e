------------------------------- MODULE RingBuf -------------------------------
(***************************************************************************)
(* The single-producer single-consumer ring buffer of src/src/ringbuf.c.   *)
(*                                                                         *)
(* One thread calls ringbuf_push, another ringbuf_pop, ringbuf_discard and *)
(* ringbuf_peek, with no lock.  Each call is split where the other thread  *)
(* can interleave with it: the loads of the two indices, each memcpy, and  *)
(* the release store that publishes the call.  A thread's own index is     *)
(* exact; an acquire load of the other thread's index returns any value    *)
(* stored since the one this thread saw last (C11 coherence), so tailSeen  *)
(* and headSeen hold the values such a load may still return.              *)
(*                                                                         *)
(* A byte is the number of its place in the stream of bytes written, which *)
(* is all that the order and the loss of bytes depend on.                  *)
(***************************************************************************)
EXTENDS Integers, Sequences

CONSTANTS Size,         \* rb->size
          Lens,         \* the lengths callers ask for
          Offsets,      \* the offsets given to ringbuf_peek
          MaxBytes      \* bound: bytes written in a behaviour

ASSUME RingAssumption == /\ Size \in Nat \ {0}
                         /\ Lens \subseteq Nat
                         /\ Offsets \subseteq Nat
                         /\ MaxBytes \in Nat

VARIABLES head, tail,   \* the two indices
          buf,          \* the storage; 0 is a slot never written
          tailSeen,     \* values the producer's load of tail may return
          headSeen,     \* values the consumer's load of head may return
          ppc, plen,    \* producer: where it is in ringbuf_push, and len
          cpc, cop,     \* consumer: where it is, and in which call
          cfrom, clen,  \* consumer: first slot to read, and len
          coff,         \* consumer: the offset of a peek, 0 for a pop
          dst,          \* the caller's buffer the consumer copies into
          got,          \* what the last pop or peek returned
          pushed,       \* how many bytes were ever written
          popped        \* how many bytes were ever removed

producer == <<ppc, plen>>
consumer == <<cpc, cop, cfrom, clen, coff, dst>>
vars == <<head, tail, buf, tailSeen, headSeen, producer, consumer, got,
          pushed, popped>>

Slots == 0..Size-1

(* RINGBUF_COMPUTE_LENGTH and RINGBUF_COMPUTE_FREE_SPACE. *)
ComputeLength(hd, tl) == IF hd >= tl THEN hd - tl ELSE Size - tl + hd
FreeSpaceWithoutGap(hd, tl) == Size - ComputeLength(hd, tl)  \* a mistake
ComputeFreeSpace(hd, tl) == Size - ComputeLength(hd, tl) - 1

(* An index advanced by n slots: (index + n) % size. *)
AdvanceWithoutWrap(index, n) == index + n                    \* a mistake
Advance(index, n) == (index + n) % Size

AtMost(n, limit) == IF n > limit THEN limit ELSE n

Init == /\ head = 0 /\ tail = 0
        /\ buf = [i \in Slots |-> 0]
        /\ tailSeen = {0} /\ headSeen = {0}
        /\ ppc = "idle" /\ plen = 0
        /\ cpc = "idle" /\ cop = "pop"
        /\ cfrom = 0 /\ clen = 0 /\ coff = 0
        /\ dst = <<>> /\ got = <<>>
        /\ pushed = 0 /\ popped = 0
-----------------------------------------------------------------------------
(* The producer: ringbuf_push with RINGBUF_PUSH_DROP or _ATOMIC. *)

(* A mistake: RINGBUF_PUSH_DROP does not shorten the write. *)
AcceptedInFull(mode, len, free) ==
  IF len > free /\ mode = "atomic" THEN 0 ELSE len

(* The part of a push of len bytes that is written, when free are free. *)
Accepted(mode, len, free) ==
  IF len > free THEN (IF mode = "atomic" THEN 0 ELSE free) ELSE len

(* Load the indices, decide how much to write; len = 0 returns at once. *)
PushLoad(len, mode) ==
  /\ ppc = "idle"
  /\ \E tl \in tailSeen :
       LET n == Accepted(mode, len, ComputeFreeSpace(head, tl)) IN
       /\ pushed + n <= MaxBytes
       /\ tailSeen' = {u \in tailSeen : ComputeLength(head, u)
                                          <= ComputeLength(head, tl)}
       /\ plen' = n
       /\ ppc' = IF n = 0 THEN "idle" ELSE "copy"
  /\ UNCHANGED <<head, tail, buf, headSeen, consumer, got, pushed, popped>>

(* The slots of the chunk before the end of the storage, and after it. *)
ToEnd(from, len) == {i \in Slots : from <= i /\ i < from + len}
Wrapped(from, len) == {i \in Slots : i < from + len - Size}

(* The first memcpy: the only one when the bytes fit before the end. *)
PushCopy ==
  /\ ppc = "copy"
  /\ buf' = [i \in Slots |-> IF i \in ToEnd(head, plen)
                             THEN pushed + 1 + (i - head) ELSE buf[i]]
  /\ ppc' = IF Size - head >= plen THEN "publish" ELSE "wrap"
  /\ UNCHANGED <<head, tail, tailSeen, headSeen, plen, consumer, got,
                 pushed, popped>>

(* A mistake: the second memcpy takes the data from its beginning. *)
PushCopyWrappedAgain ==
  /\ ppc = "wrap"
  /\ buf' = [i \in Slots |-> IF i \in Wrapped(head, plen)
                             THEN pushed + 1 + i ELSE buf[i]]
  /\ ppc' = "publish"
  /\ UNCHANGED <<head, tail, tailSeen, headSeen, plen, consumer, got,
                 pushed, popped>>

(* The second memcpy, at the start of the storage. *)
PushCopyWrapped ==
  /\ ppc = "wrap"
  /\ buf' = [i \in Slots |-> IF i \in Wrapped(head, plen)
                             THEN pushed + 1 + (Size - head) + i ELSE buf[i]]
  /\ ppc' = "publish"
  /\ UNCHANGED <<head, tail, tailSeen, headSeen, plen, consumer, got,
                 pushed, popped>>

(* The release store of head: the consumer may see it from now on. *)
PushPublish ==
  /\ ppc = "publish"
  /\ head' = Advance(head, plen)
  /\ headSeen' = headSeen \cup {head'}
  /\ pushed' = pushed + plen
  /\ ppc' = "idle" /\ plen' = 0
  /\ UNCHANGED <<tail, buf, tailSeen, consumer, got, popped>>
-----------------------------------------------------------------------------
(* The consumer: ringbuf_pop, ringbuf_discard, ringbuf_peek and _peek_byte. *)

(* Coherence: after a load of hd the consumer sees no older head. *)
HeadLoaded(hd) ==
  headSeen' = {u \in headSeen : ComputeLength(u, tail)
                                  >= ComputeLength(hd, tail)}

(* A call that finds nothing to return, or is asked for nothing. *)
ReturnNothing == /\ got' = <<>>
                 /\ UNCHANGED consumer

(* ringbuf_pop of len bytes; op "discard" is the call without a buffer. *)
PopLoad(len, op) ==
  /\ cpc = "idle"
  /\ \E hd \in headSeen :
       LET n == AtMost(len, ComputeLength(hd, tail)) IN
       /\ HeadLoaded(hd)
       /\ IF n = 0
          THEN ReturnNothing
          ELSE /\ cpc' = IF op = "pop" THEN "copy" ELSE "publish"
               /\ cop' = op
               /\ cfrom' = tail /\ clen' = n /\ coff' = 0
               /\ dst' = <<>>
               /\ UNCHANGED got
  /\ UNCHANGED <<head, tail, buf, tailSeen, producer, pushed, popped>>

(* ringbuf_peek; ringbuf_peek_byte is the peek of one byte. *)
PeekLoad(len, offset) ==
  /\ cpc = "idle"
  /\ \E hd \in headSeen :
       LET avail == ComputeLength(hd, tail)
           n == IF offset >= avail THEN 0 ELSE AtMost(len, avail - offset) IN
       /\ HeadLoaded(hd)
       /\ IF n = 0
          THEN ReturnNothing
          ELSE /\ cpc' = "copy" /\ cop' = "peek"
               /\ cfrom' = Advance(tail, offset) /\ clen' = n /\ coff' = offset
               /\ dst' = <<>>
               /\ UNCHANGED got
  /\ UNCHANGED <<head, tail, buf, tailSeen, producer, pushed, popped>>

(* The first memcpy out; 0 stands for a byte of dst not written yet. *)
ReadCopy ==
  /\ cpc = "copy"
  /\ dst' = [j \in 1..clen |-> IF j <= Size - cfrom THEN buf[cfrom + j - 1]
                                                    ELSE 0]
  /\ cpc' = IF Size - cfrom >= clen THEN "publish" ELSE "wrap"
  /\ UNCHANGED <<head, tail, buf, tailSeen, headSeen, producer, cop, cfrom,
                 clen, coff, got, pushed, popped>>

(* A mistake: the second memcpy out starts where the first one stopped. *)
ReadCopyWrappedOn ==
  /\ cpc = "wrap"
  /\ dst' = [j \in 1..clen |-> IF j <= Size - cfrom THEN dst[j] ELSE buf[j - 1]]
  /\ cpc' = "publish"
  /\ UNCHANGED <<head, tail, buf, tailSeen, headSeen, producer, cop, cfrom,
                 clen, coff, got, pushed, popped>>

(* The second memcpy out, from the start of the storage. *)
ReadCopyWrapped ==
  /\ cpc = "wrap"
  /\ dst' = [j \in 1..clen |-> IF j <= Size - cfrom THEN dst[j]
                               ELSE buf[j - 1 - (Size - cfrom)]]
  /\ cpc' = "publish"
  /\ UNCHANGED <<head, tail, buf, tailSeen, headSeen, producer, cop, cfrom,
                 clen, coff, got, pushed, popped>>

ConsumerReturns(result) ==
  /\ got' = result
  /\ cpc' = "idle" /\ cop' = "pop"
  /\ cfrom' = 0 /\ clen' = 0 /\ coff' = 0 /\ dst' = <<>>

(* The release store of tail, then the return of a pop or a discard. *)
PopPublish ==
  /\ cpc = "publish" /\ cop # "peek"
  /\ tail' = Advance(tail, clen)
  /\ tailSeen' = tailSeen \cup {tail'}
  /\ popped' = popped + clen
  /\ ConsumerReturns(dst)
  /\ UNCHANGED <<head, buf, headSeen, producer, pushed>>

PeekReturn ==
  /\ cpc = "publish" /\ cop = "peek"
  /\ ConsumerReturns(dst)
  /\ UNCHANGED <<head, tail, buf, tailSeen, headSeen, producer, pushed, popped>>
-----------------------------------------------------------------------------
(* Calls documented as NOT safe under concurrency.  The caller excludes the *)
(* other thread with a lock, which makes the indices exact on both sides.   *)

Exclusive == ppc = "idle" /\ cpc = "idle"

Synchronised == tailSeen' = {tail'} /\ headSeen' = {head'}

(* A mistake: the second chunk repeats the data of the first. *)
WrittenTwice(from, len, byte) ==
  [i \in Slots |-> IF i \in ToEnd(from, len) THEN byte + (i - from)
                   ELSE IF i \in Wrapped(from, len) THEN byte + i
                   ELSE buf[i]]

(* The storage after both memcpys of len bytes, of which the first is byte. *)
Written(from, len, byte) ==
  [i \in Slots |-> IF i \in ToEnd(from, len) THEN byte + (i - from)
                   ELSE IF i \in Wrapped(from, len) THEN byte + (Size - from) + i
                   ELSE buf[i]]

Clear ==
  /\ Exclusive
  /\ head' = tail
  /\ popped' = pushed
  /\ UNCHANGED <<tail, buf, producer, consumer, got, pushed>>
  /\ Synchronised

(* ringbuf_push with RINGBUF_PUSH_WRAP of more bytes than are free: restart *)
(* with the last Size - 1 bytes, or discard the oldest ones.                *)
PushWrap(len) ==
  LET free  == ComputeFreeSpace(head, tail)
      reset == len >= Size
      skip  == IF reset THEN len - (Size - 1) ELSE 0
      n     == len - skip
      from  == IF reset THEN 0 ELSE head IN
  /\ Exclusive
  /\ len > free
  /\ pushed + len <= MaxBytes
  /\ tail' = IF reset THEN 0 ELSE Advance(tail, len - free)
  /\ buf' = Written(from, n, pushed + skip + 1)
  /\ head' = Advance(from, n)
  /\ pushed' = pushed + len
  /\ popped' = IF reset THEN pushed + skip ELSE popped + (len - free)
  /\ Synchronised
  /\ UNCHANGED <<producer, consumer, got>>
-----------------------------------------------------------------------------
Producer == \/ \E len \in Lens, mode \in {"drop", "atomic"} : PushLoad(len, mode)
            \/ PushCopy \/ PushCopyWrapped \/ PushPublish

Consumer == \/ \E len \in Lens, op \in {"pop", "discard"} : PopLoad(len, op)
            \/ \E len \in Lens, offset \in Offsets : PeekLoad(len, offset)
            \/ ReadCopy \/ ReadCopyWrapped \/ PopPublish \/ PeekReturn

Alone == Clear \/ \E len \in Lens : PushWrap(len)

Next == Producer \/ Consumer \/ Alone

Spec == Init /\ [][Next]_vars
-----------------------------------------------------------------------------
(* Properties. *)

(* The values of the variables, and an index always in the storage. *)
TypeOK ==
  /\ head \in Slots /\ tail \in Slots
  /\ buf \in [Slots -> 0..MaxBytes]
  /\ tailSeen \subseteq Slots /\ headSeen \subseteq Slots
  /\ ppc \in {"idle", "copy", "wrap", "publish"}
  /\ plen \in 0..Size-1
  /\ cpc \in {"idle", "copy", "wrap", "publish"}
  /\ cop \in {"pop", "discard", "peek"}
  /\ cfrom \in Slots /\ clen \in 0..Size-1 /\ coff \in 0..Size-1
  /\ dst \in Seq(0..MaxBytes)
  /\ got \in Seq(1..MaxBytes)
  /\ pushed \in 0..MaxBytes /\ popped \in 0..MaxBytes

(* The slots the producer is about to write, and the consumer to read. *)
Writing == {i \in Slots : \/ ppc = "copy" /\ i \in ToEnd(head, plen)
                          \/ ppc = "wrap" /\ i \in Wrapped(head, plen)}
Reading == {i \in Slots : \/ cpc = "copy" /\ i \in ToEnd(cfrom, clen)
                          \/ cpc = "wrap" /\ i \in Wrapped(cfrom, clen)}

(* ringbuf.c has no lock: the memcpy of one thread never touches a slot the *)
(* memcpy of the other may be touching, whatever stale index each loaded.   *)
NoSlotRace == Writing \cap Reading = {}

(* The room a push decided on from a stale tail is still there, and the     *)
(* bytes a pop or a peek decided on from a stale head are there: an old     *)
(* index only ever makes a thread do less than it could.                    *)
StaleIndicesAreSafe ==
  /\ ComputeLength(head, tail) + plen <= Size - 1
  /\ coff + clen <= ComputeLength(head, tail)
  /\ \A tl \in tailSeen : ComputeFreeSpace(head, tl) <= ComputeFreeSpace(head, tail)
  /\ \A hd \in headSeen : ComputeLength(hd, tail) <= ComputeLength(head, tail)

(* When a pop or a peek is about to return, the caller's buffer holds the   *)
(* bytes of the stream next to the last one removed, in order: nothing read *)
(* before it was written, overwritten while it was read, or read twice.     *)
ReadsNextBytes ==
  cpc = "publish" /\ cop # "discard" =>
    dst = [j \in 1..clen |-> popped + coff + j]

(* The bytes in the buffer, oldest first, as the slots between the indices. *)
SlotAfter(index, n) == IF index + n < Size THEN index + n ELSE index + n - Size
Queue == [k \in 1..ComputeLength(head, tail) |-> buf[SlotAfter(tail, k - 1)]]

(* Every call takes effect on a bounded FIFO queue of Size - 1 bytes, at its *)
(* publishing store or its return, in any interleaving of the two threads.   *)
Abstract == INSTANCE ByteQueue WITH Capacity <- Size - 1, q <- Queue,
                                    sent <- pushed, got <- got
ImplementsByteQueue == Abstract!Spec
-----------------------------------------------------------------------------
(* The inductive invariant: what holds between any two steps of the threads *)
(* and makes the properties above hold after the next one.                  *)

(* The distance between the indices counts the bytes in the buffer. *)
CountsAgree == /\ pushed - popped = ComputeLength(head, tail)
               /\ pushed + plen <= MaxBytes

(* What each thread can still load leaves room for what it is doing. *)
SeenIndices ==
  /\ tail \in tailSeen /\ head \in headSeen
  /\ \A tl \in tailSeen :
       /\ ComputeLength(head, tail) <= ComputeLength(head, tl)
       /\ ComputeLength(head, tl) + plen <= Size - 1
  /\ \A hd \in headSeen :
       /\ coff + clen <= ComputeLength(hd, tail)
       /\ ComputeLength(hd, tail) <= ComputeLength(head, tail)

(* The locals of a thread, at each point of its call. *)
ProducerLocals == /\ ppc = "idle" <=> plen = 0
                  /\ ppc = "wrap" => Size - head < plen
ConsumerLocals == /\ cpc = "idle" <=> clen = 0
                  /\ cpc = "idle" => coff = 0
                  /\ cop # "peek" => coff = 0
                  /\ cop = "discard" => cpc \in {"idle", "publish"} /\ dst = <<>>
                  /\ cpc # "idle" => cfrom = SlotAfter(tail, coff)
                  /\ cpc = "wrap" => Size - cfrom < clen

(* The slots from tail to head hold the bytes from popped + 1 to pushed. *)
QueueInOrder ==
  \A i \in Slots : ComputeLength(i, tail) < ComputeLength(head, tail)
                     => buf[i] = popped + 1 + ComputeLength(i, tail)

(* The slots a push has copied so far hold the bytes after pushed. *)
CopiedIn ==
  \A i \in Slots :
    ComputeLength(i, head) < plen
      /\ (ppc = "publish" \/ (ppc = "wrap" /\ i >= head))
        => buf[i] = pushed + 1 + ComputeLength(i, head)

(* The part of dst a read has copied so far holds the bytes after popped. *)
CopiedOut ==
  /\ ReadsNextBytes
  /\ cpc = "wrap" => dst = [j \in 1..clen |-> IF j <= Size - cfrom
                                              THEN popped + coff + j ELSE 0]

IInv == /\ TypeOK /\ CountsAgree /\ SeenIndices
        /\ ProducerLocals /\ ConsumerLocals
        /\ QueueInOrder /\ CopiedIn /\ CopiedOut
=============================================================================
