--------------------------- MODULE RingBuf_proofs ---------------------------
(***************************************************************************)
(* Proofs about RingBuf, for every size of the storage, every length and   *)
(* offset a caller may ask for and every number of bytes.                  *)
(***************************************************************************)
EXTENDS RingBuf, TLAPS

(* The only arithmetic the provers need help with: an index moved by less *)
(* than a whole turn wraps at most once.                                   *)
LEMMA AdvanceWraps ==
  ASSUME NEW index \in Slots, NEW n \in 0..Size
  PROVE  /\ Advance(index, n) = SlotAfter(index, n)
         /\ Advance(index, n) \in Slots
<1>. DEFINE a == index + n
<1>1. Size \in Nat \ {0} /\ a \in Nat /\ a < 2 * Size
  BY RingAssumption DEF Slots
<1>2. a % Size = IF a < Size THEN a ELSE a - Size
  <2>. HIDE DEF a
  <2>. QED BY <1>1, Z3
<1>. QED BY <1>1, <1>2 DEF Advance, SlotAfter, Slots

LEMMA LengthInRange ==
  ASSUME NEW hd \in Slots, NEW tl \in Slots
  PROVE  ComputeLength(hd, tl) \in 0..Size-1
BY RingAssumption DEF Slots, ComputeLength

-----------------------------------------------------------------------------
LEMMA InitInvariant == Init => IInv
<1>. SUFFICES ASSUME Init PROVE IInv
  OBVIOUS
<1>. USE RingAssumption DEF Init
<1>1. TypeOK
  BY DEF TypeOK, Slots
<1>2. CountsAgree /\ SeenIndices
  BY DEF CountsAgree, SeenIndices, ComputeLength
<1>3. ProducerLocals /\ ConsumerLocals
  BY DEF ProducerLocals, ConsumerLocals
<1>4. QueueInOrder /\ CopiedIn /\ CopiedOut
  BY DEF QueueInOrder, CopiedIn, CopiedOut, ReadsNextBytes, ComputeLength, Slots
<1>. QED BY <1>1, <1>2, <1>3, <1>4 DEF IInv

LEMMA PushLoadInvariant ==
  ASSUME IInv, NEW len \in Lens, NEW mode \in {"drop", "atomic"},
         PushLoad(len, mode)
  PROVE  IInv'
<1>. USE RingAssumption
<1>1. PICK tl \in tailSeen :
        LET n == Accepted(mode, len, ComputeFreeSpace(head, tl)) IN
        /\ pushed + n <= MaxBytes
        /\ tailSeen' = {u \in tailSeen : ComputeLength(head, u)
                                          <= ComputeLength(head, tl)}
        /\ plen' = n
        /\ ppc' = IF n = 0 THEN "idle" ELSE "copy"
  BY DEF PushLoad
<1>2. /\ ppc = "idle" /\ plen = 0
      /\ UNCHANGED <<head, tail, buf, headSeen, consumer, got, pushed, popped>>
  BY DEF PushLoad, IInv, ProducerLocals
<1>3. /\ tl \in Slots /\ head \in Slots
      /\ len \in Nat
      /\ ComputeLength(head, tl) \in 0..Size-1
  BY LengthInRange DEF IInv, TypeOK
<1>4. plen' \in 0..Size-1 /\ ComputeLength(head, tl) + plen' <= Size - 1
  BY <1>1, <1>3 DEF Accepted, ComputeFreeSpace
<1>5. TypeOK'
  BY <1>1, <1>2, <1>4 DEF IInv, TypeOK, consumer, Slots
<1>6. CountsAgree'
  BY <1>1, <1>2 DEF IInv, CountsAgree, ComputeLength
<1>7. SeenIndices'
  <2>1. \A u \in tailSeen : ComputeLength(head, u) \in 0..Size-1
    BY LengthInRange DEF IInv, TypeOK
  <2>. QED BY <1>1, <1>2, <1>3, <1>4, <2>1
           DEF IInv, SeenIndices, consumer, ComputeLength
<1>8. ProducerLocals' /\ ConsumerLocals'
  BY <1>1, <1>2, <1>4
     DEF IInv, ProducerLocals, ConsumerLocals, consumer, SlotAfter
<1>9. QueueInOrder' /\ CopiedIn' /\ CopiedOut'
  BY <1>1, <1>2 DEF IInv, QueueInOrder, CopiedIn, CopiedOut, ReadsNextBytes,
                    consumer, ComputeLength
<1>. QED BY <1>5, <1>6, <1>7, <1>8, <1>9 DEF IInv

LEMMA PushCopyInvariant ==
  ASSUME IInv, PushCopy
  PROVE  IInv'
<1>. USE RingAssumption
<1>1. /\ ppc = "copy"
      /\ buf' = [i \in Slots |-> IF i \in ToEnd(head, plen)
                                 THEN pushed + 1 + (i - head) ELSE buf[i]]
      /\ ppc' = IF Size - head >= plen THEN "publish" ELSE "wrap"
      /\ UNCHANGED <<head, tail, tailSeen, headSeen, plen, consumer, got,
                     pushed, popped>>
  BY DEF PushCopy
<1>2. /\ head \in Slots /\ tail \in Slots /\ plen \in 1..Size-1
      /\ pushed \in Nat /\ pushed + plen <= MaxBytes
      /\ ComputeLength(head, tail) + plen <= Size - 1
  BY <1>1 DEF IInv, TypeOK, CountsAgree, SeenIndices, ProducerLocals
<1>3. TypeOK'
  <2>1. buf' \in [Slots -> 0..MaxBytes]
    BY <1>1, <1>2 DEF IInv, TypeOK, ToEnd, Slots
  <2>. QED BY <1>1, <2>1 DEF IInv, TypeOK, consumer
<1>4. CountsAgree' /\ SeenIndices' /\ ConsumerLocals'
  BY <1>1 DEF IInv, CountsAgree, SeenIndices, ConsumerLocals, consumer,
              ComputeLength, SlotAfter
<1>5. ProducerLocals'
  BY <1>1, <1>2 DEF ProducerLocals, Slots
<1>6. QueueInOrder'
  <2>1. \A i \in Slots : ComputeLength(i, tail) < ComputeLength(head, tail)
                           => i \notin ToEnd(head, plen)
    BY <1>2 DEF Slots, ToEnd, ComputeLength
  <2>. QED BY <1>1, <2>1 DEF IInv, QueueInOrder, ComputeLength
<1>7. CopiedIn'
  BY <1>1, <1>2 DEF CopiedIn, ComputeLength, ToEnd, Slots
<1>8. CopiedOut'
  BY <1>1 DEF IInv, CopiedOut, ReadsNextBytes, consumer
<1>. QED BY <1>3, <1>4, <1>5, <1>6, <1>7, <1>8 DEF IInv

LEMMA PushCopyWrappedInvariant ==
  ASSUME IInv, PushCopyWrapped
  PROVE  IInv'
<1>. USE RingAssumption
<1>1. /\ ppc = "wrap" /\ ppc' = "publish"
      /\ buf' = [i \in Slots |-> IF i \in Wrapped(head, plen)
                                 THEN pushed + 1 + (Size - head) + i ELSE buf[i]]
      /\ UNCHANGED <<head, tail, tailSeen, headSeen, plen, consumer, got,
                     pushed, popped>>
  BY DEF PushCopyWrapped
<1>2. /\ head \in Slots /\ tail \in Slots /\ plen \in 1..Size-1
      /\ pushed \in Nat /\ pushed + plen <= MaxBytes
      /\ ComputeLength(head, tail) + plen <= Size - 1
      /\ Size - head < plen
  BY <1>1 DEF IInv, TypeOK, CountsAgree, SeenIndices, ProducerLocals
<1>3. TypeOK'
  <2>1. buf' \in [Slots -> 0..MaxBytes]
    BY <1>1, <1>2 DEF IInv, TypeOK, Wrapped, Slots
  <2>. QED BY <1>1, <2>1 DEF IInv, TypeOK, consumer
<1>4. CountsAgree' /\ SeenIndices' /\ ConsumerLocals'
  BY <1>1 DEF IInv, CountsAgree, SeenIndices, ConsumerLocals, consumer,
              ComputeLength, SlotAfter
<1>5. ProducerLocals'
  BY <1>1, <1>2 DEF ProducerLocals, Slots
<1>6. QueueInOrder'
  <2>1. \A i \in Slots : ComputeLength(i, tail) < ComputeLength(head, tail)
                           => i \notin Wrapped(head, plen)
    BY <1>2 DEF Slots, Wrapped, ComputeLength
  <2>. QED BY <1>1, <2>1 DEF IInv, QueueInOrder, ComputeLength
<1>7. CopiedIn'
  <2>. SUFFICES ASSUME NEW i \in Slots, ComputeLength(i, head) < plen
                PROVE  buf'[i] = pushed + 1 + ComputeLength(i, head)
    BY <1>1 DEF CopiedIn, ComputeLength
  <2>1. CASE i >= head
    <3>1. i \notin Wrapped(head, plen)
      BY <1>2, <2>1 DEF Wrapped, Slots
    <3>. QED BY <1>1, <2>1, <3>1 DEF IInv, CopiedIn
  <2>2. CASE ~(i >= head)
    <3>1. i \in Wrapped(head, plen) /\ ComputeLength(i, head) = (Size - head) + i
      BY <1>2, <2>2 DEF Wrapped, Slots, ComputeLength
    <3>. QED BY <1>1, <1>2, <3>1 DEF Slots
  <2>. QED BY <2>1, <2>2
<1>8. CopiedOut'
  BY <1>1 DEF IInv, CopiedOut, ReadsNextBytes, consumer
<1>. QED BY <1>3, <1>4, <1>5, <1>6, <1>7, <1>8 DEF IInv

LEMMA PushPublishInvariant ==
  ASSUME IInv, PushPublish
  PROVE  IInv'
<1>. USE RingAssumption
<1>1. /\ ppc = "publish" /\ ppc' = "idle" /\ plen' = 0
      /\ head' = Advance(head, plen)
      /\ headSeen' = headSeen \cup {head'}
      /\ pushed' = pushed + plen
      /\ UNCHANGED <<tail, buf, tailSeen, consumer, got, popped>>
  BY DEF PushPublish
<1>2. /\ head \in Slots /\ tail \in Slots /\ plen \in 0..Size-1
      /\ pushed \in Nat /\ popped \in Nat /\ pushed + plen <= MaxBytes
      /\ ComputeLength(head, tail) + plen <= Size - 1
      /\ tailSeen \subseteq Slots
  BY DEF IInv, TypeOK, CountsAgree, SeenIndices
<1>3. head' = SlotAfter(head, plen) /\ head' \in Slots
  BY <1>1, <1>2, AdvanceWraps
<1>4. \A tl \in Slots : ComputeLength(head, tl) + plen <= Size - 1
        => ComputeLength(head', tl) = ComputeLength(head, tl) + plen
  BY <1>2, <1>3 DEF Slots, ComputeLength, SlotAfter
<1>5. TypeOK'
  BY <1>1, <1>2, <1>3 DEF IInv, TypeOK, consumer
<1>6. CountsAgree'
  BY <1>1, <1>2, <1>4 DEF IInv, CountsAgree, ComputeLength, Slots
<1>7. SeenIndices'
  <2>1. ComputeLength(head', tail) = ComputeLength(head, tail) + plen
    BY <1>2, <1>4
  <2>2. \A tl \in tailSeen : ComputeLength(head', tl) = ComputeLength(head, tl) + plen
    BY <1>2, <1>4 DEF IInv, SeenIndices
  <2>3. \A hd \in headSeen \cup {head} : ComputeLength(hd, tail) \in Nat
    BY LengthInRange, <1>2 DEF IInv, TypeOK
  <2>4. /\ coff \in Nat /\ clen \in Nat
        /\ \A tl \in tailSeen : ComputeLength(head, tl) \in Nat
    BY LengthInRange, <1>2 DEF IInv, TypeOK
  <2>5. tail' \in tailSeen' /\ head' \in headSeen'
    BY <1>1 DEF IInv, SeenIndices
  <2>6. ASSUME NEW tl \in tailSeen'
        PROVE  /\ ComputeLength(head', tail') <= ComputeLength(head', tl)
               /\ ComputeLength(head', tl) + plen' <= Size - 1
    BY <1>1, <1>2, <2>1, <2>2, <2>4 DEF IInv, SeenIndices
  <2>7. ASSUME NEW hd \in headSeen'
        PROVE  /\ coff' + clen' <= ComputeLength(hd, tail')
               /\ ComputeLength(hd, tail') <= ComputeLength(head', tail')
    BY <1>1, <1>2, <2>1, <2>3, <2>4 DEF IInv, SeenIndices, consumer
  <2>. QED BY <2>5, <2>6, <2>7 DEF SeenIndices, ComputeLength
<1>8. ProducerLocals' /\ ConsumerLocals'
  BY <1>1 DEF IInv, ProducerLocals, ConsumerLocals, consumer, SlotAfter
<1>9. QueueInOrder'
  BY <1>1, <1>2, <1>3 DEF IInv, QueueInOrder, CopiedIn, CountsAgree,
                          ComputeLength, SlotAfter, Slots
<1>10. CopiedIn' /\ CopiedOut'
  BY <1>1, <1>3, LengthInRange DEF IInv, CopiedIn, CopiedOut, ReadsNextBytes, consumer
<1>. QED BY <1>5, <1>6, <1>7, <1>8, <1>9, <1>10 DEF IInv

LEMMA PopLoadInvariant ==
  ASSUME IInv, NEW len \in Lens, NEW op \in {"pop", "discard"}, PopLoad(len, op)
  PROVE  IInv'
<1>. USE RingAssumption
<1>1. PICK hd \in headSeen :
        LET n == AtMost(len, ComputeLength(hd, tail)) IN
        /\ HeadLoaded(hd)
        /\ IF n = 0
           THEN ReturnNothing
           ELSE /\ cpc' = IF op = "pop" THEN "copy" ELSE "publish"
                /\ cop' = op
                /\ cfrom' = tail /\ clen' = n /\ coff' = 0
                /\ dst' = <<>>
                /\ UNCHANGED got
  BY DEF PopLoad
<1>2. /\ cpc = "idle" /\ clen = 0 /\ coff = 0
      /\ UNCHANGED <<head, tail, buf, tailSeen, producer, pushed, popped>>
  BY DEF PopLoad, IInv, ConsumerLocals
<1>3. /\ hd \in Slots /\ tail \in Slots /\ len \in Nat
      /\ ComputeLength(hd, tail) \in 0..Size-1
  BY LengthInRange DEF IInv, TypeOK
<1>. DEFINE n == AtMost(len, ComputeLength(hd, tail))
<1>4. n \in 0..Size-1 /\ n <= ComputeLength(hd, tail)
  BY <1>3 DEF AtMost
<1>5. /\ clen' = n /\ coff' = 0
      /\ n = 0 => got' = <<>> /\ UNCHANGED consumer
      /\ n # 0 => /\ cpc' = IF op = "pop" THEN "copy" ELSE "publish"
                  /\ cop' = op /\ cfrom' = tail /\ dst' = <<>>
                  /\ UNCHANGED got
  BY <1>1, <1>2 DEF ReturnNothing, consumer
<1>. HIDE DEF n
<1>6. TypeOK'
  <2>1. headSeen' \subseteq Slots /\ Slots' = Slots /\ 0 \in 0..Size-1
    BY <1>1 DEF IInv, TypeOK, HeadLoaded
  <2>2. CASE n = 0
    BY <1>2, <1>4, <1>5, <2>1, <2>2 DEF IInv, TypeOK, producer, consumer
  <2>3. CASE n # 0
    BY <1>2, <1>3, <1>4, <1>5, <2>1, <2>3 DEF IInv, TypeOK, producer
  <2>. QED BY <2>2, <2>3
<1>7. CountsAgree' /\ ProducerLocals' /\ QueueInOrder' /\ CopiedIn'
  BY <1>2 DEF IInv, CountsAgree, ProducerLocals, QueueInOrder, CopiedIn,
              producer, ComputeLength
<1>8. SeenIndices'
  <2>1. head \in headSeen' /\ \A u \in headSeen' : u \in headSeen
                              /\ ComputeLength(u, tail) >= ComputeLength(hd, tail)
    BY <1>1 DEF IInv, SeenIndices, HeadLoaded
  <2>2. \A u \in headSeen : ComputeLength(u, tail) \in 0..Size-1
    BY LengthInRange DEF IInv, TypeOK
  <2>. QED BY <1>2, <1>3, <1>4, <1>5, <2>1, <2>2
           DEF IInv, SeenIndices, producer, ComputeLength
<1>9. ConsumerLocals'
  BY <1>2, <1>3, <1>4, <1>5 DEF IInv, ConsumerLocals, consumer, SlotAfter, Slots
<1>10. CopiedOut'
  BY <1>2, <1>5 DEF IInv, CopiedOut, ReadsNextBytes, consumer
<1>. QED BY <1>6, <1>7, <1>8, <1>9, <1>10 DEF IInv

LEMMA PeekLoadInvariant ==
  ASSUME IInv, NEW len \in Lens, NEW offset \in Offsets, PeekLoad(len, offset)
  PROVE  IInv'
<1>. USE RingAssumption
<1>. DEFINE Peeked(hd) ==
       IF offset >= ComputeLength(hd, tail) THEN 0
       ELSE AtMost(len, ComputeLength(hd, tail) - offset)
<1>1. PICK hd \in headSeen :
        /\ HeadLoaded(hd)
        /\ IF Peeked(hd) = 0
           THEN ReturnNothing
           ELSE /\ cpc' = "copy" /\ cop' = "peek"
                /\ cfrom' = Advance(tail, offset)
                /\ clen' = Peeked(hd) /\ coff' = offset
                /\ dst' = <<>>
                /\ UNCHANGED got
  BY DEF PeekLoad
<1>2. /\ cpc = "idle" /\ clen = 0 /\ coff = 0
      /\ UNCHANGED <<head, tail, buf, tailSeen, producer, pushed, popped>>
  BY DEF PeekLoad, IInv, ConsumerLocals
<1>3. /\ hd \in Slots /\ tail \in Slots /\ len \in Nat /\ offset \in Nat
      /\ ComputeLength(hd, tail) \in 0..Size-1
  BY LengthInRange DEF IInv, TypeOK
<1>. DEFINE n == Peeked(hd)
<1>4. /\ n \in 0..Size-1
      /\ n # 0 => offset + n <= ComputeLength(hd, tail)
  BY <1>3 DEF AtMost
<1>5. /\ clen' = n
      /\ n = 0 => got' = <<>> /\ UNCHANGED consumer
      /\ n # 0 => /\ cpc' = "copy" /\ cop' = "peek"
                  /\ cfrom' = Advance(tail, offset) /\ coff' = offset
                  /\ dst' = <<>> /\ UNCHANGED got
  BY <1>1, <1>2 DEF ReturnNothing, consumer
<1>. HIDE DEF n
<1>6. n # 0 => cfrom' = SlotAfter(tail, offset) /\ cfrom' \in Slots
                /\ offset \in 0..Size-1
  BY <1>3, <1>4, <1>5, AdvanceWraps
<1>7. TypeOK'
  <2>1. headSeen' \subseteq Slots /\ Slots' = Slots
    BY <1>1 DEF IInv, TypeOK, HeadLoaded
  <2>2. CASE n = 0
    BY <1>2, <1>4, <1>5, <2>1, <2>2 DEF IInv, TypeOK, producer, consumer
  <2>3. CASE n # 0
    BY <1>2, <1>4, <1>5, <1>6, <2>1, <2>3 DEF IInv, TypeOK, producer
  <2>. QED BY <2>2, <2>3
<1>8. CountsAgree' /\ ProducerLocals' /\ QueueInOrder' /\ CopiedIn'
  BY <1>2 DEF IInv, CountsAgree, ProducerLocals, QueueInOrder, CopiedIn,
              producer, ComputeLength
<1>9. SeenIndices'
  <2>1. head \in headSeen' /\ \A u \in headSeen' : u \in headSeen
                              /\ ComputeLength(u, tail) >= ComputeLength(hd, tail)
    BY <1>1 DEF IInv, SeenIndices, HeadLoaded
  <2>2. \A u \in headSeen : ComputeLength(u, tail) \in 0..Size-1
    BY LengthInRange DEF IInv, TypeOK
  <2>3. coff' + clen' <= ComputeLength(hd, tail)
    BY <1>2, <1>3, <1>4, <1>5 DEF consumer
  <2>4. coff' \in Nat /\ clen' \in Nat
    BY <1>7 DEF TypeOK
  <2>. QED BY <1>2, <1>3, <2>1, <2>2, <2>3, <2>4
           DEF IInv, SeenIndices, producer, ComputeLength
<1>10. ConsumerLocals'
  BY <1>2, <1>3, <1>4, <1>5, <1>6 DEF IInv, ConsumerLocals, consumer, SlotAfter
<1>11. CopiedOut'
  BY <1>2, <1>5 DEF IInv, CopiedOut, ReadsNextBytes, consumer
<1>. QED BY <1>7, <1>8, <1>9, <1>10, <1>11 DEF IInv

(* Where a byte being read is in the storage: in the queue, coff + j - 1 *)
(* places behind the oldest.                                             *)
LEMMA ReadSlots ==
  ASSUME IInv, cpc # "idle", NEW j \in 1..clen
  PROVE  LET s == SlotAfter(cfrom, j - 1) IN
         s \in Slots /\ buf[s] = popped + coff + j
<1>. USE RingAssumption
<1>. DEFINE s == SlotAfter(cfrom, j - 1)
<1>1. /\ head \in Slots /\ tail \in Slots /\ clen \in 0..Size-1
      /\ coff \in 0..Size-1 /\ popped \in Nat /\ cfrom \in Slots
      /\ coff + clen <= ComputeLength(head, tail)
      /\ cfrom = SlotAfter(tail, coff)
  BY DEF IInv, TypeOK, SeenIndices, ConsumerLocals
<1>2. ComputeLength(head, tail) \in 0..Size-1
  BY <1>1, LengthInRange
<1>3. s \in Slots /\ ComputeLength(s, tail) = coff + j - 1
  BY <1>1, <1>2 DEF SlotAfter, Slots, ComputeLength
<1>4. ComputeLength(s, tail) < ComputeLength(head, tail)
  BY <1>1, <1>2, <1>3
<1>5. buf[s] = popped + 1 + ComputeLength(s, tail)
  BY <1>3, <1>4 DEF IInv, QueueInOrder
<1>. QED BY <1>1, <1>3, <1>5

(* A function on 1..n is a sequence. *)
LEMMA FunctionIsSeq ==
  ASSUME NEW S, NEW n \in Nat, NEW f \in [1..n -> S]
  PROVE  f \in Seq(S)
OBVIOUS

LEMMA ReadCopyInvariant ==
  ASSUME IInv, ReadCopy
  PROVE  IInv'
<1>. USE RingAssumption
<1>1. /\ cpc = "copy"
      /\ dst' = [j \in 1..clen |-> IF j <= Size - cfrom THEN buf[cfrom + j - 1]
                                                        ELSE 0]
      /\ cpc' = IF Size - cfrom >= clen THEN "publish" ELSE "wrap"
      /\ UNCHANGED <<head, tail, buf, tailSeen, headSeen, producer, cop, cfrom,
                     clen, coff, got, pushed, popped>>
  BY DEF ReadCopy
<1>2. /\ cfrom \in Slots /\ clen \in 1..Size-1 /\ coff \in Nat /\ popped \in Nat
      /\ buf \in [Slots -> 0..MaxBytes] /\ cop # "discard"
  BY <1>1 DEF IInv, TypeOK, ConsumerLocals
<1>3. \A j \in 1..clen : j <= Size - cfrom
        => cfrom + j - 1 \in Slots /\ buf[cfrom + j - 1] = popped + coff + j
  <2>. SUFFICES ASSUME NEW j \in 1..clen, j <= Size - cfrom
                PROVE  cfrom + j - 1 \in Slots
                       /\ buf[cfrom + j - 1] = popped + coff + j
    OBVIOUS
  <2>1. SlotAfter(cfrom, j - 1) = cfrom + j - 1
    BY <1>2 DEF SlotAfter, Slots
  <2>. QED BY <1>1, <2>1, ReadSlots
<1>4. dst' = [j \in 1..clen |-> IF j <= Size - cfrom THEN popped + coff + j ELSE 0]
  BY <1>1, <1>3
<1>5. dst' \in Seq(0..MaxBytes)
  <2>1. dst' \in [1..clen -> 0..MaxBytes]
    BY <1>1, <1>2, <1>3
  <2>. QED BY <1>2, <2>1, FunctionIsSeq
<1>6. TypeOK'
  BY <1>1, <1>5 DEF IInv, TypeOK, producer
<1>7. CountsAgree' /\ SeenIndices' /\ ProducerLocals' /\ QueueInOrder' /\ CopiedIn'
  BY <1>1 DEF IInv, CountsAgree, SeenIndices, ProducerLocals, QueueInOrder,
              CopiedIn, producer, ComputeLength
<1>8. ConsumerLocals'
  BY <1>1, <1>2 DEF IInv, ConsumerLocals, SlotAfter, Slots
<1>9. CopiedOut'
  <2>1. cpc' = "publish" => \A j \in 1..clen : j <= Size - cfrom
    BY <1>1, <1>2 DEF Slots
  <2>. QED BY <1>1, <1>4, <2>1 DEF CopiedOut, ReadsNextBytes
<1>. QED BY <1>6, <1>7, <1>8, <1>9 DEF IInv

LEMMA ReadCopyWrappedInvariant ==
  ASSUME IInv, ReadCopyWrapped
  PROVE  IInv'
<1>. USE RingAssumption
<1>1. /\ cpc = "wrap" /\ cpc' = "publish"
      /\ dst' = [j \in 1..clen |-> IF j <= Size - cfrom THEN dst[j]
                                   ELSE buf[j - 1 - (Size - cfrom)]]
      /\ UNCHANGED <<head, tail, buf, tailSeen, headSeen, producer, cop, cfrom,
                     clen, coff, got, pushed, popped>>
  BY DEF ReadCopyWrapped
<1>2. /\ cfrom \in Slots /\ clen \in 1..Size-1 /\ coff \in Nat /\ popped \in Nat
      /\ pushed \in 0..MaxBytes /\ cop # "discard"
  BY <1>1 DEF IInv, TypeOK, ConsumerLocals
<1>3. \A j \in 1..clen : ~(j <= Size - cfrom)
        => buf[j - 1 - (Size - cfrom)] = popped + coff + j
  BY <1>1, <1>2, ReadSlots DEF SlotAfter, Slots
<1>4. \A j \in 1..clen : j <= Size - cfrom => dst[j] = popped + coff + j
  BY <1>1 DEF IInv, CopiedOut
<1>5. dst' = [j \in 1..clen |-> popped + coff + j]
  BY <1>1, <1>3, <1>4
<1>6. dst' \in Seq(0..MaxBytes)
  <2>1. popped + coff + clen <= pushed
    <3>1. coff + clen <= ComputeLength(head, tail)
      BY DEF IInv, SeenIndices
    <3>2. pushed - popped = ComputeLength(head, tail)
      BY DEF IInv, CountsAgree
    <3>. QED BY <1>2, <3>1, <3>2
  <2>2. dst' \in [1..clen -> 0..MaxBytes]
    BY <1>2, <1>5, <2>1
  <2>. QED BY <1>2, <2>2, FunctionIsSeq
<1>7. TypeOK'
  BY <1>1, <1>6 DEF IInv, TypeOK, producer
<1>8. CountsAgree' /\ SeenIndices' /\ ProducerLocals' /\ QueueInOrder' /\ CopiedIn'
  BY <1>1 DEF IInv, CountsAgree, SeenIndices, ProducerLocals, QueueInOrder,
              CopiedIn, producer, ComputeLength
<1>9. ConsumerLocals'
  BY <1>1, <1>2 DEF IInv, ConsumerLocals, SlotAfter
<1>10. CopiedOut'
  BY <1>1, <1>5 DEF CopiedOut, ReadsNextBytes
<1>. QED BY <1>7, <1>8, <1>9, <1>10 DEF IInv

(* A read that returns hands over the bytes next to the last one removed. *)
LEMMA ReturnedBytes ==
  ASSUME IInv, cpc = "publish"
  PROVE  /\ dst \in Seq(1..MaxBytes)
         /\ clen \in 1..Size-1 /\ coff \in Nat
         /\ coff + clen <= ComputeLength(head, tail)
         /\ popped + coff + clen <= pushed
         /\ tail \in Slots /\ head \in Slots
<1>. USE RingAssumption
<1>1. /\ clen \in 1..Size-1 /\ coff \in Nat /\ popped \in Nat
      /\ pushed \in 0..MaxBytes
      /\ tail \in Slots /\ head \in Slots
      /\ coff + clen <= ComputeLength(head, tail)
      /\ pushed - popped = ComputeLength(head, tail)
  BY DEF IInv, TypeOK, ConsumerLocals, SeenIndices, CountsAgree
<1>2. ComputeLength(head, tail) \in 0..Size-1
  BY <1>1, LengthInRange
<1>3. popped + coff + clen <= pushed
  BY <1>1, <1>2
<1>4. dst \in Seq(1..MaxBytes)
  <2>1. CASE cop = "discard"
    BY <2>1 DEF IInv, ConsumerLocals
  <2>2. CASE cop # "discard"
    <3>1. dst = [j \in 1..clen |-> popped + coff + j]
      BY <2>2 DEF IInv, CopiedOut, ReadsNextBytes
    <3>2. dst \in [1..clen -> 1..MaxBytes]
      BY <1>1, <1>3, <3>1
    <3>. QED BY <1>1, <3>2, FunctionIsSeq
  <2>. QED BY <2>1, <2>2
<1>. QED BY <1>1, <1>3, <1>4

LEMMA PopPublishInvariant ==
  ASSUME IInv, PopPublish
  PROVE  IInv'
<1>. USE RingAssumption
<1>1. /\ cpc = "publish" /\ coff = 0
      /\ tail' = Advance(tail, clen)
      /\ tailSeen' = tailSeen \cup {tail'}
      /\ popped' = popped + clen
      /\ got' = dst
      /\ cpc' = "idle" /\ cop' = "pop"
      /\ cfrom' = 0 /\ clen' = 0 /\ coff' = 0 /\ dst' = <<>>
      /\ UNCHANGED <<head, buf, headSeen, producer, pushed>>
  BY DEF PopPublish, ConsumerReturns, IInv, ConsumerLocals
<1>2. /\ head \in Slots /\ tail \in Slots /\ clen \in 1..Size-1
      /\ pushed \in 0..MaxBytes /\ popped \in Nat /\ plen \in Nat
      /\ clen <= ComputeLength(head, tail)
      /\ popped + clen <= pushed
      /\ headSeen \subseteq Slots /\ tailSeen \subseteq Slots
  BY <1>1, ReturnedBytes DEF IInv, TypeOK
<1>3. tail' = SlotAfter(tail, clen) /\ tail' \in Slots
  BY <1>1, <1>2, AdvanceWraps
<1>4. \A hd \in Slots : clen <= ComputeLength(hd, tail)
        => ComputeLength(hd, tail') = ComputeLength(hd, tail) - clen
  BY <1>2, <1>3 DEF Slots, ComputeLength, SlotAfter
<1>5. \A hd \in Slots, tl \in Slots : ComputeLength(hd, tl) \in 0..Size-1
  BY LengthInRange
<1>6. TypeOK'
  <2>1. Slots' = Slots /\ 0 \in Slots /\ 0 \in 0..Size-1 /\ <<>> \in Seq(0..MaxBytes)
    BY DEF Slots
  <2>. QED BY <1>1, <1>2, <1>3, <2>1, ReturnedBytes DEF IInv, TypeOK, producer
<1>7. CountsAgree'
  BY <1>1, <1>2, <1>4, <1>5 DEF IInv, CountsAgree, producer, ComputeLength
<1>8. SeenIndices'
  <2>1. ComputeLength(head, tail') = ComputeLength(head, tail) - clen
    BY <1>2, <1>4
  <2>2. \A hd \in headSeen : ComputeLength(hd, tail') = ComputeLength(hd, tail) - clen
    BY <1>1, <1>2, <1>4, <1>5 DEF IInv, SeenIndices
  <2>3. tail' \in tailSeen' /\ head' \in headSeen'
    BY <1>1 DEF IInv, SeenIndices
  <2>4. ASSUME NEW tl \in tailSeen'
        PROVE  /\ ComputeLength(head', tail') <= ComputeLength(head', tl)
               /\ ComputeLength(head', tl) + plen' <= Size - 1
    <3>1. CASE tl = tail'
      BY <1>1, <1>2, <1>5, <2>1, <3>1 DEF IInv, SeenIndices, producer
    <3>2. CASE tl \in tailSeen
      BY <1>1, <1>2, <1>5, <2>1, <3>2 DEF IInv, SeenIndices, producer
    <3>. QED BY <1>1, <3>1, <3>2
  <2>5. ASSUME NEW hd \in headSeen'
        PROVE  /\ coff' + clen' <= ComputeLength(hd, tail')
               /\ ComputeLength(hd, tail') <= ComputeLength(head', tail')
    BY <1>1, <1>2, <1>3, <1>5, <2>1, <2>2 DEF IInv, SeenIndices
  <2>. QED BY <2>3, <2>4, <2>5 DEF SeenIndices, ComputeLength
<1>9. ProducerLocals' /\ ConsumerLocals' /\ CopiedIn'
  BY <1>1 DEF IInv, ProducerLocals, ConsumerLocals, CopiedIn, producer,
              ComputeLength
<1>10. QueueInOrder'
  <2>. SUFFICES ASSUME NEW i \in Slots,
                       ComputeLength(i, tail') < ComputeLength(head, tail')
                PROVE  buf[i] = popped' + 1 + ComputeLength(i, tail')
    BY <1>1 DEF QueueInOrder, ComputeLength, Slots
  <2>1. ComputeLength(i, tail) = ComputeLength(i, tail') + clen
    BY <1>2, <1>3 DEF Slots, ComputeLength, SlotAfter
  <2>2. ComputeLength(i, tail) < ComputeLength(head, tail)
    BY <1>2, <1>3, <1>4, <1>5, <2>1
  <2>3. buf[i] = popped + 1 + ComputeLength(i, tail)
    BY <2>2 DEF IInv, QueueInOrder
  <2>4. ComputeLength(i, tail') \in 0..Size-1
    BY <1>3, <1>5
  <2>. HIDE DEF ComputeLength
  <2>. QED BY <1>1, <1>2, <2>1, <2>3, <2>4
<1>11. CopiedOut'
  BY <1>1 DEF CopiedOut, ReadsNextBytes
<1>. QED BY <1>6, <1>7, <1>8, <1>9, <1>10, <1>11 DEF IInv

LEMMA PeekReturnInvariant ==
  ASSUME IInv, PeekReturn
  PROVE  IInv'
<1>. USE RingAssumption
<1>1. /\ cpc = "publish" /\ got' = dst
      /\ cpc' = "idle" /\ cop' = "pop"
      /\ cfrom' = 0 /\ clen' = 0 /\ coff' = 0 /\ dst' = <<>>
      /\ UNCHANGED <<head, tail, buf, tailSeen, headSeen, producer, pushed,
                     popped>>
  BY DEF PeekReturn, ConsumerReturns
<1>2. TypeOK'
  <2>1. Slots' = Slots /\ 0 \in Slots /\ 0 \in 0..Size-1 /\ <<>> \in Seq(0..MaxBytes)
    BY DEF Slots
  <2>. QED BY <1>1, <2>1, ReturnedBytes DEF IInv, TypeOK, producer
<1>3. CountsAgree' /\ ProducerLocals' /\ QueueInOrder' /\ CopiedIn'
  BY <1>1 DEF IInv, CountsAgree, ProducerLocals, QueueInOrder, CopiedIn,
              producer, ComputeLength
<1>4. SeenIndices'
  <2>1. \A hd \in headSeen : ComputeLength(hd, tail) \in 0..Size-1
    BY LengthInRange DEF IInv, TypeOK
  <2>. QED BY <1>1, <2>1 DEF IInv, SeenIndices, producer, ComputeLength
<1>5. ConsumerLocals' /\ CopiedOut'
  BY <1>1 DEF ConsumerLocals, CopiedOut, ReadsNextBytes
<1>. QED BY <1>2, <1>3, <1>4, <1>5 DEF IInv

LEMMA ClearInvariant ==
  ASSUME IInv, Clear
  PROVE  IInv'
<1>. USE RingAssumption
<1>1. /\ ppc = "idle" /\ cpc = "idle" /\ plen = 0 /\ clen = 0 /\ coff = 0
      /\ head' = tail /\ popped' = pushed
      /\ tailSeen' = {tail} /\ headSeen' = {tail}
      /\ UNCHANGED <<tail, buf, producer, consumer, got, pushed>>
  BY DEF Clear, Exclusive, Synchronised, IInv, ProducerLocals, ConsumerLocals
<1>2. /\ tail \in Slots /\ pushed \in 0..MaxBytes
      /\ ComputeLength(tail, tail) = 0
  BY DEF IInv, TypeOK, ComputeLength, Slots
<1>3. TypeOK'
  BY <1>1, <1>2 DEF IInv, TypeOK, producer, consumer
<1>4. CountsAgree' /\ SeenIndices'
  BY <1>1, <1>2 DEF IInv, CountsAgree, SeenIndices, producer, consumer,
                    ComputeLength
<1>5. ProducerLocals' /\ ConsumerLocals'
  BY <1>1 DEF IInv, ProducerLocals, ConsumerLocals, producer, consumer, SlotAfter
<1>6. QueueInOrder'
  <2>1. \A i \in Slots : ~(ComputeLength(i, tail) < 0)
    BY <1>2, LengthInRange
  <2>. QED BY <1>1, <1>2, <2>1 DEF QueueInOrder, ComputeLength
<1>7. CopiedIn' /\ CopiedOut'
  BY <1>1 DEF IInv, CopiedIn, CopiedOut, ReadsNextBytes, producer, consumer
<1>. QED BY <1>3, <1>4, <1>5, <1>6, <1>7 DEF IInv

(* Both branches of an overwriting push leave the ring full, with the last *)
(* Size - 1 bytes of the stream in the slots from tail' to head'.          *)
LEMMA PushWrapFills ==
  ASSUME IInv, NEW len \in Lens, PushWrap(len)
  PROVE  /\ head' \in Slots /\ tail' \in Slots
         /\ buf' \in [Slots -> 0..MaxBytes]
         /\ ComputeLength(head', tail') = Size - 1
         /\ popped' = pushed + len - (Size - 1)
         /\ \A i \in Slots : ComputeLength(i, tail') < Size - 1
              => buf'[i] = popped' + 1 + ComputeLength(i, tail')
<1>. USE RingAssumption
<1>1. /\ len \in Nat /\ head \in Slots /\ tail \in Slots
      /\ pushed \in 0..MaxBytes /\ popped \in Nat
      /\ buf \in [Slots -> 0..MaxBytes]
      /\ pushed - popped = ComputeLength(head, tail)
      /\ ComputeLength(head, tail) \in 0..Size-1
  BY LengthInRange DEF IInv, TypeOK, CountsAgree
<1>. DEFINE free == ComputeFreeSpace(head, tail)
            length == ComputeLength(head, tail)
<1>2. len > free /\ pushed' = pushed + len /\ pushed + len <= MaxBytes
  BY DEF PushWrap
<1>3. CASE len >= Size
  <2>. DEFINE skip == len - (Size - 1)
              n == len - skip
  <2>1. /\ n = Size - 1 /\ skip \in Nat
    BY <1>1, <1>3
  <2>2. /\ head' = Advance(0, n) /\ tail' = 0
        /\ popped' = pushed + skip
        /\ buf' = Written(0, n, pushed + skip + 1)
    BY <1>3 DEF PushWrap
  <2>. HIDE DEF n, skip
  <2>3. head' = Size - 1 /\ head' \in Slots /\ tail' \in Slots
    BY <2>1, <2>2, AdvanceWraps DEF SlotAfter, Slots
  <2>4. \A i \in Slots : /\ i \in ToEnd(0, n) <=> i < Size - 1
                         /\ i \notin Wrapped(0, n)
    BY <2>1 DEF ToEnd, Wrapped, Slots
  <2>5. \A i \in Slots : buf'[i] = IF i < Size - 1 THEN pushed + skip + 1 + i
                                   ELSE buf[i]
    BY <1>1, <2>2, <2>4 DEF Slots, Written
  <2>6. pushed + skip + (Size - 1) = pushed'
    BY <1>1, <1>2, <2>1 DEF skip
  <2>7. buf' \in [Slots -> 0..MaxBytes]
    <3>1. \A i \in Slots : i < Size - 1 => pushed + skip + 1 + i \in 0..MaxBytes
      BY <1>1, <1>2, <2>1, <2>6 DEF Slots
    <3>2. \A i \in Slots : buf'[i] \in 0..MaxBytes
      BY <1>1, <2>5, <3>1
    <3>. QED BY <2>2, <3>2 DEF Written
  <2>8. \A i \in Slots : ComputeLength(i, tail') = i
    BY <2>2 DEF ComputeLength, Slots
  <2>9. popped' = pushed + len - (Size - 1)
    BY <1>1, <1>3, <2>2 DEF skip
  <2>10. ComputeLength(head', tail') = Size - 1
    BY <2>3, <2>8
  <2>11. \A i \in Slots : i < Size - 1 => buf'[i] = popped' + 1 + i
    BY <1>1, <2>1, <2>2, <2>5 DEF Slots
  <2>. QED BY <2>3, <2>7, <2>8, <2>9, <2>10, <2>11
<1>4. CASE ~(len >= Size)
  <2>1. /\ head' = Advance(head, len) /\ tail' = Advance(tail, len - free)
        /\ popped' = popped + (len - free)
        /\ buf' = Written(head, len, pushed + 0 + 1)
    <3>1. len - 0 = len
      BY <1>1
    <3>. QED BY <1>4, <3>1 DEF PushWrap
  <2>2. /\ free = Size - 1 - length
        /\ len \in 0..Size-1 /\ len - free \in 0..length /\ length \in 0..Size-1
    BY <1>1, <1>2, <1>4 DEF ComputeFreeSpace
  <2>3. /\ head' = SlotAfter(head, len) /\ head' \in Slots
        /\ tail' = SlotAfter(tail, len - free) /\ tail' \in Slots
    <3>1. len \in 0..Size /\ len - free \in 0..Size
      BY <2>2
    <3>. HIDE DEF free
    <3>. QED BY <1>1, <2>1, <3>1, AdvanceWraps
  <2>4. \A i \in Slots : buf'[i] = IF ComputeLength(i, head) < len
                                   THEN pushed + 1 + ComputeLength(i, head)
                                   ELSE buf[i]
    <3>. SUFFICES ASSUME NEW i \in Slots
                  PROVE  buf'[i] = IF ComputeLength(i, head) < len
                                   THEN pushed + 1 + ComputeLength(i, head)
                                   ELSE buf[i]
      OBVIOUS
    <3>1. CASE i >= head
      <4>1. /\ ComputeLength(i, head) = i - head
            /\ i \in ToEnd(head, len) <=> i - head < len
            /\ i \notin Wrapped(head, len)
        BY <1>1, <2>2, <3>1 DEF ComputeLength, ToEnd, Wrapped, Slots
      <4>. QED BY <1>1, <2>1, <4>1 DEF Slots, Written
    <3>2. CASE ~(i >= head)
      <4>1. /\ ComputeLength(i, head) = Size - head + i
            /\ i \in Wrapped(head, len) <=> Size - head + i < len
            /\ i \notin ToEnd(head, len)
        BY <1>1, <2>2, <3>2 DEF ComputeLength, ToEnd, Wrapped, Slots
      <4>. QED BY <1>1, <2>1, <4>1 DEF Slots, Written
    <3>. QED BY <3>1, <3>2
  <2>5. \A i \in Slots : ComputeLength(i, head) \in 0..Size-1
    BY <1>1, LengthInRange
  <2>6. buf' \in [Slots -> 0..MaxBytes]
    <3>1. \A i \in Slots : buf'[i] \in 0..MaxBytes
      BY <1>1, <1>2, <2>2, <2>4, <2>5
    <3>. QED BY <2>1, <3>1 DEF Written
  <2>7. ComputeLength(head', tail') = Size - 1
    BY <1>1, <2>2, <2>3 DEF ComputeLength, SlotAfter, Slots
  <2>8. popped' = pushed + len - (Size - 1)
    BY <1>1, <1>2, <2>1, <2>2
  <2>9. ASSUME NEW i \in Slots, ComputeLength(i, tail') < Size - 1
        PROVE  buf'[i] = popped' + 1 + ComputeLength(i, tail')
    <3>1. CASE ComputeLength(i, head) < len
      <4>1. ComputeLength(i, tail') = ComputeLength(i, head) + (Size - 1 - len)
        BY <1>1, <2>2, <2>3, <2>9, <3>1 DEF ComputeLength, SlotAfter, Slots
      <4>. QED BY <1>1, <1>2, <2>2, <2>4, <2>5, <2>8, <3>1, <4>1
    <3>2. CASE ~(ComputeLength(i, head) < len)
      <4>1. /\ ComputeLength(i, tail) = ComputeLength(i, tail') + (len - free)
            /\ ComputeLength(i, tail) < length
        BY <1>1, <2>2, <2>3, <2>9, <3>2 DEF ComputeLength, SlotAfter, Slots
      <4>2. buf[i] = popped + 1 + ComputeLength(i, tail)
        BY <4>1 DEF IInv, QueueInOrder
      <4>3. ComputeLength(i, tail') \in 0..Size-1
        BY <2>3, LengthInRange
      <4>. HIDE DEF free, length
      <4>4. buf'[i] = buf[i]
        BY <2>4, <3>2
      <4>. QED BY <1>1, <2>1, <2>2, <4>1, <4>2, <4>3, <4>4
    <3>. QED BY <3>1, <3>2
  <2>. QED BY <2>3, <2>6, <2>7, <2>8, <2>9
<1>. QED BY <1>3, <1>4

LEMMA PushWrapInvariant ==
  ASSUME IInv, NEW len \in Lens, PushWrap(len)
  PROVE  IInv'
<1>. USE RingAssumption
<1>1. /\ ppc = "idle" /\ cpc = "idle" /\ plen = 0 /\ clen = 0 /\ coff = 0
      /\ tailSeen' = {tail'} /\ headSeen' = {head'}
      /\ pushed' = pushed + len /\ pushed + len <= MaxBytes
      /\ UNCHANGED <<producer, consumer, got>>
  BY DEF PushWrap, Exclusive, Synchronised, IInv, ProducerLocals, ConsumerLocals
<1>2. /\ head' \in Slots /\ tail' \in Slots
      /\ buf' \in [Slots -> 0..MaxBytes]
      /\ ComputeLength(head', tail') = Size - 1
      /\ popped' = pushed + len - (Size - 1)
  BY PushWrapFills
<1>3. pushed' \in 0..MaxBytes /\ popped' \in 0..MaxBytes
  <2>1. pushed \in Nat /\ len \in Nat /\ popped \in Nat
    BY DEF IInv, TypeOK
  <2>2. pushed' \in 0..MaxBytes
    BY <1>1, <2>1
  <2>3. popped' \in Nat
    <3>1. pushed - popped = ComputeLength(head, tail) /\ head \in Slots /\ tail \in Slots
      BY DEF IInv, TypeOK, CountsAgree
    <3>2. ComputeLength(head, tail) \in 0..Size-1
      BY <3>1, LengthInRange
    <3>3. len > Size - ComputeLength(head, tail) - 1
      BY DEF PushWrap, ComputeFreeSpace
    <3>. QED BY <1>1, <1>2, <2>1, <3>1, <3>2, <3>3
  <2>. QED BY <1>1, <1>2, <2>1, <2>3
<1>4. TypeOK'
  BY <1>1, <1>2, <1>3 DEF IInv, TypeOK, producer, consumer
<1>5. CountsAgree'
  <2>1. pushed \in Nat /\ len \in Nat
    BY DEF IInv, TypeOK
  <2>2. pushed' - popped' = Size - 1
    BY <1>1, <1>2, <2>1
  <2>. QED BY <1>1, <1>2, <2>1, <2>2 DEF CountsAgree, producer, ComputeLength
<1>6. SeenIndices'
  BY <1>1, <1>2 DEF SeenIndices, producer, consumer, ComputeLength
<1>7. ProducerLocals' /\ ConsumerLocals'
  BY <1>1 DEF IInv, ProducerLocals, ConsumerLocals, producer, consumer, SlotAfter
<1>8. QueueInOrder'
  BY <1>2, PushWrapFills DEF QueueInOrder, ComputeLength, Slots
<1>9. CopiedIn' /\ CopiedOut'
  <2>1. \A i \in Slots : ~(ComputeLength(i, head') < plen')
    BY <1>1, <1>2, LengthInRange DEF producer
  <2>. QED BY <1>1, <2>1 DEF IInv, CopiedIn, CopiedOut, ReadsNextBytes,
                            producer, consumer, ComputeLength
<1>. QED BY <1>4, <1>5, <1>6, <1>7, <1>8, <1>9 DEF IInv

LEMMA StutterInvariant ==
  ASSUME IInv, UNCHANGED vars
  PROVE  IInv'
<1>1. TypeOK' /\ CountsAgree' /\ SeenIndices' /\ ProducerLocals' /\ ConsumerLocals'
  BY DEF vars, producer, consumer, IInv, TypeOK, CountsAgree, SeenIndices,
         ProducerLocals, ConsumerLocals, ComputeLength, SlotAfter, Slots
<1>2. QueueInOrder' /\ CopiedIn' /\ CopiedOut'
  BY DEF vars, producer, consumer, IInv, QueueInOrder, CopiedIn, CopiedOut,
         ReadsNextBytes, ComputeLength, Slots
<1>. QED BY <1>1, <1>2 DEF IInv

LEMMA NextInvariant == IInv /\ [Next]_vars => IInv'
<1>. SUFFICES ASSUME IInv, [Next]_vars
              PROVE  IInv'
  OBVIOUS
<1>1. CASE Producer
  BY <1>1, PushLoadInvariant, PushCopyInvariant, PushCopyWrappedInvariant,
     PushPublishInvariant DEF Producer
<1>2. CASE Consumer
  BY <1>2, PopLoadInvariant, PeekLoadInvariant, ReadCopyInvariant,
     ReadCopyWrappedInvariant, PopPublishInvariant, PeekReturnInvariant
     DEF Consumer
<1>3. CASE Alone
  BY <1>3, ClearInvariant, PushWrapInvariant DEF Alone
<1>4. CASE UNCHANGED vars
  BY <1>4, StutterInvariant
<1>. QED BY <1>1, <1>2, <1>3, <1>4 DEF Next

(* The indices, the bytes between them and what each thread has copied so   *)
(* far stay consistent in every interleaving, for every size of the storage *)
(* and every length of a push, a pop or a peek.                             *)
THEOREM RingInvariant == Spec => []IInv
<1>1. Init => IInv
  BY InitInvariant
<1>2. IInv /\ [Next]_vars => IInv'
  BY NextInvariant
<1>. QED BY <1>1, <1>2, PTL DEF Spec

(* The values of the variables of ringbuf.c stay in their ranges. *)
THEOREM RingTypes == Spec => []TypeOK
<1>1. IInv => TypeOK
  BY DEF IInv
<1>. QED BY <1>1, RingInvariant, PTL

(* A byte a pop or a peek returns is the next of the stream, whatever the  *)
(* producer does between the loads and the last memcpy of the consumer.    *)
THEOREM RingReads == Spec => []ReadsNextBytes
<1>1. IInv => ReadsNextBytes
  BY DEF IInv, CopiedOut
<1>. QED BY <1>1, RingInvariant, PTL

(* The room and the bytes found with a stale index are still there when    *)
(* the thread uses them.                                                   *)
THEOREM RingStaleIndices == Spec => []StaleIndicesAreSafe
<1>1. IInv => StaleIndicesAreSafe
  <2>. SUFFICES ASSUME IInv PROVE StaleIndicesAreSafe
    OBVIOUS
  <2>1. /\ head \in Slots /\ tail \in Slots
        /\ \A tl \in tailSeen : ComputeLength(head, tl) \in 0..Size-1
        /\ \A hd \in headSeen : ComputeLength(hd, tail) \in 0..Size-1
    BY LengthInRange DEF IInv, TypeOK
  <2>2. ComputeLength(head, tail) \in 0..Size-1 /\ Size \in Nat
    BY <2>1, LengthInRange, RingAssumption
  <2>. QED BY <2>1, <2>2 DEF IInv, SeenIndices, StaleIndicesAreSafe,
                             ComputeFreeSpace
<1>. QED BY <1>1, RingInvariant, PTL

(* No slot is being written and read at once: the memcpys of the two       *)
(* threads need no lock.                                                   *)
THEOREM RingNoRace == Spec => []NoSlotRace
<1>1. IInv => NoSlotRace
  <2>. SUFFICES ASSUME IInv, NEW i \in Slots, i \in Writing, i \in Reading
                PROVE  FALSE
    BY DEF NoSlotRace, Writing
  <2>1. /\ head \in Slots /\ tail \in Slots /\ cfrom \in Slots
        /\ plen \in 0..Size-1 /\ clen \in 0..Size-1 /\ coff \in 0..Size-1
        /\ ComputeLength(head, tail) + plen <= Size - 1
        /\ coff + clen <= ComputeLength(head, tail)
    BY DEF IInv, TypeOK, SeenIndices
  <2>2. cfrom = SlotAfter(tail, coff)
    BY DEF Reading, IInv, ConsumerLocals
  <2>3. ComputeLength(i, head) < plen
    BY <2>1, RingAssumption DEF Writing, ToEnd, Wrapped, ComputeLength, Slots
  <2>4. ComputeLength(i, cfrom) < clen
    BY <2>1, RingAssumption DEF Reading, ToEnd, Wrapped, ComputeLength, Slots
  <2>5. ComputeLength(i, tail) = ComputeLength(i, cfrom) + coff
    BY <2>1, <2>2, <2>4, RingAssumption DEF SlotAfter, ComputeLength, Slots
  <2>6. ComputeLength(i, tail) >= ComputeLength(head, tail)
    BY <2>1, <2>3, RingAssumption DEF ComputeLength, Slots
  <2>7. /\ ComputeLength(i, cfrom) \in 0..Size-1
        /\ ComputeLength(head, tail) \in 0..Size-1
    BY <2>1, LengthInRange
  <2>. QED BY <2>1, <2>4, <2>5, <2>6, <2>7
<1>. QED BY <1>1, RingInvariant, PTL
=============================================================================
