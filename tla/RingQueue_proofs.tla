-------------------------- MODULE RingQueue_proofs --------------------------
(***************************************************************************)
(* Proof that ringbuf.c, with observers or without, implements the queue   *)
(* of ByteQueue: the bytes between the indices are the run of the stream   *)
(* from popped to pushed, so a step of the ring is a step of a queue of    *)
(* consecutive numbers, or changes nothing that the queue tells.           *)
(***************************************************************************)
EXTENDS RingObserver_proofs, SequenceTheorems

(* The n bytes of the stream that follow the first a ones. *)
Run(a, n) == [k \in 1..n |-> a + k]

LEMMA RunIsSeq ==
  ASSUME NEW a \in Nat, NEW n \in Nat
  PROVE  /\ Run(a, n) \in Seq(Nat)
         /\ Len(Run(a, n)) = n
         /\ \A k \in 1..n : Run(a, n)[k] = a + k
<1>1. Run(a, n) \in [1..n -> Nat]
  BY DEF Run
<1>2. Run(a, n) \in Seq(Nat)
  BY <1>1, FunctionIsSeq
<1>3. DOMAIN Run(a, n) = 1..n
  BY DEF Run
<1>4. Len(Run(a, n)) = n
  BY <1>2, <1>3, LenProperties
<1>. QED BY <1>2, <1>4 DEF Run

(* Two runs of which one begins where the other ends are one. *)
LEMMA RunConcat ==
  ASSUME NEW a \in Nat, NEW n \in Nat, NEW m \in Nat
  PROVE  Run(a, n) \o Run(a + n, m) = Run(a, n + m)
<1>1. /\ Run(a, n) \in Seq(Nat) /\ Len(Run(a, n)) = n
      /\ \A k \in 1..n : Run(a, n)[k] = a + k
  BY RunIsSeq
<1>2. /\ Run(a + n, m) \in Seq(Nat) /\ Len(Run(a + n, m)) = m
      /\ \A k \in 1..m : Run(a + n, m)[k] = (a + n) + k
  <2>1. a + n \in Nat
    OBVIOUS
  <2>. QED BY <2>1, RunIsSeq
<1>3. /\ Run(a, n + m) \in Seq(Nat) /\ Len(Run(a, n + m)) = n + m
      /\ \A k \in 1..(n + m) : Run(a, n + m)[k] = a + k
  <2>1. n + m \in Nat
    OBVIOUS
  <2>. QED BY <2>1, RunIsSeq
<1>4. ASSUME NEW s \in Seq(Nat), NEW t \in Seq(Nat), NEW u \in Seq(Nat),
             Len(s) = n, Len(t) = m, Len(u) = n + m,
             \A k \in 1..n : s[k] = a + k,
             \A k \in 1..m : t[k] = (a + n) + k,
             \A k \in 1..(n + m) : u[k] = a + k
      PROVE  s \o t = u
  <2>1. /\ s \o t \in Seq(Nat) /\ Len(s \o t) = n + m
        /\ \A k \in 1..(n + m) : (s \o t)[k] = IF k <= n THEN s[k] ELSE t[k - n]
    BY <1>4, ConcatProperties
  <2>2. ASSUME NEW k \in 1..(n + m) PROVE (s \o t)[k] = u[k]
    <3>1. CASE k <= n
      BY <2>1, <1>4, <3>1
    <3>2. CASE ~(k <= n)
      <4>1. k - n \in 1..m
        BY <3>2
      <4>2. t[k - n] = a + k
        BY <4>1, <1>4
      <4>. QED BY <2>1, <3>2, <4>2, <1>4
    <3>. QED BY <3>1, <3>2
  <2>. QED BY <2>1, <2>2, <1>4, SeqEqual
<1>. QED BY <1>1, <1>2, <1>3, <1>4

(* A part of a run is a run. *)
LEMMA RunPart ==
  ASSUME NEW a \in Nat, NEW n \in Nat, NEW i \in 1..(n + 1), NEW j \in 0..n,
         i <= j + 1
  PROVE  SubSeq(Run(a, n), i, j) = Run(a + (i - 1), j - i + 1)
<1>1. /\ Run(a, n) \in Seq(Nat) /\ Len(Run(a, n)) = n
      /\ \A k \in 1..n : Run(a, n)[k] = a + k
  BY RunIsSeq
<1>2. a + (i - 1) \in Nat /\ j - i + 1 \in Nat
  OBVIOUS
<1>3. /\ Run(a + (i - 1), j - i + 1) \in Seq(Nat)
      /\ Len(Run(a + (i - 1), j - i + 1)) = j - i + 1
      /\ \A k \in 1..(j - i + 1) :
           Run(a + (i - 1), j - i + 1)[k] = (a + (i - 1)) + k
  BY <1>2, RunIsSeq
<1>4. ASSUME NEW s \in Seq(Nat), NEW u \in Seq(Nat), Len(s) = n,
             \A k \in 1..n : s[k] = a + k,
             Len(u) = j - i + 1,
             \A k \in 1..(j - i + 1) : u[k] = (a + (i - 1)) + k
      PROVE  SubSeq(s, i, j) = u
  <2>1. \A k \in i..j : s[k] \in Nat
    BY <1>4
  <2>2. /\ SubSeq(s, i, j) \in Seq(Nat)
        /\ Len(SubSeq(s, i, j)) = j - i + 1
        /\ \A k \in 1..(j - i + 1) : SubSeq(s, i, j)[k] = s[i + k - 1]
    BY <2>1, SubSeqProperties
  <2>3. \A k \in 1..(j - i + 1) : SubSeq(s, i, j)[k] = u[k]
    <3>. SUFFICES ASSUME NEW k \in 1..(j - i + 1)
                  PROVE  SubSeq(s, i, j)[k] = u[k]
      OBVIOUS
    <3>1. i + k - 1 \in 1..n
      OBVIOUS
    <3>. QED BY <2>2, <3>1, <1>4
  <2>. QED BY <2>2, <2>3, <1>4, SeqEqual
<1>. QED BY <1>1, <1>3, <1>4
-----------------------------------------------------------------------------
(* The bytes between the indices are a run of the stream. *)
LEMMA QueueIsRun ==
  ASSUME IInv
  PROVE  /\ Queue = Run(popped, pushed - popped)
         /\ pushed - popped = ComputeLength(head, tail)
         /\ pushed - popped \in 0..Size-1
         /\ pushed \in 0..MaxBytes /\ popped \in Nat
<1>. USE RingAssumption
<1>1. /\ head \in Slots /\ tail \in Slots /\ pushed \in 0..MaxBytes
      /\ popped \in Nat /\ pushed - popped = ComputeLength(head, tail)
  BY DEF IInv, TypeOK, CountsAgree
<1>2. ComputeLength(head, tail) \in 0..Size-1
  BY <1>1, LengthInRange
<1>3. ASSUME NEW k \in 1..ComputeLength(head, tail)
      PROVE  buf[SlotAfter(tail, k - 1)] = popped + k
  <2>. DEFINE s == SlotAfter(tail, k - 1)
  <2>1. s \in Slots /\ ComputeLength(s, tail) = k - 1
    BY <1>1, <1>2 DEF SlotAfter, ComputeLength, Slots
  <2>2. buf[s] = popped + 1 + ComputeLength(s, tail)
    BY <1>2, <2>1 DEF IInv, QueueInOrder
  <2>. QED BY <1>1, <2>1, <2>2
<1>4. Queue = Run(popped, ComputeLength(head, tail))
  BY <1>3 DEF Queue, Run
<1>. QED BY <1>1, <1>2, <1>4

(* The queue as it is before a step and after it. *)
QueueFacts ==
  /\ Queue = Run(popped, pushed - popped)
  /\ pushed - popped \in 0..Size-1
  /\ pushed \in 0..MaxBytes /\ popped \in Nat

LEMMA QueueBeforeAndAfter == IInv /\ IInv' => QueueFacts /\ QueueFacts'
<1>1. IInv => QueueFacts
  BY QueueIsRun DEF QueueFacts
<1>. QED BY <1>1, PTL

LEMMA QueueLength ==
  ASSUME QueueFacts
  PROVE  Len(Queue) = pushed - popped
<1>1. Queue = Run(popped, pushed - popped) /\ pushed - popped \in Nat /\ popped \in Nat
  BY DEF QueueFacts
<1>. QED BY <1>1, RunIsSeq

(* A step that neither adds nor removes bytes leaves the queue. *)
LEMMA QueueUnchanged ==
  ASSUME QueueFacts, QueueFacts', UNCHANGED <<pushed, popped>>
  PROVE  Queue' = Queue
BY DEF QueueFacts, Run

(* A step that removes n bytes leaves the run behind them. *)
LEMMA QueueShortened ==
  ASSUME QueueFacts, QueueFacts', NEW n \in 0..(pushed - popped),
         pushed' = pushed, popped' = popped + n
  PROVE  /\ Len(Queue) = pushed - popped
         /\ Queue' = SubSeq(Queue, n + 1, Len(Queue))
<1>1. /\ Queue = Run(popped, pushed - popped)
      /\ pushed - popped \in Nat /\ popped \in Nat /\ pushed \in Nat
  BY DEF QueueFacts
<1>2. Len(Queue) = pushed - popped
  BY <1>1, RunIsSeq
<1>. DEFINE l == pushed - popped
            i == n + 1
            b == popped + n
            m == l - n
<1>3. SubSeq(Run(popped, l), i, l) = Run(b, m)
  <2>1. /\ popped \in Nat /\ l \in Nat /\ i \in 1..(l + 1) /\ l \in 0..l
        /\ i <= l + 1 /\ b = popped + (i - 1) /\ m = l - i + 1
    BY <1>1
  <2>. HIDE DEF l, i, b, m
  <2>. QED BY <2>1, RunPart, ZenonT(30)
<1>4. Queue' = Run(popped + n, (pushed - popped) - n)
  <2>1. pushed' - popped' = (pushed - popped) - n
    BY <1>1
  <2>2. Queue' = Run(popped', pushed' - popped')
    BY DEF QueueFacts, Run
  <2>. QED BY <2>1, <2>2
<1>. QED BY <1>1, <1>2, <1>3, <1>4

(* What is read at an offset is that part of the queue. *)
LEMMA QueueRead ==
  ASSUME QueueFacts, NEW offset \in Nat, NEW n \in Nat,
         offset + n <= pushed - popped
  PROVE  SubSeq(Queue, offset + 1, offset + n)
           = [j \in 1..n |-> popped + offset + j]
<1>1. /\ Queue = Run(popped, pushed - popped)
      /\ pushed - popped \in Nat /\ popped \in Nat /\ pushed \in Nat
  BY DEF QueueFacts
<1>. DEFINE l == pushed - popped
            i == offset + 1
            j == offset + n
            b == popped + offset
<1>2. SubSeq(Run(popped, l), i, j) = Run(b, n)
  <2>1. /\ popped \in Nat /\ l \in Nat /\ i \in 1..(l + 1) /\ j \in 0..l
        /\ i <= j + 1 /\ b = popped + (i - 1) /\ n = j - i + 1
    BY <1>1
  <2>. HIDE DEF l, i, j, b
  <2>. QED BY <2>1, RunPart, ZenonT(30)
<1>. QED BY <1>1, <1>2 DEF Run

(* What a push of n bytes appends. *)
LEMMA QueueAppended ==
  ASSUME QueueFacts, NEW n \in Nat
  PROVE  /\ Len(Queue) = pushed - popped
         /\ Queue \o Abstract!Fresh(n) = Run(popped, (pushed - popped) + n)
<1>1. /\ Queue = Run(popped, pushed - popped)
      /\ pushed - popped \in Nat /\ popped \in Nat /\ pushed \in Nat
      /\ popped + (pushed - popped) = pushed
  BY DEF QueueFacts
<1>2. Abstract!Fresh(n) = Run(popped + (pushed - popped), n)
  BY <1>1 DEF Abstract!Fresh, Run
<1>3. Len(Queue) = pushed - popped
  BY <1>1, RunIsSeq
<1>. DEFINE l == pushed - popped
<1>4. Run(popped, l) \o Run(popped + l, n) = Run(popped, l + n)
  <2>1. l \in Nat
    BY <1>1
  <2>. HIDE DEF l
  <2>. QED BY <1>1, <2>1, RunConcat
<1>. QED BY <1>1, <1>2, <1>3, <1>4
-----------------------------------------------------------------------------
(* Every step of the ring is a step of the queue, or changes nothing of it. *)
(* The store of head puts the bytes copied. *)
LEMMA PushPublishPuts ==
  ASSUME IInv, QueueFacts, QueueFacts', PushPublish
  PROVE  Abstract!Put(plen)
<1>. USE RingAssumption
<1>1. /\ pushed' = pushed + plen /\ popped' = popped /\ got' = got
  BY DEF PushPublish
<1>2. /\ plen \in Nat /\ pushed \in Nat /\ popped \in Nat
      /\ pushed + plen <= MaxBytes
      /\ (pushed - popped) + plen <= Size - 1
  BY DEF IInv, TypeOK, CountsAgree, SeenIndices
<1>3. /\ Len(Queue) = pushed - popped
      /\ Queue \o Abstract!Fresh(plen) = Run(popped, (pushed - popped) + plen)
  BY <1>2, QueueAppended
<1>4. Queue' = Run(popped, (pushed - popped) + plen)
  <2>1. pushed' - popped' = (pushed - popped) + plen
    BY <1>1, <1>2
  <2>. QED BY <1>1, <2>1 DEF QueueFacts, Run
<1>. QED BY <1>1, <1>2, <1>3, <1>4 DEF Abstract!Put

(* The store of tail takes them out, or discards them. *)
LEMMA PopPublishTakes ==
  ASSUME IInv, QueueFacts, QueueFacts', PopPublish
  PROVE  Abstract!Take(clen) \/ Abstract!Discard(clen)
<1>. USE RingAssumption
<1>1. /\ cpc = "publish" /\ cop # "peek"
      /\ pushed' = pushed /\ popped' = popped + clen /\ got' = dst
  BY DEF PopPublish, ConsumerReturns
<1>2. /\ clen \in Nat /\ coff = 0 /\ pushed \in Nat /\ popped \in Nat
      /\ clen <= pushed - popped
  BY <1>1, ReturnedBytes DEF IInv, TypeOK, CountsAgree, ConsumerLocals
<1>3. /\ Len(Queue) = pushed - popped
      /\ Queue' = SubSeq(Queue, clen + 1, Len(Queue))
  BY <1>1, <1>2, QueueShortened
<1>4. CASE cop = "discard"
  <2>1. got' = <<>>
    BY <1>1, <1>4 DEF IInv, ConsumerLocals
  <2>. QED BY <1>1, <1>2, <1>3, <2>1 DEF Abstract!Discard
<1>5. CASE cop # "discard"
  <2>1. dst = [j \in 1..clen |-> popped + 0 + j]
    BY <1>1, <1>2, <1>5 DEF IInv, CopiedOut, ReadsNextBytes
  <2>2. SubSeq(Queue, 0 + 1, 0 + clen) = [j \in 1..clen |-> popped + 0 + j]
    <3>1. 0 \in Nat /\ 0 + clen <= pushed - popped
      BY <1>2
    <3>. QED BY <1>2, <3>1, QueueRead
  <2>3. 0 + 1 = 1 /\ 0 + clen = clen
    BY <1>2
  <2>4. got' = SubSeq(Queue, 1, clen)
    BY <1>1, <2>1, <2>2, <2>3
  <2>. QED BY <1>1, <1>2, <1>3, <2>4 DEF Abstract!Take
<1>. QED BY <1>4, <1>5

(* A peek looks at the queue when it returns. *)
LEMMA PeekReturnLooks ==
  ASSUME IInv, QueueFacts, QueueFacts', PeekReturn
  PROVE  Abstract!Look(coff, clen)
<1>. USE RingAssumption
<1>1. /\ cpc = "publish" /\ cop = "peek" /\ got' = dst
      /\ UNCHANGED <<pushed, popped>>
  BY DEF PeekReturn, ConsumerReturns
<1>2. /\ clen \in Nat /\ coff \in Nat /\ pushed \in Nat /\ popped \in Nat
      /\ coff + clen <= pushed - popped
  BY <1>1, ReturnedBytes DEF IInv, TypeOK, CountsAgree
<1>3. Len(Queue) = pushed - popped
  BY QueueLength
<1>4. dst = [j \in 1..clen |-> popped + coff + j]
  BY <1>1 DEF IInv, CopiedOut, ReadsNextBytes
<1>5. got' = SubSeq(Queue, coff + 1, coff + clen)
  BY <1>1, <1>2, <1>4, QueueRead
<1>6. Queue' = Queue
  BY <1>1, QueueUnchanged
<1>. QED BY <1>1, <1>2, <1>3, <1>5, <1>6 DEF Abstract!Look

(* ringbuf_clear empties the queue. *)
LEMMA ClearClears ==
  ASSUME IInv, QueueFacts, QueueFacts', Clear
  PROVE  Abstract!Clear
<1>1. popped' = pushed /\ pushed' = pushed /\ got' = got
  BY DEF Clear
<1>2. pushed' - popped' = 0
  BY <1>1 DEF QueueFacts
<1>3. Queue' = <<>>
  <2>1. Queue' = Run(popped', 0)
    BY <1>2 DEF QueueFacts, Run
  <2>2. Run(popped', 0) = <<>>
    BY DEF Run
  <2>. QED BY <2>1, <2>2
<1>. QED BY <1>1, <1>3 DEF Abstract!Clear

(* An overwriting push keeps the newest Size - 1 bytes, whichever way it is *)
(* done.                                                                    *)
LEMMA PushWrapOverwrites ==
  ASSUME IInv, QueueFacts, QueueFacts', NEW len \in Lens, PushWrap(len)
  PROVE  Abstract!Overwrite(len) /\ len \in 0..MaxBytes
<1>. USE RingAssumption
<1>1. /\ pushed + len <= MaxBytes /\ pushed' = pushed + len /\ got' = got
      /\ len > ComputeFreeSpace(head, tail)
  BY DEF PushWrap
<1>2. /\ len \in Nat /\ pushed \in Nat /\ popped \in Nat /\ Size \in Nat \ {0}
      /\ pushed - popped \in 0..Size-1
      /\ (pushed - popped) + len > Size - 1
  BY <1>1 DEF QueueFacts, IInv, CountsAgree, ComputeFreeSpace
<1>. DEFINE all == Queue \o Abstract!Fresh(len)
            n == (pushed - popped) + len
            i == n - (Size - 1) + 1
            m == pushed' - popped'
            b == popped'
<1>3. all = Run(popped, n)
  BY <1>2, QueueAppended
<1>4. n \in Nat /\ Len(all) = n
  <2>1. n \in Nat
    BY <1>2
  <2>. HIDE DEF n, all
  <2>. QED BY <1>2, <1>3, <2>1, RunIsSeq
<1>5. popped' = pushed + len - (Size - 1)
  BY PushWrapFills
<1>6. SubSeq(Run(popped, n), i, n) = Run(b, m)
  <2>1. /\ popped \in Nat /\ n \in Nat /\ i \in 1..(n + 1) /\ n \in 0..n
        /\ i <= n + 1 /\ b = popped + (i - 1) /\ m = n - i + 1
    BY <1>1, <1>2, <1>4, <1>5
  <2>. HIDE DEF n, i, b, m
  <2>. QED BY <2>1, RunPart, ZenonT(30)
<1>7. Queue' = SubSeq(all, Len(all) - (Size - 1) + 1, Len(all))
  <2>1. Queue' = Run(popped', pushed' - popped')
    BY DEF QueueFacts, Run
  <2>. QED BY <1>3, <1>4, <1>6, <2>1
<1>8. Len(all) > Size - 1
  BY <1>2, <1>4
<1>9. len \in 0..MaxBytes
  BY <1>1, <1>2
<1>. QED BY <1>1, <1>7, <1>8, <1>9 DEF Abstract!Overwrite

(* A call that loads the indices and finds nothing takes nothing. *)
LEMMA LoadTakesNothing ==
  ASSUME QueueFacts, QueueFacts', UNCHANGED <<pushed, popped>>,
         got' = <<>> \/ got' = got
  PROVE  Abstract!Discard(0) \/ UNCHANGED Abstract!vars
<1>1. Queue' = Queue
  BY QueueUnchanged
<1>2. CASE got' = <<>>
  <2>1. 0 \in 0..(pushed - popped) /\ popped = popped + 0
    BY DEF QueueFacts
  <2>2. /\ Len(Queue) = pushed - popped
        /\ Queue' = SubSeq(Queue, 0 + 1, Len(Queue))
    BY <2>1, QueueShortened
  <2>3. 0 <= Len(Queue)
    BY <2>2 DEF QueueFacts
  <2>. QED BY <1>2, <2>2, <2>3 DEF Abstract!Discard
<1>3. CASE got' = got
  BY <1>1, <1>3 DEF Abstract!vars
<1>. QED BY <1>2, <1>3

LEMMA NextImplements ==
  ASSUME IInv, IInv', [Next]_vars
  PROVE  [Abstract!Next]_Abstract!vars
<1>. USE RingAssumption
<1>1. QueueFacts /\ QueueFacts'
  BY QueueBeforeAndAfter
<1>3. ASSUME UNCHANGED <<pushed, popped>>, got' = <<>> \/ got' = got
      PROVE  [Abstract!Next]_Abstract!vars
  BY <1>1, <1>3, LoadTakesNothing DEF Abstract!Next
<1>4. CASE Producer
  <2>1. CASE \E len \in Lens, mode \in {"drop", "atomic"} : PushLoad(len, mode)
    BY <1>3, <2>1 DEF PushLoad
  <2>2. CASE PushCopy \/ PushCopyWrapped
    BY <1>3, <2>2 DEF PushCopy, PushCopyWrapped
  <2>3. CASE PushPublish
    <3>1. plen \in 0..MaxBytes
      BY DEF IInv, TypeOK, CountsAgree
    <3>. QED BY <1>1, <2>3, <3>1, PushPublishPuts DEF Abstract!Next
  <2>. QED BY <1>4, <2>1, <2>2, <2>3 DEF Producer
<1>5. CASE Consumer
  <2>1. CASE \E len \in Lens, op \in {"pop", "discard"} : PopLoad(len, op)
    BY <1>3, <2>1 DEF PopLoad, ReturnNothing
  <2>2. CASE \E len \in Lens, offset \in Offsets : PeekLoad(len, offset)
    BY <1>3, <2>2 DEF PeekLoad, ReturnNothing
  <2>3. CASE ReadCopy \/ ReadCopyWrapped
    BY <1>3, <2>3 DEF ReadCopy, ReadCopyWrapped
  <2>4. CASE PopPublish \/ PeekReturn
    <3>1. clen \in 0..MaxBytes /\ coff \in 0..MaxBytes
      <4>1. /\ clen \in 1..Size-1 /\ coff \in Nat /\ popped \in Nat
            /\ popped + coff + clen <= pushed /\ pushed \in 0..MaxBytes
        BY <2>4, ReturnedBytes DEF PopPublish, PeekReturn, IInv, TypeOK
      <4>. QED BY <4>1
    <3>. QED BY <1>1, <2>4, <3>1, PopPublishTakes, PeekReturnLooks
             DEF Abstract!Next
  <2>. QED BY <1>5, <2>1, <2>2, <2>3, <2>4 DEF Consumer
<1>6. CASE Alone
  BY <1>1, <1>6, ClearClears, PushWrapOverwrites DEF Alone, Abstract!Next
<1>7. CASE UNCHANGED vars
  BY <1>3, <1>7 DEF vars
<1>. QED BY <1>4, <1>5, <1>6, <1>7 DEF Next

LEMMA InitImplements == Init => Abstract!Init
<1>. SUFFICES ASSUME Init PROVE Abstract!Init
  OBVIOUS
<1>1. ComputeLength(head, tail) = 0 /\ pushed = 0 /\ got = <<>>
  BY DEF Init, ComputeLength
<1>2. Queue = <<>>
  BY <1>1 DEF Queue
<1>. QED BY <1>1, <1>2 DEF Abstract!Init

(* ringbuf.c is the bounded queue that ringbuf.h promises: each call takes  *)
(* effect at once, at its publishing store or its return, in every          *)
(* interleaving and for every size of the storage.                          *)
THEOREM RingImplementsQueue == Spec => ImplementsByteQueue
<1>1. IInv /\ IInv' /\ [Next]_vars => [Abstract!Next]_Abstract!vars
  BY NextImplements
<1>. QED BY <1>1, InitImplements, RingInvariant, PTL
         DEF Spec, ImplementsByteQueue, Abstract!Spec

(* The same of the ring that ringbuf_len, _free, _empty and _full look at:  *)
(* they change nothing that the queue tells.                                *)
THEOREM ObservedRingImplementsQueue == ObsSpec => ImplementsByteQueue
<1>1. ObsInit => Abstract!Init
  BY InitImplements DEF ObsInit
<1>2. ObsInv /\ ObsInv' /\ [ObsNext]_obsVars => [Abstract!Next]_Abstract!vars
  <2>. SUFFICES ASSUME IInv, IInv', [ObsNext]_obsVars
                PROVE  [Abstract!Next]_Abstract!vars
    BY DEF ObsInv
  <2>1. CASE Others
    BY <2>1, NextImplements DEF Others, Next
  <2>2. CASE ~Others
    <3>1. UNCHANGED <<pushed, popped, got>>
      BY <2>2 DEF ObsNext, LoadHead, LoadTail, Return, obsVars, vars
    <3>2. Queue' = Queue
      BY <3>1, QueueBeforeAndAfter, QueueUnchanged
    <3>. QED BY <3>1, <3>2 DEF Abstract!vars
  <2>. QED BY <2>1, <2>2
<1>. QED BY <1>1, <1>2, ObserverInvariant, PTL
         DEF ObsSpec, ImplementsByteQueue, Abstract!Spec
=============================================================================
