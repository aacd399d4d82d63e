------------------------ MODULE RingObserver_proofs ------------------------
(***************************************************************************)
(* Proofs about RingObserver: the invariant of the ring holds with         *)
(* observers running, and a thread may trust what one tells it.            *)
(***************************************************************************)
EXTENDS RingObserver, RingBuf_proofs

(* What an observer loaded stays within reach of its thread: nothing but a *)
(* load of its own makes a thread forget an index.                         *)
LoadedIsSeen ==
  /\ who = "none" <=> oat = "idle"
  /\ who = "producer" => ohead = head
  /\ who = "producer" /\ oat = "done" => otail \in tailSeen
  /\ who = "consumer" => ohead \in headSeen
  /\ who = "consumer" /\ oat = "done" => otail = tail

ObsInv == IInv /\ LoadedIsSeen
-----------------------------------------------------------------------------
(* A step of one thread leaves its reading index, and adds to what the other *)
(* can load.                                                                 *)
LEMMA ProducerKeeps ==
  ASSUME Producer
  PROVE  tail' = tail /\ headSeen \subseteq headSeen'
<1>1. CASE \E len \in Lens, mode \in {"drop", "atomic"} : PushLoad(len, mode)
  BY <1>1 DEF PushLoad
<1>2. CASE PushCopy \/ PushCopyWrapped
  BY <1>2 DEF PushCopy, PushCopyWrapped
<1>3. CASE PushPublish
  BY <1>3 DEF PushPublish
<1>. QED BY <1>1, <1>2, <1>3 DEF Producer

LEMMA ConsumerKeeps ==
  ASSUME Consumer
  PROVE  head' = head /\ tailSeen \subseteq tailSeen'
<1>1. CASE \E len \in Lens, op \in {"pop", "discard"} : PopLoad(len, op)
  BY <1>1 DEF PopLoad
<1>2. CASE \E len \in Lens, offset \in Offsets : PeekLoad(len, offset)
  BY <1>2 DEF PeekLoad
<1>3. CASE ReadCopy \/ ReadCopyWrapped \/ PeekReturn
  BY <1>3 DEF ReadCopy, ReadCopyWrapped, PeekReturn
<1>4. CASE PopPublish
  BY <1>4 DEF PopPublish
<1>. QED BY <1>1, <1>2, <1>3, <1>4 DEF Consumer

(* A thread that forgets the indices older than one it loaded, and does    *)
(* nothing else, keeps the invariant of the ring.                          *)
LEMMA LoadKeeps ==
  ASSUME IInv,
         UNCHANGED <<head, tail, buf, producer, consumer, got, pushed, popped>>,
         tailSeen' \subseteq tailSeen, tail \in tailSeen',
         headSeen' \subseteq headSeen, head \in headSeen'
  PROVE  IInv'
<1>1. TypeOK' /\ CountsAgree' /\ ProducerLocals' /\ ConsumerLocals'
  BY DEF IInv, TypeOK, CountsAgree, ProducerLocals, ConsumerLocals, producer,
         consumer, ComputeLength, SlotAfter, Slots
<1>2. SeenIndices'
  BY DEF IInv, SeenIndices, producer, consumer, ComputeLength
<1>3. QueueInOrder' /\ CopiedIn' /\ CopiedOut'
  BY DEF IInv, QueueInOrder, CopiedIn, CopiedOut, ReadsNextBytes, producer,
         consumer, ComputeLength, Slots
<1>. QED BY <1>1, <1>2, <1>3 DEF IInv
-----------------------------------------------------------------------------
LEMMA LoadHeadInvariant ==
  ASSUME ObsInv, NEW caller \in {"producer", "consumer"}, LoadHead(caller)
  PROVE  ObsInv'
<1>1. PICK hd \in (IF caller = "consumer" THEN headSeen ELSE {head}) :
        /\ ohead' = hd
        /\ IF caller = "consumer" THEN HeadLoaded(hd) ELSE UNCHANGED headSeen
  BY DEF LoadHead
<1>2. /\ who' = caller /\ oat' = "head"
      /\ UNCHANGED <<head, tail, buf, tailSeen, producer, consumer, got,
                     pushed, popped>>
  BY DEF LoadHead
<1>3. /\ tail \in tailSeen /\ head \in headSeen
      /\ \A u \in headSeen : ComputeLength(u, tail) \in 0..Size-1
      /\ \A u \in headSeen : ComputeLength(u, tail) <= ComputeLength(head, tail)
  BY LengthInRange DEF ObsInv, IInv, TypeOK, SeenIndices
<1>4. headSeen' \subseteq headSeen /\ head \in headSeen'
  BY <1>1, <1>3 DEF HeadLoaded
<1>5. caller = "consumer" => hd \in headSeen'
  BY <1>1, <1>3 DEF HeadLoaded
<1>6. IInv'
  BY <1>2, <1>3, <1>4, LoadKeeps DEF ObsInv
<1>7. LoadedIsSeen'
  BY <1>1, <1>2, <1>5 DEF LoadedIsSeen
<1>. QED BY <1>6, <1>7 DEF ObsInv

LEMMA LoadTailInvariant ==
  ASSUME ObsInv, LoadTail
  PROVE  ObsInv'
<1>1. PICK tl \in (IF who = "producer" THEN tailSeen ELSE {tail}) :
        /\ otail' = tl
        /\ IF who = "producer"
           THEN tailSeen' = {u \in tailSeen : ComputeLength(head, u)
                                                <= ComputeLength(head, tl)}
           ELSE UNCHANGED tailSeen
  BY DEF LoadTail
<1>2. /\ oat = "head" /\ oat' = "done"
      /\ UNCHANGED <<head, tail, buf, headSeen, producer, consumer, got,
                     pushed, popped, who, ohead>>
  BY DEF LoadTail
<1>3. /\ tail \in tailSeen /\ head \in headSeen
      /\ \A u \in tailSeen : ComputeLength(head, u) \in 0..Size-1
      /\ \A u \in tailSeen : ComputeLength(head, tail) <= ComputeLength(head, u)
  BY LengthInRange DEF ObsInv, IInv, TypeOK, SeenIndices
<1>4. tailSeen' \subseteq tailSeen /\ tail \in tailSeen'
  BY <1>1, <1>3
<1>5. who = "producer" => tl \in tailSeen'
  BY <1>1, <1>3
<1>6. IInv'
  BY <1>2, <1>3, <1>4, LoadKeeps DEF ObsInv
<1>7. LoadedIsSeen'
  BY <1>1, <1>2, <1>5 DEF ObsInv, LoadedIsSeen
<1>. QED BY <1>6, <1>7 DEF ObsInv

LEMMA OthersInvariant ==
  ASSUME ObsInv, Others
  PROVE  ObsInv'
<1>1. UNCHANGED <<who, oat, ohead, otail>>
  BY DEF Others
<1>2. IInv'
  BY NextInvariant DEF ObsInv, Others, Next
<1>3. LoadedIsSeen'
  <2>1. CASE Producer /\ who # "producer"
    BY <1>1, <2>1, ProducerKeeps DEF ObsInv, LoadedIsSeen
  <2>2. CASE Consumer /\ who # "consumer"
    BY <1>1, <2>2, ConsumerKeeps DEF ObsInv, LoadedIsSeen
  <2>3. CASE Alone /\ who = "none"
    BY <1>1, <2>3 DEF ObsInv, LoadedIsSeen
  <2>. QED BY <2>1, <2>2, <2>3 DEF Others
<1>. QED BY <1>2, <1>3 DEF ObsInv

(* The invariant of the ring holds with observers in progress, and what one *)
(* has loaded is an index that its thread may load still.                   *)
THEOREM ObserverInvariant == ObsSpec => []ObsInv
<1>1. ObsInit => ObsInv
  BY InitInvariant DEF ObsInit, ObsInv, LoadedIsSeen
<1>2. ObsInv /\ [ObsNext]_obsVars => ObsInv'
  <2>. SUFFICES ASSUME ObsInv, [ObsNext]_obsVars
                PROVE  ObsInv'
    OBVIOUS
  <2>1. CASE \E caller \in {"producer", "consumer"} : LoadHead(caller)
    BY <2>1, LoadHeadInvariant
  <2>2. CASE LoadTail
    BY <2>2, LoadTailInvariant
  <2>3. CASE Return
    <3>1. IInv'
      BY <2>3, StutterInvariant DEF ObsInv, Return
    <3>2. LoadedIsSeen'
      BY <2>3 DEF Return, LoadedIsSeen
    <3>. QED BY <3>1, <3>2 DEF ObsInv
  <2>4. CASE Others
    BY <2>4, OthersInvariant
  <2>5. CASE UNCHANGED obsVars
    <3>1. IInv'
      BY <2>5, StutterInvariant DEF ObsInv, obsVars
    <3>2. LoadedIsSeen'
      BY <2>5 DEF ObsInv, LoadedIsSeen, obsVars, observer, vars
    <3>. QED BY <3>1, <3>2 DEF ObsInv
  <2>. QED BY <2>1, <2>2, <2>3, <2>4, <2>5 DEF ObsNext
<1>. QED BY <1>1, <1>2, PTL DEF ObsSpec

(* ringbuf_len, _free, _empty and _full never promise the producer room, or *)
(* the consumer bytes, that are not there, whenever the other thread moves  *)
(* its index, for every size of the storage.                                *)
THEOREM ObserversAreConservative == ObsSpec => []OwnSideIsConservative
<1>1. ObsInv => OwnSideIsConservative
  <2>. SUFFICES ASSUME ObsInv, oat = "done" PROVE OwnSideIsConservative
    BY DEF OwnSideIsConservative
  <2>. USE RingAssumption
  <2>1. /\ head \in Slots /\ tail \in Slots
        /\ tailSeen \subseteq Slots /\ headSeen \subseteq Slots
    BY DEF ObsInv, IInv, TypeOK
  <2>2. ASSUME who = "producer"
        PROVE  /\ ObsFree <= ComputeFreeSpace(head, tail)
               /\ ObsEmpty => head = tail
    <3>1. /\ ohead = head /\ otail \in Slots
          /\ ComputeLength(head, tail) <= ComputeLength(head, otail)
      BY <2>1, <2>2 DEF ObsInv, LoadedIsSeen, IInv, SeenIndices
    <3>. QED BY <2>1, <3>1 DEF ObsFree, ObsEmpty, ComputeFreeSpace,
                               ComputeLength, Slots
  <2>3. ASSUME who = "consumer"
        PROVE  /\ ObsLen <= ComputeLength(head, tail)
               /\ ~ObsEmpty => head # tail
               /\ ObsFull => ComputeLength(head, tail) = Size - 1
    <3>1. /\ otail = tail /\ ohead \in Slots
          /\ ComputeLength(ohead, tail) <= ComputeLength(head, tail)
      BY <2>1, <2>3 DEF ObsInv, LoadedIsSeen, IInv, SeenIndices
    <3>2. ComputeLength(head, tail) \in 0..Size-1
      BY <2>1, LengthInRange
    <3>3. Advance(ohead, 1) = tail => ComputeLength(ohead, tail) = Size - 1
      <4>1. Advance(ohead, 1) = SlotAfter(ohead, 1)
        BY <3>1, AdvanceWraps
      <4>. QED BY <2>1, <3>1, <4>1 DEF SlotAfter, ComputeLength, Slots
    <3>4. ObsFull => ComputeLength(head, tail) = Size - 1
      BY <3>1, <3>2, <3>3, <2>1, LengthInRange DEF ObsFull
    <3>5. ~ObsEmpty => head # tail
      BY <2>1, <3>1 DEF ObsEmpty, ComputeLength, Slots
    <3>. QED BY <3>1, <3>4, <3>5 DEF ObsLen
  <2>. QED BY <2>2, <2>3 DEF OwnSideIsConservative
<1>. QED BY <1>1, ObserverInvariant, PTL
=============================================================================
