---------------------------- MODULE RingObserver ----------------------------
(***************************************************************************)
(* The observer functions of src/src/ringbuf.c (ringbuf_len, ringbuf_free, *)
(* ringbuf_empty, ringbuf_full): two separate acquire loads, of head and   *)
(* then of tail, with the other thread running in between.                 *)
(*                                                                         *)
(* A caller is the producer or the consumer between two of its own calls:  *)
(* its loads are those of RingBuf.                                         *)
(***************************************************************************)
EXTENDS RingBuf

VARIABLES who,          \* the caller in progress, or "none"
          oat,          \* "idle", "head" loaded, or "done"
          ohead, otail  \* what it loaded

observer == <<who, oat, ohead, otail>>
obsVars == <<vars, observer>>

(* What the four functions return for the indices loaded. *)
ObsLen == ComputeLength(ohead, otail)
ObsFreeWithoutGap == Size - ObsLen        \* a mistake
ObsFree == ComputeFreeSpace(ohead, otail)
ObsEmpty == ohead = otail
ObsFull == Advance(ohead, 1) = otail

ObsInit == /\ Init
           /\ who = "none" /\ oat = "idle"
           /\ ohead = 0 /\ otail = 0

(* The load of head. The consumer, and only it, can find an old one. *)
LoadHead(caller) ==
  /\ who = "none"
  /\ caller = "producer" => ppc = "idle"
  /\ caller = "consumer" => cpc = "idle"
  /\ \E hd \in (IF caller = "consumer" THEN headSeen ELSE {head}) :
       /\ ohead' = hd
       /\ IF caller = "consumer" THEN HeadLoaded(hd) ELSE UNCHANGED headSeen
  /\ who' = caller /\ oat' = "head"
  /\ UNCHANGED <<head, tail, buf, tailSeen, producer, consumer, got, pushed,
                 popped, otail>>

(* The load of tail. The producer, and only it, can find an old one. *)
LoadTail ==
  /\ oat = "head"
  /\ \E tl \in (IF who = "producer" THEN tailSeen ELSE {tail}) :
       /\ otail' = tl
       /\ IF who = "producer"
          THEN tailSeen' = {u \in tailSeen : ComputeLength(head, u)
                                               <= ComputeLength(head, tl)}
          ELSE UNCHANGED tailSeen
  /\ oat' = "done"
  /\ UNCHANGED <<head, tail, buf, headSeen, producer, consumer, got, pushed,
                 popped, who, ohead>>

Return == /\ oat = "done"
          /\ who' = "none" /\ oat' = "idle"
          /\ ohead' = 0 /\ otail' = 0
          /\ UNCHANGED vars

(* The rest of the system; a caller is busy with its own call meanwhile,    *)
(* and what must be done alone is not done during one.                      *)
Others == /\ \/ Producer /\ who # "producer"
             \/ Consumer /\ who # "consumer"
             \/ Alone /\ who = "none"
          /\ UNCHANGED <<who, oat, ohead, otail>>

ObsNext == \/ \E caller \in {"producer", "consumer"} : LoadHead(caller)
           \/ LoadTail \/ Return \/ Others

ObsSpec == ObsInit /\ [][ObsNext]_obsVars
-----------------------------------------------------------------------------
(* The producer never finds more room than there is, nor the consumer more  *)
(* bytes, when the other thread moves its index between or after the loads: *)
(* tiny_nmea_work decides on ringbuf_empty and ringbuf_len while the        *)
(* producer is running.                                                     *)
OwnSideIsConservative ==
  oat = "done" =>
    /\ who = "producer" => /\ ObsFree <= ComputeFreeSpace(head, tail)
                           /\ ObsEmpty => head = tail
    /\ who = "consumer" => /\ ObsLen <= ComputeLength(head, tail)
                           /\ ~ObsEmpty => head # tail
                           /\ ObsFull => ComputeLength(head, tail) = Size - 1
=============================================================================
