---------------------------- MODULE ActiveSets ----------------------------
(***************************************************************************)
(* What sats_tracking.h and sats_tracking_types.h promise of the active    *)
(* satellites: "Called when a full cycle of GSA (Active Satellites)        *)
(* messages is complete".  A cycle is what sentences that repeat none of   *)
(* the satellites before them report, in their order; the application, if  *)
(* it registered a callback, is given the whole cycle, or as much of it as *)
(* there is room for, before the next one is begun.                        *)
(***************************************************************************)
EXTENDS Integers, Sequences, SequencesExt

CONSTANTS Satellite,    \* a PRN of a constellation
          Room          \* how many the application can be given

VARIABLES collected,    \* the cycle so far
          listening,    \* whether a callback is registered
          delivered     \* the lists given to the application in this step

vars == <<collected, listening, delivered>>

Init == collected = <<>> /\ listening = FALSE /\ delivered = {}

Register == listening' \in BOOLEAN /\ delivered' = {} /\ UNCHANGED collected

(* What a step adds behind the cycle. *)
Added == {collected'[i] : i \in Len(collected) + 1 .. Len(collected')}

(* A sentence adds reports of satellites that the cycle has not. *)
Collect == /\ collected' \in Seq(Satellite)
           /\ IsPrefix(collected, collected')
           /\ Added \intersect ToSet(collected) = {}
           /\ delivered' = {}
           /\ UNCHANGED listening

(* What the application is given of the cycle. *)
Given == SubSeq(collected, 1, IF Len(collected) < Room THEN Len(collected) ELSE Room)

(* The cycle is over: it is handed over, and a new one begins with the     *)
(* satellites of the sentence that ended it, if it was one.                *)
HandOver == /\ collected # <<>>
            /\ delivered' = IF listening THEN {Given} ELSE {}
            /\ collected' \in Seq(Satellite)
            /\ UNCHANGED listening

(* The step after a delivery that changes nothing else. *)
Quiet == delivered' = {} /\ UNCHANGED <<collected, listening>>

Next == Register \/ Collect \/ HandOver \/ Quiet

Spec == Init /\ [][Next]_vars
=============================================================================
