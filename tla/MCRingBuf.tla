------------------------------ MODULE MCRingBuf ------------------------------
(* Instances of RingBuf, with its observers, for TLC. *)
EXTENDS RingObserver

(* Requests from an empty one to one longer than the whole storage. *)
MCLens == 0..Size+1

(* Offsets inside the buffer and one beyond anything it can hold. *)
MCOffsets == {0, 1, Size}
=============================================================================
