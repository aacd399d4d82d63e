---------------------------- MODULE MCSatTracker ----------------------------
(* Instances of the satellite tracker for TLC. *)
EXTENDS SatTracker

AIS == 9    \* a talker that is no constellation

Gsa(system_id, talker, prns) ==
  [system_id |-> system_id, talker |-> talker, prns |-> prns]

Gsv(msg_number, total_msgs, sats) ==
  [msg_number |-> msg_number, total_msgs |-> total_msgs, sats |-> sats]

(* Two sentences of a cycle of GPS, and one of GLONASS, with the receiver  *)
(* named by system id and by talker; unused and impossible numbers, and a  *)
(* satellite named twice.                                                  *)
MixedGsa == {Gsa(0, GP, <<1>>), Gsa(1, GN, <<9, 1>>), Gsa(0, GL, <<1>>),
             Gsa(0, AIS, <<0, 16>>), Gsa(5, GN, <<2, 2>>)}

(* A satellite in each of two sentences. *)
TwoGsa == {Gsa(0, GP, <<1>>), Gsa(0, GL, <<2>>)}

(* Numbers above the last whole byte of a row. *)
HighGsa == {Gsa(0, GP, <<9>>), Gsa(0, GL, <<1>>), Gsa(0, GA, <<2>>)}

(* Sequences of one, two and three messages, with a change of satellites.  *)
NumberedGsv == {Gsv(1, 1, <<1, 2, 3>>), Gsv(1, 1, <<>>),
                Gsv(1, 2, <<1>>), Gsv(2, 2, <<2>>), Gsv(2, 2, <<3>>),
                Gsv(1, 3, <<1>>), Gsv(2, 3, <<2>>), Gsv(3, 3, <<3>>),
                Gsv(2, 1, <<4>>)}

NoSentences == {}

(* Bound: the two lists share nothing but the last time seen, so that GSV  *)
(* sentences are followed only while no satellite is active.               *)
OneListAtATime ==
  \/ sats_in_view_total_sentences = 0
  \/ sats_active_info = <<>> /\ now <= Start + 1
=============================================================================
