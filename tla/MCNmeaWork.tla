----------------------------- MODULE MCNmeaWork -----------------------------
(* Instances of NmeaWork for TLC: the pieces senders transmit. *)
EXTENDS NmeaWork

Good   == <<"$", "G", ",", "1", "*", "0", "0", "E">>
Full   == <<"$", "G", ",", "1", "0", "0", "*", "0", "0", "E">>
Plain  == <<"$", "G", ",", "0", "E", "E">>
Short  == <<"$", "G", ",", "0", "E">>
Zda1   == <<"$", "Z", ",", "1", "E">>
Zda0   == <<"$", "Z", ",", "0", "E">>
ZdaBad == <<"$", "Z", ",", "G", "E">>
Rmc    == <<"$", "R", ",", "0", "E">>

(* Sentences without faults, of every kind and of the greatest length. *)
CleanPlans == {<<Good, Plain, Zda1>>, <<Zda1, Rmc, Good>>,
               <<Full, Good, Full>>, <<Zda1, ZdaBad, Rmc, Zda0, Rmc>>}

(* Faults: noise between sentences, no end, a false start, an unknown type, *)
(* no fields, a NUL in them, a wrong, a short, a long and a non-hexadecimal *)
(* checksum, and a sentence too long, with and without an asterisk.         *)
Noise    == <<"0", "*", "E">>
Trunc    == <<"$", "G", ",", "1">>
FalseGo  == <<"$", "$", "G">>
Unknown  == <<"$", "0", ",", "1", "E">>
Empty    == <<"$", "G", ",", "E">>
Nul      == <<"$", "G", ",", "N", "1", "E", "N">>
BadSum   == <<"$", "G", ",", "1", "*", "0", "1", "E">>
ShortSum == <<"$", "G", ",", "1", "*", "0", "E">>
LongSum  == <<"$", "G", ",", "1", "*", "0", "0", "0", "E">>
BadHex   == <<"$", "G", ",", "1", "*", "G", "0", "E">>
NoEnd    == <<"$", "G", ",", "1", "0", "0", "0", "0", "0", "0", "0">>
NoEndSum == <<"$", "G", ",", "1", "*", "0", "0", "0", "0", "0", "0">>

Faults == {Noise, Trunc, FalseGo, Unknown, Empty, Nul, BadSum, ShortSum,
           LongSum, BadHex, NoEnd, NoEndSum}

NoisyPlans == {<<f, Short, Good, Short>> : f \in Faults}

AllPlans == CleanPlans \cup NoisyPlans

(* Sentences whose meaning depends on an earlier one. *)
DatedPlans == {<<Zda1, Rmc, ZdaBad, Rmc>>, <<Zda1, Zda0, Rmc, Empty>>}

(* A sentence that breaks off before a whole one. *)
PartialPlans == {<<Trunc, Good>>}
=============================================================================
