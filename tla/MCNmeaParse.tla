---------------------------- MODULE MCNmeaParse ----------------------------
(***************************************************************************)
(* Instances of NmeaParse for TLC.  An int has fewer bits than it has, but *)
(* as there, the largest power of ten in an int is the largest in a        *)
(* uint32_t too: that many digits behind the point, and no more, fit.      *)
(***************************************************************************)
EXTENDS NmeaParse

Chars(text) == [i \in 1..Len(text) |-> SubSeq(text, i, i)]
S(talker, name, text) == [talker |-> talker, type |-> name, body |-> Chars(text)]

(* The sentences with one of the texts between two that are given. *)
Each(talker, name, before, texts, after) ==
  {[talker |-> talker, type |-> name, body |-> Chars(before) \o f \o Chars(after)] :
     f \in texts}
Strings(texts) == {Chars(text) : text \in texts}

(* Every text of up to four characters, and the ends of the ranges. *)
Signs == {"0", "1", "9", ".", "-", "+", "x"}
Texts(n) == UNION {[1..k -> Signs] : k \in 0..n}
Edges == Strings(
  {"4095", "4096", "4097", "-4095", "-4096", "-4097", "8191", "8192", "8199", "+4095",
   "409.5", "409.6", "-409.5", "-409.6", "4095.0", "40.95", "-40.96", "4.095",
   "4.096", "0.999", "819.1", "819.2", "8192.", "4.0000", "1.2.3", "255", "256",
   "2047", "2048", "-128", "-129", "127", "128"})

Numbers ==
  Each("GP", "VTG", "1.5,T,,M,", Texts(4) \union Edges, ",N,0.5,K,A")
  \union Each("GP", "ZDA", "101112,01,12,2026,", Texts(1) \union Edges, ",30")
  \union Each("GP", "GSV", "1,1,1,7,", Texts(1) \union Edges, ",359,50")
  \union Each("GN", "GNS", "101112,,,,,AANX,12,1.1,5.5,-2.5,3.0,", Edges, ",V")
  \union UNION {Each("GP", "GGA", "101112,,,,,1,08,0.9,", {a}, tail) :
                  a \in Strings({"", "5.5", "-40.95", "409.5", "12.", ".125", "-1.75"}),
                  tail \in {",M,,M,,", ",M,-2.25,M,,", ",M,409.4,M,2.5,0120",
                            ",M,4.0,M,,", ",M,1.875,M,,", ",M,-409.5,M,,"}}

Clocks == Strings({"", "101112", "10111", "1011x2", "101112.", "101112.5", "101112.05",
                   "101112.123456", "101112.1234567", "101112.12x4", "101112x5",
                   "235960", "235961", "236000", "240000"})
Places == {",,,", "130.5,N,59.9,W", "100.25,S,399.5,E", "-2.5,S,.5,W", "1.5,x,2.5,",
           "x,N,12.,E", "4095.,N,0.125,W"}
Positions == UNION {Each("GP", "GLL", place, {Chars(",") \o c : c \in Clocks}, ",A,D") :
                      place \in Places}
Errors == Each("GP", "GST", "", Clocks, ",0.5,1.5,.5,90.0,1.0,2.0,3.5")
          \union Each("GP", "GBS", "", Clocks, ",0.5,1.5,.5,257,1.0,2.0,3.5,X")

(* Blocks of GSV sentences: whole, empty, and with a number that is none;  *)
(* and what may come after the last.                                       *)
SatBlocks == Strings({",7,40,083,46", ",300,-5,359,", ",,,,", ",x,1,2,3"})
Tails == Strings({"", ",9", ",9,10"})
Views == {[talker |-> "GP", type |-> "GSV",
           body |-> Chars("2,1,07") \o FlattenSeq(blocks) \o tail] :
            blocks \in UNION {[1..n -> SatBlocks] : n \in 0..4}, tail \in Tails}

Active == Each("GN", "GSA", "A,", Strings({"3,1,,3,x,300,,,,,,,12", "4,1,2,3,4,5,6,7,8,9,10,11,12",
                                          "1,,,,,,,,,,,,"}), ",1.5,1.0,.9,1")
ModeLists == Each("GN", "GNS", "101112,,,,,", Strings({"", "A", "ANX", "AADFNX"}), ",12,1.1,5.5,,,")
Ships == Each("AI", "VDM", "2,1,3,", Strings({"A,15", "B,15Muq", ",15M", "A,"}), ",0")

(* Empty fields, too few of them and too many. *)
Commas == UNION {Each("GP", name, "", {[i \in 1..n |-> ","] : n \in 0..21}, "") :
                   name \in SentenceTypes}
Unknown == {S("GP", "XYZ", "1,2"), S("ZZ", "GGA", "1,2")}

(* ZDA sentences with and without a century, a date, a time; a day that is *)
(* one when it has been made a byte.  RMC sentences with and without dates.*)
Zdas == Each("GP", "ZDA", "101112,", Strings({"01,12,2026", "31,12,1999", "01,12,99", "01,12,",
                                              "32,12,2026", "257,12,1903", "01,13,1903"}), ",-05,30")
        \union {S("GP", "ZDA", "250000,01,12,1903,,")}
Rmcs == Each("GP", "RMC", "101112.5,A,130.5,N,59.9,W,1.5,90.0,",
             Strings({"020325", "310399", "320325", "0203", ""}), ",,,A,V")

(* Sentences for one structure, one after the other. *)
Whole == {S("GP", "RMC", "101112,A,130.5,N,59.9,W,1.5,90.0,020325,1.5,E,A,S"),
          S("GP", "GSV", "1,1,04,7,40,083,46,8,,,,9,1,2,3,10,1,2,3,5"),
          S("GP", "GNS", "101112,,,,,AA,12,1.1,5.5,-2.5,3.0,7,V"),
          S("GP", "GSA", "A,3,1,2,3,,,,,,,,,,1.5,1.0,.9,4"),
          S("GP", "GGA", "101112,,,,,4,08,0.9,5.5,M,,M,,0120"),
          S("AI", "VDM", "2,1,3,A,15,2"), S("GP", "VTG", "1.5,T,,M,1.5,N,.5,K,A"),
          S("GP", "GLL", "130.5,N,59.9,W,101112,A,D"), S("GP", "ZDA", "101112,01,12,2026,-05,30"),
          S("GP", "GBS", "101112,.5,.5,.5,12,.5,.5,.5")}
Bare == UNION {Each(s.talker, s.type, "", {[i \in 1..MinFields[s.type] - 1 |-> ","]}, "") :
                 s \in Whole}

MCInputs == {<<s>> : s \in UNION {Numbers, Positions, Errors, Views, Active, ModeLists, Ships,
                                  Commas, Unknown}}
            \union {<<z, y, r>> : z \in Zdas, y \in Zdas \union Rmcs, r \in Rmcs}
            \union {<<s, t, s>> : s \in Whole, t \in Bare \union Unknown}

(* One or two satellites with a signal id behind them. *)
Signals == {<<s>> : s \in Each("GP", "GSV", "1,1,01",
                               Strings({",7,40,083,46", ",7,40,083,46,8,,,"}), ",1")}

(* As many decimals as a scale can hold, and more. *)
LongFractions == {<<s>> : s \in Each("GP", "VTG", "1.5,T,,M,",
                                     Strings({"0.5", "0.001", "0.0001"}), ",N,0.5,K,A")}
=============================================================================
