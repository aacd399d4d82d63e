----------------------------- MODULE FieldParse -----------------------------
(***************************************************************************)
(* The fields of a sentence, src/src/parse_sentence_fields.c: cutting the  *)
(* text at its commas, and reading integers, fixed-point numbers, times,   *)
(* dates and positions.                                                    *)
(*                                                                         *)
(* A field is a sequence of characters, shorter than 256 of them.  A       *)
(* parser that returns false gives <<>>, and one that stores an integer    *)
(* and returns true gives the sequence of that integer.  A fraction has    *)
(* fewer than 32 digits, the bits of a scale: with as many the scale is 0, *)
(* by which the code divides, and what that does is up to the processor.   *)
(***************************************************************************)
EXTENDS FixedPoint, Sequences, SequencesExt

CONSTANT INT16_MAX      \* 32767

ASSUME FieldAssumption == INT16_MAX \in Nat \ {0}

Numerals == <<"0", "1", "2", "3", "4", "5", "6", "7", "8", "9">>
Digits == ToSet(Numerals)
DigitOf == [c \in Digits |-> (CHOOSE i \in 1..10 : Numerals[i] = c) - 1]
AllDigits(s) == \A i \in DOMAIN s : s[i] \in Digits

(* The value of digits, with no bound. *)
Numeral(s) ==
  LET upTo[n \in 0..Len(s)] ==
        IF n = 0 THEN 0 ELSE 10 * upTo[n - 1] + DigitOf[s[n]]
  IN upTo[Len(s)]

(* Narrowing to the types of the fields of a structure. *)
UINT16_MAX == 2 * INT16_MAX + 1
Uint8(n) == n % 256
Int8(n) == IF Uint8(n) > 127 THEN Uint8(n) - 256 ELSE Uint8(n)
Uint16(n) == n % (UINT16_MAX + 1)
Int16(n) == LET u == Uint16(n)
            IN IF u > INT16_MAX THEN u - (UINT16_MAX + 1) ELSE u

(* One with n zeros behind it. *)
TenTo(n) ==
  LET power[i \in 0..n] == IF i = 0 THEN 1 ELSE 10 * power[i - 1]
  IN power[n]

(* The numbers of a set that are not above n, in order. *)
InOrder(P, n) ==
  LET upTo[k \in 0..n] ==
        IF k = 0 THEN <<>>
        ELSE IF k \in P THEN Append(upTo[k - 1], k) ELSE upTo[k - 1]
  IN upTo[n]
-----------------------------------------------------------------------------
(* A mistake: a comma at the end is followed by nothing, not by an empty   *)
(* field.                                                                  *)
TokenizeWithoutLast(sentence, max_fields) ==
  LET commas == InOrder({i \in DOMAIN sentence : sentence[i] = ","}, Len(sentence))
      ends   == IF sentence # <<>> /\ Last(sentence) = "," THEN commas
                ELSE Append(commas, Len(sentence) + 1)
      count  == Min({Len(ends), max_fields})
      start(k) == IF k = 1 THEN 1 ELSE ends[k - 1] + 1
  IN IF sentence = <<>> THEN <<>>
     ELSE [k \in 1..count |-> SubSeq(sentence, start(k), ends[k] - 1)]

tokenize(sentence, max_fields) ==
  LET commas == InOrder({i \in DOMAIN sentence : sentence[i] = ","}, Len(sentence))
      ends   == Append(commas, Len(sentence) + 1)
      count  == Min({Len(ends), max_fields})
      start(k) == IF k = 1 THEN 1 ELSE ends[k - 1] + 1
  IN IF sentence = <<>> THEN <<>>
     ELSE [k \in 1..count |-> SubSeq(sentence, start(k), ends[k] - 1)]
-----------------------------------------------------------------------------
(* Numbers.                                                                *)

OverflowsOffByOne(val, digit) == val > UINT_MAX \div 10     \* a mistake

(* Ten times val and a digit do not fit in a uint32_t. *)
WouldOverflow(val, digit) ==
  \/ val > UINT_MAX \div 10
  \/ val = UINT_MAX \div 10 /\ digit > UINT_MAX % 10

parse_uint(f) ==
  LET upTo[n \in 0..Len(f)] ==
        IF n = 0 THEN <<0>>
        ELSE IF upTo[n - 1] = <<>> \/ WouldOverflow(upTo[n - 1][1], DigitOf[f[n]])
        THEN <<>> ELSE <<ToUint(10 * upTo[n - 1][1] + DigitOf[f[n]])>>
  IN IF f = <<>> \/ ~AllDigits(f) THEN <<>> ELSE upTo[Len(f)]

Signless(f) == IF f # <<>> /\ f[1] \in {"-", "+"} THEN Tail(f) ELSE f
IsNegative(f) == f # <<>> /\ f[1] = "-"

LimitWithoutMin(negative) == INT_MAX                        \* a mistake

(* The largest magnitude of a number with that sign. *)
Limit(negative) == IF negative THEN INT_MAX + 1 ELSE INT_MAX

(* Of the most negative number, its negative is negated: in two's          *)
(* complement, without a trap, that gives the number itself.               *)
parse_int(f) ==
  LET uval == parse_uint(Signless(f)) IN
  IF uval = <<>> \/ uval[1] > Limit(IsNegative(f)) THEN <<>>
  ELSE <<IF IsNegative(f) THEN ToInt(-ToInt(uval[1])) ELSE ToInt(uval[1])>>

parse_char(f) == IF f = <<>> THEN <<>> ELSE <<f[1]>>

(* A part of a number, before or after the point, may be missing. *)
Part(s) == IF s = <<>> THEN <<0>> ELSE parse_uint(s)

TooLargeOnce(integer_val, frac_val, scale) ==
  integer_val > INT_MAX \div scale                          \* a mistake

(* The two checks of the sum; the second is of a sum that may have wrapped. *)
TooLarge(integer_val, frac_val, scale) ==
  \/ integer_val > INT_MAX \div scale
  \/ ToUint(integer_val * scale + frac_val) > INT_MAX

(* The number of both parts, unless one is none or they are too large. *)
Combined(negative, integer, frac, scale) ==
  IF integer = <<>> \/ frac = <<>> \/ TooLarge(integer[1], frac[1], scale)
  THEN NoNumber
  ELSE LET combined == ToUint(integer[1] * scale + frac[1])
       IN [value |-> IF negative THEN -combined ELSE combined, scale |-> ToInt(scale)]

(* Without a point everything is taken for the digits behind it.           *)
parse_fixedpoint_float(f) ==
  LET body  == Signless(f)
      point == SelectInSeq(body, LAMBDA c : c = ".")
  IN IF body \in {<<>>, <<".">>} THEN NoNumber
     ELSE Combined(IsNegative(f), Part(SubSeq(body, 1, point - 1)),
                   Part(SubSeq(body, point + 1, Len(body))),
                   ToUint(TenTo(Len(body) - point)))
-----------------------------------------------------------------------------
(* Times, dates and positions.                                             *)

Pair(f, i) == 10 * DigitOf[f[i]] + DigitOf[f[i + 1]]
HasSixDigits(f) == Len(f) >= 6 /\ AllDigits(SubSeq(f, 1, 6))

NoTime == [hours |-> 0, minutes |-> 0, seconds |-> 0, microseconds |-> 0,
           valid |-> FALSE]
NoDate == [day |-> 0, month |-> 0, year |-> 0, year_yy |-> 0, valid |-> FALSE]

LeadingUnscaled(s) ==                                       \* a mistake
  LET digits == Max({n \in 0..Min({6, Len(s)}) : AllDigits(SubSeq(s, 1, n))})
  IN Numeral(SubSeq(s, 1, digits))

(* The digits at the start of s, six at most, in millionths. *)
Millionths(s) ==
  LET digits == Max({n \in 0..Min({6, Len(s)}) : AllDigits(SubSeq(s, 1, n))})
  IN Numeral(SubSeq(s, 1, digits)) * TenTo(6 - digits)

(* What comes after the digits, and a time out of range, is left as it is; *)
(* the latter with valid off.                                              *)
parse_time(f) ==
  LET t == [hours |-> Pair(f, 1), minutes |-> Pair(f, 3), seconds |-> Pair(f, 5),
            microseconds |-> 0, valid |-> FALSE] IN
  IF ~HasSixDigits(f) THEN NoTime
  ELSE IF t.hours > 23 \/ t.minutes > 59 \/ t.seconds > 60 THEN t
  ELSE [t EXCEPT !.valid = TRUE,
                 !.microseconds = IF Len(f) > 7 /\ f[7] = "."
                                  THEN Millionths(SubSeq(f, 8, Len(f))) ELSE 0]

InCalendar(day, month) == day \in 1..31 /\ month \in 1..12

parse_date(f) ==
  IF ~HasSixDigits(f) THEN NoDate
  ELSE [day |-> Pair(f, 1), month |-> Pair(f, 3), year |-> 0,
        year_yy |-> Pair(f, 5), valid |-> InCalendar(Pair(f, 1), Pair(f, 3))]

(* The number stays when the hemisphere is not one of the letters. *)
Coordinate(f, dir, letters) ==
  LET raw == parse_fixedpoint_float(f) IN
  [raw |-> raw,
   hemisphere |-> IF float_valid(raw) /\ dir # <<>> /\ dir[1] \in letters
                  THEN dir[1] ELSE NUL]

parse_latitude(f, dir) == Coordinate(f, dir, {"N", "S"})
parse_longitude(f, dir) == Coordinate(f, dir, {"E", "W"})
=============================================================================
