----------------------------- MODULE NmeaParse -----------------------------
(***************************************************************************)
(* What becomes of sentences: tiny_nmea_work gives each one it completed   *)
(* to tiny_nmea_parse, with a fresh structure, and to parse_post_process,  *)
(* which keeps the century that a ZDA sentence tells for the RMC sentences *)
(* after it; and an application may call tiny_nmea_parse itself, with a    *)
(* structure of its own, new or with what the last call left in it.        *)
(*                                                                         *)
(* How work finds a sentence is the subject of NmeaWork.  A sentence has   *)
(* the seven characters that come before its first field.                  *)
(***************************************************************************)
EXTENDS Sentences

CONSTANT Inputs     \* the sequences of sentences that may come

ASSUME InputsAssumption ==
  Inputs \subseteq Seq([talker : STRING, type : STRING, body : Seq(STRING)])

VARIABLES feed,         \* the sentences to come
          zda_century,  \* of the context
          own,          \* the application's structure
          out,          \* the last call: by whom, of what, with what result
          dated         \* the year that the last valid ZDA told to work

vars == <<feed, zda_century, own, out, dated>>

Blank == [type |-> UNKNOWN, talker |-> UNKNOWN, data |-> <<>>]
NoCall == [by |-> "nobody", sentence |-> [talker |-> "", type |-> "", body |-> <<>>],
           res |-> "OK", result |-> Blank]

Init == /\ feed \in Inputs
        /\ zda_century = 0
        /\ own = Blank
        /\ out = NoCall
        /\ dated = 0
-----------------------------------------------------------------------------
(* A year of less than three digits has no century. *)
date_get_century_helper(d) ==
  IF d.valid /\ d.year >= 100 THEN Uint8(d.year \div 100) ELSE 0

(* A mistake: a century once known is not given up. *)
CenturyKept(century, result) ==
  IF result.type = "ZDA" /\ date_get_century_helper(result.data.date) > 0
  THEN date_get_century_helper(result.data.date) ELSE century

CenturyAfter(century, result) ==
  IF result.type = "ZDA" /\ result.data.date.valid
  THEN date_get_century_helper(result.data.date) ELSE century

(* The year is completed whether or not the date is valid. *)
YearCompleted(century, result) ==
  IF result.type = "RMC" /\ century > 0
  THEN [result EXCEPT !.data.date.year = Uint16(century * 100 + result.data.date.year_yy)]
  ELSE result

(* The two fields of result that work knows from the header. *)
FromHeader(sentence) ==
  [Blank EXCEPT !.type = parse_sentence_type(sentence.type),
                !.talker = parse_talker_id(sentence.talker)]

WorkParses ==
  /\ feed # <<>>
  /\ feed' = Tail(feed)
  /\ IsTyped(FromHeader(Head(feed)))
  /\ \E call \in {tiny_nmea_parse(Head(feed), FromHeader(Head(feed)))} :
       LET parsed == call.res = "OK" IN
       /\ zda_century' = IF parsed THEN CenturyAfter(zda_century, call.result)
                         ELSE zda_century
       /\ out' = [by |-> "work", sentence |-> Head(feed), res |-> call.res,
                  result |-> IF parsed THEN YearCompleted(zda_century, call.result)
                             ELSE call.result]
       /\ dated' = IF parsed /\ call.result.type = "ZDA"
                   THEN Short(FieldsOf("ZDA", Head(feed).body)[3], 0) ELSE dated
  /\ UNCHANGED own

(* A direct call: there is no context, and no century. *)
CallerParses(given) ==
  /\ feed # <<>>
  /\ feed' = Tail(feed)
  /\ \E call \in {tiny_nmea_parse(Head(feed), given)} :
       /\ own' = call.result
       /\ out' = [by |-> "caller", sentence |-> Head(feed), res |-> call.res,
                  result |-> call.result]
  /\ UNCHANGED <<zda_century, dated>>

(* The structure is a new one, or as it is, or its type has been reset. *)
Next == \/ WorkParses
        \/ \E given \in {Blank, own, [own EXCEPT !.type = UNKNOWN]} : CallerParses(given)

Spec == Init /\ [][Next]_vars
-----------------------------------------------------------------------------
(* Properties. *)

IsResult(result) ==
  /\ result.type \in SentenceTypes \union {UNKNOWN}
  /\ result.talker \in Talkers \union {UNKNOWN}
  /\ result.data # <<>> => \E t \in SentenceTypes : IsDataOf(t, result.data)

Answers == {"OK", "MALFORMED_SENTENCE", "ERR_TOO_FEW_FIELDS", "ERR_INVALID_TIME",
            "ERR_INVALID_DATE"}

(* Every member has its type, and no list is longer than its array; when a *)
(* sentence is parsed, the structure is one of its type.                   *)
TypeOK ==
  /\ zda_century \in UINT8
  /\ IsResult(own) /\ IsResult(out.result)
  /\ out.by \in {"nobody", "work", "caller"} /\ out.res \in Answers
  /\ out.by # "nobody" /\ out.res = "OK" => IsDataOf(out.result.type, out.result.data)

(* What was last parsed: its type, fields and structure. *)
Parsed == out.by # "nobody" /\ out.res = "OK"
type == out.result.type
data == out.result.data
fields == FieldsOf(type, out.sentence.body)

(* The fields are the text between the commas, up to as many as the type  *)
(* has: none is lost, not an empty one at the end, none cut short and none *)
(* with a comma in it; and ERR_TOO_FEW_FIELDS is answered when, and only   *)
(* when, the text has too few commas for its type (tokenize).              *)
FieldsAreTheText ==
  out.by # "nobody" /\ IsTyped(out.result) =>
    LET body == out.sentence.body
        count == Cardinality(DOMAIN fields)
        commas == Cardinality({i \in DOMAIN body : body[i] = ","})
        joined == FlattenSeq([i \in 1..count |-> IF i = 1 THEN fields[0]
                                                 ELSE <<",">> \o fields[i - 1]])
    IN /\ \A i \in DOMAIN fields : "," \notin ToSet(fields[i])
       /\ \/ joined = body
          \/ count = MaxFields[type] /\ IsPrefix(joined \o <<",">>, body)
       /\ out.res = "ERR_TOO_FEW_FIELDS" <=> commas + 1 < MinFields[type]
-----------------------------------------------------------------------------
(* What the text of a field says, of a number of any length.               *)

Point(f) == SelectInSeq(Signless(f), LAMBDA c : c = ".")
Unpointed(f) == IF Point(f) = 0 THEN Signless(f) ELSE RemoveAt(Signless(f), Point(f))
Decimals(f) == Len(Signless(f)) - Point(f)
Minus(f, n) == IF IsNegative(f) THEN -n ELSE n

(* Digits with a point before, between or after them, or with none, and a  *)
(* sign or none.                                                           *)
IsNumber(f) == Unpointed(f) # <<>> /\ AllDigits(Unpointed(f))

NumberIn(f) ==
  IF IsNumber(f) /\ Numeral(Unpointed(f)) <= INT_MAX
  THEN [value |-> Minus(f, Numeral(Unpointed(f))), scale |-> TenTo(Decimals(f))]
  ELSE NoNumber

(* It has no more decimals than a scale can hold. *)
ScaleHolds(f) == TenTo(Decimals(f)) <= INT_MAX

(* Those that are no integer, or not one of 32 bits, are none.             *)
UnsignedIn(f) ==
  IF f # <<>> /\ AllDigits(f) /\ Numeral(f) <= UINT_MAX THEN <<Numeral(f)>> ELSE <<>>
SignedIn(f) ==
  LET n == Signless(f)
      fits == Minus(f, Numeral(n)) \in INT_MIN..INT_MAX
  IN IF n # <<>> /\ AllDigits(n) /\ fits THEN <<Minus(f, Numeral(n))>> ELSE <<>>

TimeIn(f) ==
  LET clock == [k \in 1..3 |-> Numeral(SubSeq(f, 2 * k - 1, 2 * k))]
      after == IF Len(f) > 7 /\ f[7] = "." THEN SubSeq(f, 8, Len(f)) ELSE <<>>
      told(k) == k <= Len(after) /\ AllDigits(SubSeq(after, 1, k))
  IN [hours |-> clock[1], minutes |-> clock[2], seconds |-> clock[3],
      microseconds |-> Numeral([k \in 1..6 |-> IF told(k) THEN after[k] ELSE "0"]),
      valid |-> TRUE]

IsTime(f) == /\ Len(f) >= 6 /\ AllDigits(SubSeq(f, 1, 6))
             /\ Numeral(SubSeq(f, 1, 2)) < 24 /\ Numeral(SubSeq(f, 3, 4)) < 60
             /\ Numeral(SubSeq(f, 5, 6)) <= 60

(* The fields of the members, by the comments above the handlers. *)
NumberFields ==
  [RMC |-> [latitude |-> 2, longitude |-> 4, speed_knots |-> 6, course_deg |-> 7,
            mag_variation |-> 9],
   GGA |-> [latitude |-> 1, longitude |-> 3, hdop |-> 7, altitude_m |-> 8,
            geoid_sep_m |-> 10, dgps_age_sec |-> 12],
   GNS |-> [latitude |-> 1, longitude |-> 3, hdop |-> 7, altitude_m |-> 8,
            geoid_sep_m |-> 9, dgps_age_sec |-> 10],
   GSA |-> [pdop |-> 14, hdop |-> 15, vdop |-> 16],
   VTG |-> [course_true_deg |-> 0, course_mag_deg |-> 2, speed_knots |-> 4,
            speed_kph |-> 6],
   GLL |-> [latitude |-> 0, longitude |-> 2],
   GBS |-> [err_lat_m |-> 1, err_lon_m |-> 2, err_alt_m |-> 3, prob_missed |-> 5,
            bias_m |-> 6, bias_stddev_m |-> 7],
   GST |-> [rms_range |-> 1, std_major_m |-> 2, std_minor_m |-> 3, orient_deg |-> 4,
            std_lat_m |-> 5, std_lon_m |-> 6, std_alt_m |-> 7]]

IntegerFields ==
  [GGA |-> [fix_quality |-> 5, satellites_used |-> 6, dgps_station_id |-> 13],
   GNS |-> [satellites_used |-> 6, dgps_station_id |-> 11],
   GSA |-> [system_id |-> 17],
   GSV |-> [total_msgs |-> 0, msg_number |-> 1, total_sats |-> 2],
   ZDA |-> [tz_hours |-> 4, tz_minutes |-> 5],
   GBS |-> [failed_sat_id |-> 4],
   VDM |-> [fragment_count |-> 0, fragment_number |-> 1, sequential_id |-> 2,
            fill_bits |-> 5],
   VDO |-> [fragment_count |-> 0, fragment_number |-> 1, sequential_id |-> 2,
            fill_bits |-> 5]]

TimeField == [RMC |-> 0, GGA |-> 0, GNS |-> 0, GLL |-> 4, ZDA |-> 0, GBS |-> 0,
              GST |-> 0]

FloatOf(member) == IF member \in {"latitude", "longitude"} THEN data[member].raw
                   ELSE data[member]

(* A number is exactly the one in its field, "no loss of precision"        *)
(* (fixed_point.h), or refused because it is none or too large; without a  *)
(* point it is read as what comes behind one, as test_field_parsing.c asks *)
(* for.  This is for as many decimals as a scale can hold.                 *)
NumbersAreExact ==
  Parsed /\ type \in DOMAIN NumberFields =>
    \A member \in DOMAIN NumberFields[type] :
      LET f == fields[NumberFields[type][member]]
      IN ScaleHolds(f) => FloatOf(member) = NumberIn(f)

(* An integer is the one in its field, in the type of its member, or zero  *)
(* when there is none of 32 bits, at both ends of what these can hold.     *)
IntegersAreExact ==
  Parsed /\ type \in DOMAIN IntegerFields =>
    \A member \in DOMAIN IntegerFields[type] :
      LET i == IntegerFields[type][member]
          f == FieldAt(fields, i)
          n == IF type = "ZDA" THEN SignedIn(f) ELSE UnsignedIn(f)
          Narrow(v) == CASE member = "dgps_station_id" -> v % (UINT16_MAX + 1)
                         [] member = "tz_hours" -> ((v + 128) % 256) - 128
                         [] OTHER -> v % 256
      IN data[member] = IF n = <<>> THEN 0 ELSE Narrow(n[1])

(* A time is valid only when its field is one, and then it is that time to *)
(* the microsecond, however many digits are given.                         *)
TimesAreExact ==
  Parsed /\ type \in DOMAIN TimeField =>
    LET f == fields[TimeField[type]]
    IN IF IsTime(f) THEN data.time = TimeIn(f) ELSE ~data.time.valid

(* Each block of a GSV sentence that names a satellite gives one, in the   *)
(* order of the blocks, with the elevation, azimuth and SNR of that block  *)
(* in the types of these, or the marks for none; blocks that are empty or  *)
(* cut off change nothing of the others.  With all blocks full the signal  *)
(* id is behind the last.                                                  *)
SatellitesAreOfTheirBlocks ==
  Parsed /\ type = "GSV" =>
    LET in(k, i) == FieldAt(fields, 4 * k - 1 + i)
        given == {k \in 1..MaxSatsGsv : UnsignedIn(in(k, 0)) # <<>>}
        Or(n, none) == IF n = <<>> THEN none ELSE n[1]
        In(Ints, count, n) == CHOOSE v \in Ints : (v - n) % count = 0
    IN /\ Len(data.sats) = Cardinality(given)
       /\ \A k \in given :
            LET sat == data.sats[Cardinality(given \intersect 1..k)] IN
            /\ sat.prn = UnsignedIn(in(k, 0))[1] % 256
            /\ sat.elevation = In(INT8, 256, Or(SignedIn(in(k, 1)), -128))
            /\ sat.azimuth = In(INT16, UINT16_MAX + 1, Or(UnsignedIn(in(k, 2)), -1))
            /\ sat.snr = In(INT8, 256, Or(SignedIn(in(k, 3)), -1))
       /\ given = 1..MaxSatsGsv =>
            data.signal_id = Or(UnsignedIn(in(MaxSatsGsv + 1, 0)), 0) % 256

LetterFields ==
  [RMC |-> [mag_var_dir |-> 10, faa_mode |-> 11, nav_status |-> 12],
   GNS |-> [nav_status |-> 12],
   GSA |-> [mode_selection |-> 0, fix_type |-> 1],
   VTG |-> [faa_mode |-> 8],
   GLL |-> [faa_mode |-> 6],
   VDM |-> [channel |-> 3],
   VDO |-> [channel |-> 3]]

(* A letter is the first one in its field, if it is one of its list; where *)
(* the field is empty, or the sentence too short to have it, there is      *)
(* none, and nothing that an earlier sentence, of this type or another,    *)
(* left in the structure.                                                  *)
LettersAreOfTheirFields ==
  Parsed /\ type \in DOMAIN LetterFields =>
    \A member \in DOMAIN LetterFields[type] :
      LET f == FieldAt(fields, LetterFields[type][member])
      IN data[member] = IF f # <<>> /\ f[1] \in Has(member) THEN f[1] ELSE NUL

(* The modes of a GNS sentence, the satellites of a GSA sentence and the   *)
(* payload of an AIS sentence are those of its fields, in their order, as  *)
(* many as there is room for: nothing of an earlier list is before, among  *)
(* or behind them, and none is left when the fields are empty.             *)
ListsAreOfTheirFields ==
  Parsed =>
    /\ type = "GNS" =>
         /\ Len(data.mode) = Min({Len(fields[5]), MaxModes})
         /\ \A i \in DOMAIN data.mode :
              data.mode[i] = IF fields[5][i] \in FaaModes THEN fields[5][i] ELSE UNKNOWN
    /\ type \in {"VDM", "VDO"} =>
         /\ Len(data.payload) = Min({Len(fields[4]), MaxPayload})
         /\ IsPrefix(data.payload, fields[4])
    /\ type = "GSA" =>
         LET given == {i \in 1..12 : UnsignedIn(fields[1 + i]) # <<>>}
             before(i) == Cardinality(given \intersect 1..i)
         IN /\ Len(data.satellite_prns) = Min({Cardinality(given), MaxSatsGsa})
            /\ \A i \in given : before(i) <= MaxSatsGsa =>
                 data.satellite_prns[before(i)] = UnsignedIn(fields[1 + i])[1] % 256

(* The first year of a century that is no longer a byte, or some of whose  *)
(* years are no longer in the structure.                                   *)
CenturyLimit == 100 * Min({256, (UINT16_MAX + 1) \div 100})

(* An RMC sentence given to the application has the year of the century of *)
(* the last valid ZDA sentence, or 0 "if century unknown" (data_formats.h),*)
(* with the two digits it gives, or 00: its date stays as valid as it was, *)
(* and one that is not is completed too.  Whether a sentence is parsed by  *)
(* the application itself does not matter.                                 *)
YearIsOfLastZda ==
  Parsed /\ out.by = "work" /\ type = "RMC" /\ dated < CenturyLimit =>
    LET f == fields[8]
        six == Len(f) >= 6 /\ AllDigits(SubSeq(f, 1, 6))
        number(i) == Numeral(SubSeq(f, i, i + 1))
    IN /\ data.date.valid = (six /\ number(1) \in 1..31 /\ number(3) \in 1..12)
       /\ data.date.year = IF dated >= 100
                           THEN dated - (dated % 100) + (IF six THEN number(5) ELSE 0)
                           ELSE 0
-----------------------------------------------------------------------------
(* What the conversions do with the numbers of these sentences.            *)

(* q is n / d without what comes behind the point. *)
IsQuotient(q, n, d) ==
  /\ Magnitude(n) - Magnitude(q) * d \in 0..d - 1
  /\ q # 0 => (q < 0) = (n < 0)

(* So it is, when it is an int. *)
IsConverted(q, n, d) == Magnitude(n) \div d <= INT_MAX => IsQuotient(q, n, d)

(* A speed is converted to the last thousandth, as long as a thousand      *)
(* times its scale is an int (tiny_nmea_knots_to_mps, _to_kph).            *)
SpeedsAreConverted ==
  Parsed /\ type = "VTG" /\ ScaleHolds(fields[4]) /\ float_valid(data.speed_knots) =>
    LET knots == data.speed_knots IN
    /\ knots.scale * Kilo <= INT_MAX =>
         IsConverted(knots_to_mps(knots), knots.value * KnotInMetres, knots.scale * Kilo)
    /\ IsConverted(knots_to_kph(knots), knots.value * KnotInKm, knots.scale)

(* A position in fixed degrees is the degrees and the sixtieths of the     *)
(* minutes in the field, negative in the south and the west, or 0 when it  *)
(* has no number or no hemisphere (tiny_nmea_coord_to_fixed_degrees).      *)
DegreesAreSexagesimal ==
  Parsed /\ type = "GLL" =>
    \A i \in {0, 2} : ScaleHolds(fields[i]) =>
      LET coord   == IF i = 0 THEN data.latitude ELSE data.longitude
          scale   == coord.raw.scale
          size    == Magnitude(coord.raw.value)
          degrees == size \div (100 * scale)
          sixtieths == (size - 100 * scale * degrees) + 60 * scale * degrees
          fixed   == coord_to_fixed_degrees(coord)
          south   == coord.hemisphere \in {"S", "W"}
      IN IF coord.hemisphere = NUL THEN fixed = 0
         ELSE IsConverted(IF south THEN -fixed ELSE fixed,
                          DegreeScale * (IF coord.raw.value < 0 THEN -sixtieths
                                         ELSE sixtieths), 60 * scale)

(* Adding the height of the geoid to the altitude loses nothing when the   *)
(* sum is an int at the larger of the two scales, and neither does dividing*)
(* by a number ("without losing precision"): as many of the parts make up  *)
(* the whole again, when their scale is an int (fixed_point.c).            *)
ArithmeticIsExact ==
  Parsed /\ type = "GGA" /\ ScaleHolds(fields[8]) /\ ScaleHolds(fields[10])
  /\ float_valid(data.altitude_m) /\ float_valid(data.geoid_sep_m) =>
    LET a == data.altitude_m
        b == data.geoid_sep_m
        scale == Max({a.scale, b.scale})
        at(f) == f.value * (scale \div f.scale)
        Fits(n) == n \in INT_MIN..INT_MAX
        half == fp_div_int(a, 2)
        whole == fp_add(half, half)
    IN /\ Fits(at(a)) /\ Fits(at(b)) /\ Fits(at(a) + at(b)) =>
            fp_add(a, b) = [value |-> at(a) + at(b), scale |-> scale]
       /\ Fits(a.scale * 2) /\ Fits(a.value * 2) =>
            /\ whole.value * a.scale = a.value * whole.scale
            /\ fp_mul_int(half, 2) = whole
-----------------------------------------------------------------------------
(* What comments of the code say, and the code does not do.                *)

(* "signal id (nmea 4.11+, optional) / located after the last satellite    *)
(* block": behind whole blocks, it is the one field that is left.          *)
SignalIdAfterBlocks ==
  Parsed /\ type = "GSV" =>
    LET last == Cardinality(DOMAIN fields) - 1
    IN last >= 3 /\ last % 4 = 3 /\ UnsignedIn(fields[last]) # <<>>
       => data.signal_id = UnsignedIn(fields[last])[1] % 256

(* Numbers are kept with "no loss of precision" (fixed_point.h): what is   *)
(* not refused is the number in the field, whatever decimals it has.       *)
PrecisionIsKept ==
  Parsed /\ type = "VTG" /\ float_valid(data.speed_knots) =>
    data.speed_knots = NumberIn(fields[4])
=============================================================================
