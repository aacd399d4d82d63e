----------------------------- MODULE Sentences -----------------------------
(***************************************************************************)
(* The handlers of src/src/sentences.c, one for each type of sentence:     *)
(* fields to a structure, and the dispatch to them of                      *)
(* src/src/tiny_nmea_parse.c.                                              *)
(*                                                                         *)
(* Fields are counted from 0, as in the code.  A handler is given data,    *)
(* the structure as the caller left it, and clears it itself.  The list of *)
(* a structure ends at its count: what lies in the array behind it is not  *)
(* modelled.  A talker and a type are their names, and a character of an   *)
(* enumeration is its value.                                               *)
(***************************************************************************)
EXTENDS FieldParse

CONSTANTS MaxSatsGsv,   \* TINY_NMEA_MAX_SATS_PER_GSV
          MaxSatsGsa,   \* TINY_NMEA_MAX_SATS_GSA
          MaxModes,     \* TINY_NMEA_CONSTELLATION_COUNT
          MaxPayload    \* the size of an AIS payload, less one

ASSUME SentenceAssumption == /\ MaxSatsGsv \in 1..8 /\ MaxSatsGsa \in 1..24
                             /\ MaxModes \in Nat /\ MaxPayload \in Nat

UNKNOWN == NUL
Constellations == {"GP", "GL", "GA", "GB", "BD", "GN", "GQ", "GI"}
Talkers == Constellations
             \union {"AI", "AB", "AD", "AN", "AR", "AS", "AT", "AX"}
SentenceTypes == {"RMC", "GGA", "GNS", "GSA", "GSV", "VTG", "GLL", "ZDA",
                  "GBS", "GST", "VDM", "VDO"}

parse_talker_id(name) == IF name \in Talkers THEN name ELSE UNKNOWN
parse_sentence_type(name) == IF name \in SentenceTypes THEN name ELSE UNKNOWN

(* The first character of a field, when it is one of a list. *)
OneOf(letters, f) == IF f # <<>> /\ f[1] \in letters THEN f[1] ELSE UNKNOWN

FaaModes == {"A", "D", "E", "F", "M", "N", "P", "R", "S"}
NavStatuses == {"S", "C", "U", "V"}
GsaFixes == {"1", "2", "3"}

parse_faa_mode_field(f) == OneOf(FaaModes, f)
parse_nav_status_field(f) == OneOf(NavStatuses, f)
parse_gsa_fix_field(f) == OneOf(GsaFixes, f)
parse_status_valid(f) == f # <<>> /\ f[1] = "A"

(* What an assignment behind a parser's "if" leaves: the number, in the    *)
(* type of the member, or what was there.                                  *)
Assign(parsed, Convert(_), old) == IF parsed = <<>> THEN old ELSE Convert(parsed[1])
Byte(f, old) == Assign(parse_uint(f), Uint8, old)
Short(f, old) == Assign(parse_uint(f), Uint16, old)
Char(f, old) == Assign(parse_char(f), LAMBDA c : c, old)
Decimal(f) == parse_fixedpoint_float(f)

(* The members that a handler may leave as memset makes them. *)
Zero == [date |-> NoDate, fix_quality |-> 0, satellites_used |-> 0, dgps_station_id |-> 0,
         mag_var_dir |-> NUL, faa_mode |-> UNKNOWN, nav_status |-> UNKNOWN,
         mode |-> <<>>, mode_selection |-> NUL, system_id |-> 0,
         total_msgs |-> 0, msg_number |-> 0, total_sats |-> 0, signal_id |-> 0,
         tz_hours |-> 0, tz_minutes |-> 0, failed_sat_id |-> 0,
         fragment_count |-> 0, fragment_number |-> 0, sequential_id |-> 0,
         channel |-> NUL, payload |-> <<>>, fill_bits |-> 0]

(* The C library's, with 0: each handler calls it before it fills data. *)
memset(data) == Zero
-----------------------------------------------------------------------------
(* The structures, in nmea_0183_types.h.  A list and its count are one     *)
(* sequence.                                                               *)

Dgps == {"hdop", "altitude_m", "geoid_sep_m", "dgps_age_sec", "dgps_station_id"}
Position == {"time", "latitude", "longitude"}

Members ==
  [RMC |-> Position \union {"date", "status_valid", "speed_knots", "course_deg",
              "mag_variation", "mag_var_dir", "faa_mode", "nav_status"},
   GGA |-> Position \union Dgps \union {"fix_quality", "satellites_used"},
   GNS |-> Position \union Dgps \union {"mode", "satellites_used", "nav_status"},
   GSA |-> {"mode_selection", "fix_type", "satellite_prns", "pdop", "hdop",
            "vdop", "system_id"},
   GSV |-> {"total_msgs", "msg_number", "total_sats", "sats", "signal_id"},
   VTG |-> {"course_true_deg", "course_mag_deg", "speed_knots", "speed_kph",
            "faa_mode"},
   GLL |-> Position \union {"status_valid", "faa_mode"},
   ZDA |-> {"time", "date", "tz_hours", "tz_minutes"},
   GBS |-> {"time", "err_lat_m", "err_lon_m", "err_alt_m", "failed_sat_id",
            "prob_missed", "bias_m", "bias_stddev_m"},
   GST |-> {"time", "rms_range", "std_major_m", "std_minor_m", "orient_deg",
            "std_lat_m", "std_lon_m", "std_alt_m"},
   VDM |-> {"fragment_count", "fragment_number", "sequential_id", "channel",
            "payload", "fill_bits"},
   VDO |-> {"fragment_count", "fragment_number", "sequential_id", "channel",
            "payload", "fill_bits"}]

Time == [hours : 0..99, minutes : 0..99, seconds : 0..99,
         microseconds : 0..TenTo(6) - 1, valid : BOOLEAN]
UINT8 == 0..255
INT8 == -128..127
UINT16 == 0..UINT16_MAX
INT16 == -INT16_MAX - 1..INT16_MAX
Date == [day : UINT8, month : UINT8, year : UINT16, year_yy : UINT8, valid : BOOLEAN]
Satellite == [prn : UINT8, elevation : INT8, azimuth : INT16, snr : INT8]

(* The set a member is in; those not named are a Float. *)
Has(member) ==
  CASE member = "time" -> Time
    [] member = "date" -> Date
    [] member = "status_valid" -> BOOLEAN
    [] member = "latitude" -> CoordHas({"N", "S"})
    [] member = "longitude" -> CoordHas({"E", "W"})
    [] member = "faa_mode" -> FaaModes \union {UNKNOWN}
    [] member = "nav_status" -> NavStatuses \union {UNKNOWN}
    [] member = "fix_type" -> GsaFixes \union {UNKNOWN}
    [] member \in {"mag_var_dir", "mode_selection", "channel"} -> STRING \union {NUL}
    [] member = "mode" -> Seq(FaaModes \union {UNKNOWN})
    [] member = "satellite_prns" -> Seq(UINT8)
    [] member = "sats" -> Seq(Satellite)
    [] member = "payload" -> Seq(STRING)
    [] member = "dgps_station_id" -> UINT16
    [] member = "tz_hours" -> INT8
    [] member \in {"fix_quality", "satellites_used", "system_id", "total_msgs",
                   "msg_number", "total_sats", "signal_id", "tz_minutes",
                   "failed_sat_id", "fragment_count", "fragment_number",
                   "sequential_id", "fill_bits"} -> UINT8
    [] OTHER -> Float

(* The size of an array. *)
Room == [mode |-> MaxModes, satellite_prns |-> MaxSatsGsa, sats |-> MaxSatsGsv,
         payload |-> MaxPayload]

IsDataOf(type, data) ==
  /\ DOMAIN data = Members[type]
  /\ \A member \in DOMAIN data :
        /\ data[member] \in Has(member)
        /\ member \in DOMAIN Room => Len(data[member]) <= Room[member]
-----------------------------------------------------------------------------
parse_rmc(f, data) ==
  LET cleared == memset(data) IN
  [time |-> parse_time(f[0]),
   status_valid |-> parse_status_valid(f[1]),
   latitude |-> parse_latitude(f[2], f[3]),
   longitude |-> parse_longitude(f[4], f[5]),
   speed_knots |-> Decimal(f[6]), course_deg |-> Decimal(f[7]),
   date |-> parse_date(f[8]),
   mag_variation |-> Decimal(f[9]),
   mag_var_dir |-> Char(f[10], cleared.mag_var_dir),
   faa_mode |-> IF 11 \in DOMAIN f THEN parse_faa_mode_field(f[11])
                ELSE cleared.faa_mode,
   nav_status |-> IF 12 \in DOMAIN f THEN parse_nav_status_field(f[12])
                  ELSE cleared.nav_status]

(* Any number is taken for a fix quality. *)
parse_gga(f, data) ==
  LET cleared == memset(data) IN
  [time |-> parse_time(f[0]),
   latitude |-> parse_latitude(f[1], f[2]),
   longitude |-> parse_longitude(f[3], f[4]),
   fix_quality |-> Byte(f[5], cleared.fix_quality),
   satellites_used |-> Byte(f[6], cleared.satellites_used),
   hdop |-> Decimal(f[7]), altitude_m |-> Decimal(f[8]),
   geoid_sep_m |-> Decimal(f[10]), dgps_age_sec |-> Decimal(f[12]),
   dgps_station_id |-> Short(f[13], cleared.dgps_station_id)]

(* A mistake: the room is not looked at. *)
ModesOfAll(f) == [i \in 1..Len(f) |-> OneOf(FaaModes, <<f[i]>>)]

(* One mode for each character, as many as there is room for. *)
Modes(f) == [i \in 1..Min({Len(f), MaxModes}) |-> OneOf(FaaModes, <<f[i]>>)]

parse_gns(f, data) ==
  LET cleared == memset(data) IN
  [time |-> parse_time(f[0]),
   latitude |-> parse_latitude(f[1], f[2]),
   longitude |-> parse_longitude(f[3], f[4]),
   mode |-> IF f[5] # <<>> THEN Modes(f[5]) ELSE cleared.mode,
   satellites_used |-> Byte(f[6], cleared.satellites_used),
   hdop |-> Decimal(f[7]), altitude_m |-> Decimal(f[8]),
   geoid_sep_m |-> Decimal(f[9]), dgps_age_sec |-> Decimal(f[10]),
   dgps_station_id |-> Short(f[11], cleared.dgps_station_id),
   nav_status |-> IF 12 \in DOMAIN f THEN parse_nav_status_field(f[12])
                  ELSE cleared.nav_status]
-----------------------------------------------------------------------------
(* Satellites.                                                             *)

(* A mistake: the first field without a number ends the list. *)
PrnsUpToGap(f) ==
  LET given == InOrder({i \in 1..12 : \A j \in 1..i : parse_uint(f[1 + j]) # <<>>}, 12)
  IN [k \in 1..Min({Len(given), MaxSatsGsa}) |-> Uint8(parse_uint(f[1 + given[k]])[1])]

(* The numbers in twelve fields; the empty ones and others are left out. *)
Prns(f) ==
  LET given == InOrder({i \in 1..12 : parse_uint(f[1 + i]) # <<>>}, 12)
  IN [k \in 1..Min({Len(given), MaxSatsGsa}) |-> Uint8(parse_uint(f[1 + given[k]])[1])]

parse_gsa(f, data) ==
  LET cleared == memset(data) IN
  [mode_selection |-> Char(f[0], cleared.mode_selection),
   fix_type |-> parse_gsa_fix_field(f[1]),
   satellite_prns |-> Prns(f),
   pdop |-> Decimal(f[14]), hdop |-> Decimal(f[15]), vdop |-> Decimal(f[16]),
   system_id |-> IF 17 \in DOMAIN f THEN Byte(f[17], cleared.system_id)
                 ELSE cleared.system_id]

(* The parts of a block of four fields that the sentence has; the fields   *)
(* after its last one are as good as empty.                                *)
FieldAt(f, i) == IF i \in DOMAIN f THEN f[i] ELSE <<>>

SatInfo(f, base) ==
  [prn |-> Uint8(parse_uint(f[base])[1]),
   elevation |-> Assign(parse_int(FieldAt(f, base + 1)), Int8, -128),
   azimuth |-> Assign(parse_uint(FieldAt(f, base + 2)), Int16, -1),
   snr |-> Assign(parse_int(FieldAt(f, base + 3)), Int8, -1)]

(* A mistake: the first block without a number ends the list. *)
BlocksUpToGap(f) ==
  InOrder({k \in 1..MaxSatsGsv :
             \A j \in 1..k : parse_uint(FieldAt(f, 4 * j - 1)) # <<>>}, MaxSatsGsv)

(* The blocks that have a number in their first field, in order. *)
Blocks(f) ==
  InOrder({k \in 1..MaxSatsGsv : parse_uint(FieldAt(f, 4 * k - 1)) # <<>>}, MaxSatsGsv)

(* The signal id is looked for behind as many blocks as have a number. *)
parse_gsv(f, data) ==
  LET cleared == memset(data)
      sats == [k \in DOMAIN Blocks(f) |-> SatInfo(f, 4 * Blocks(f)[k] - 1)] IN
  [total_msgs |-> Byte(f[0], cleared.total_msgs),
   msg_number |-> Byte(f[1], cleared.msg_number),
   total_sats |-> Byte(f[2], cleared.total_sats),
   sats |-> sats,
   signal_id |-> Byte(FieldAt(f, 3 + 4 * Len(sats)), cleared.signal_id)]
-----------------------------------------------------------------------------
(* A mistake: the structure is not cleared. *)
VtgUncleared(f, data) ==
  [course_true_deg |-> Decimal(f[0]), course_mag_deg |-> Decimal(f[2]),
   speed_knots |-> Decimal(f[4]), speed_kph |-> Decimal(f[6]),
   faa_mode |-> IF 8 \in DOMAIN f THEN parse_faa_mode_field(f[8])
                ELSE IF "faa_mode" \in DOMAIN data THEN data.faa_mode ELSE UNKNOWN]

parse_vtg(f, data) ==
  LET cleared == memset(data) IN
  [course_true_deg |-> Decimal(f[0]), course_mag_deg |-> Decimal(f[2]),
   speed_knots |-> Decimal(f[4]), speed_kph |-> Decimal(f[6]),
   faa_mode |-> IF 8 \in DOMAIN f THEN parse_faa_mode_field(f[8])
                ELSE cleared.faa_mode]

parse_gll(f, data) ==
  LET cleared == memset(data) IN
  [latitude |-> parse_latitude(f[0], f[1]),
   longitude |-> parse_longitude(f[2], f[3]),
   time |-> parse_time(f[4]),
   status_valid |-> parse_status_valid(f[5]),
   faa_mode |-> IF 6 \in DOMAIN f THEN parse_faa_mode_field(f[6])
                ELSE cleared.faa_mode]

(* Day and month are checked after they have been made bytes. *)
DateOf(day, month, year, old) ==
  LET date == [old EXCEPT !.day = Byte(day, old.day), !.month = Byte(month, old.month),
                          !.year = Short(year, old.year)]
  IN  IF InCalendar(date.day, date.month) THEN [date EXCEPT !.valid = TRUE] ELSE date

(* With an invalid time nothing else is read, and with an invalid date the *)
(* time zone is not.                                                       *)
parse_zda(f, data) ==
  LET cleared == memset(data)
      time == parse_time(f[0])
      date == IF time.valid THEN DateOf(f[1], f[2], f[3], cleared.date)
              ELSE cleared.date IN
  [time |-> time, date |-> date,
   tz_hours |-> IF date.valid THEN Assign(parse_int(f[4]), Int8, cleared.tz_hours)
                ELSE cleared.tz_hours,
   tz_minutes |-> IF date.valid THEN Assign(parse_int(f[5]), Uint8, cleared.tz_minutes)
                  ELSE cleared.tz_minutes]

parse_gbs(f, data) ==
  LET cleared == memset(data) IN
  [time |-> parse_time(f[0]),
   err_lat_m |-> Decimal(f[1]), err_lon_m |-> Decimal(f[2]), err_alt_m |-> Decimal(f[3]),
   failed_sat_id |-> Byte(f[4], cleared.failed_sat_id),
   prob_missed |-> Decimal(f[5]), bias_m |-> Decimal(f[6]),
   bias_stddev_m |-> Decimal(f[7])]

(* Every member is assigned, whatever memset leaves. *)
parse_gst(f, data) ==
  [time |-> parse_time(f[0]), rms_range |-> Decimal(f[1]),
   std_major_m |-> Decimal(f[2]), std_minor_m |-> Decimal(f[3]),
   orient_deg |-> Decimal(f[4]), std_lat_m |-> Decimal(f[5]),
   std_lon_m |-> Decimal(f[6]), std_alt_m |-> Decimal(f[7])]

(* The payload is cut to the room there is. *)
parse_ais(f, data) ==
  LET cleared == memset(data) IN
  [fragment_count |-> Byte(f[0], cleared.fragment_count),
   fragment_number |-> Byte(f[1], cleared.fragment_number),
   sequential_id |-> Byte(f[2], cleared.sequential_id),
   channel |-> Char(f[3], cleared.channel),
   payload |-> IF f[4] # <<>> THEN SubSeq(f[4], 1, Min({Len(f[4]), MaxPayload}))
               ELSE cleared.payload,
   fill_bits |-> Byte(f[5], cleared.fill_bits)]
-----------------------------------------------------------------------------
(* Dispatch.                                                               *)

(* The *_MIN_FIELDS and *_MAX_FIELDS of each type. *)
MinFields == [RMC |-> 11, GGA |-> 14, GNS |-> 12, GSA |-> 17, GSV |-> 3,
              VTG |-> 8, GLL |-> 6, ZDA |-> 6, GBS |-> 8, GST |-> 8,
              VDM |-> 6, VDO |-> 6]
MaxFields == [RMC |-> 13, GGA |-> 15, GNS |-> 14, GSA |-> 18, GSV |-> 20,
              VTG |-> 10, GLL |-> 8, ZDA |-> 7, GBS |-> 9, GST |-> 9,
              VDM |-> 6, VDO |-> 6]

Handler(type, f, data) ==
  CASE type = "RMC" -> parse_rmc(f, data)
    [] type = "GGA" -> parse_gga(f, data)
    [] type = "GNS" -> parse_gns(f, data)
    [] type = "GSA" -> parse_gsa(f, data)
    [] type = "GSV" -> parse_gsv(f, data)
    [] type = "VTG" -> parse_vtg(f, data)
    [] type = "GLL" -> parse_gll(f, data)
    [] type = "ZDA" -> parse_zda(f, data)
    [] type = "GBS" -> parse_gbs(f, data)
    [] type = "GST" -> parse_gst(f, data)
    [] type \in {"VDM", "VDO"} -> parse_ais(f, data)

(* Only ZDA insists on what it says. *)
Verdict(type, data) ==
  IF type # "ZDA" THEN "OK"
  ELSE IF ~data.time.valid THEN "ERR_INVALID_TIME"
  ELSE IF ~data.date.valid THEN "ERR_INVALID_DATE" ELSE "OK"

FieldsOf(type, body) ==
  LET fields == tokenize(body, MaxFields[type])
  IN [i \in 0..Len(fields) - 1 |-> fields[i + 1]]

TooFewFields(type, body) ==
  Cardinality(DOMAIN FieldsOf(type, body)) < MinFields[type]

IsTyped(result) == result.talker \in Talkers /\ result.type \in SentenceTypes

(* A result that has a talker and a type already keeps them. *)
Typed(sentence, result) ==
  IF IsTyped(result) THEN result
  ELSE [result EXCEPT !.talker = parse_talker_id(sentence.talker),
                      !.type = parse_sentence_type(sentence.type)]

(* What is answered with the result, before the fields are looked at and    *)
(* after the handler filled in data.                                       *)
Answer(res, result) == [res |-> res, result |-> result]
Filled(typed, data) == Answer(Verdict(typed.type, data), [typed EXCEPT !.data = data])

tiny_nmea_parse(sentence, result) ==
  LET typed == Typed(sentence, result) IN
  IF ~IsTyped(typed) THEN Answer("MALFORMED_SENTENCE", typed)
  ELSE IF TooFewFields(typed.type, sentence.body)
  THEN Answer("ERR_TOO_FEW_FIELDS", typed)
  ELSE Filled(typed, Handler(typed.type, FieldsOf(typed.type, sentence.body),
                             result.data))
=============================================================================
