----------------------------- MODULE FixedPoint -----------------------------
(***************************************************************************)
(* Fixed-point numbers, src/src/fixed_point.c: a value and the scale that  *)
(* divides it, and the conversions of src/src/data_formats.c.              *)
(*                                                                         *)
(* An int has the range of an int32_t, in two's complement: INT_MAX is the *)
(* largest, and as many again and two more make up a uint32_t.  Products   *)
(* that the code computes in 64 bits are never too large for them and are  *)
(* exact here; those it computes in an int32_t wrap, as they do in every   *)
(* build without -ftrapv.                                                  *)
(***************************************************************************)
EXTENDS Integers

CONSTANTS INT_MAX,      \* 2147483647: INT32_MAX
          Kilo,         \* 1000: results are in thousandths
          KnotInMetres, \* 514444: a knot, in millionths of a metre per second
          KnotInKm,     \* 1852: a knot, in thousandths of a km per hour
          DegreeScale   \* 10000000: fixed degrees are in its parts

ASSUME FixedPointAssumption == /\ INT_MAX \in Nat \ {0}
                               /\ Kilo \in Nat \ {0}
                               /\ KnotInMetres \in Nat /\ KnotInKm \in Nat
                               /\ DegreeScale \in Nat

UINT_MAX == 2 * INT_MAX + 1
INT_MIN == -INT_MAX - 1

(* Conversions to uint32_t and to int32_t. *)
ToUint(n) == n % (UINT_MAX + 1)
ToInt(n) == LET u == ToUint(n) IN IF u > INT_MAX THEN u - (UINT_MAX + 1) ELSE u

(* The division of C, which drops what is behind the point. *)
Magnitude(n) == IF n < 0 THEN -n ELSE n
Divide(n, d) ==
  LET q == Magnitude(n) \div Magnitude(d)
  IN IF (n < 0) # (d < 0) THEN -q ELSE q

Float == [value : INT_MIN..INT_MAX, scale : INT_MIN..INT_MAX]
NoNumber == [value |-> 0, scale |-> 0]
float_valid(f) == f.scale # 0
-----------------------------------------------------------------------------
rescale(f, new_scale) ==
  IF ~float_valid(f) \/ new_scale = 0 THEN 0
  ELSE IF f.scale = new_scale THEN f.value
  ELSE ToInt(Divide(f.value * new_scale, f.scale))

fp_mul_int(f, n) == [value |-> ToInt(f.value * n), scale |-> f.scale]

(* A mistake: the smaller of the two scales is the common one. *)
AddAtSmallerScale(a, b) ==
  LET scale == IF a.scale >= b.scale THEN b.scale ELSE a.scale
  IN [value |-> ToInt(rescale(a, scale) + rescale(b, scale)), scale |-> scale]

(* The larger of the two scales is the common one. *)
fp_add(a, b) ==
  IF a.scale >= b.scale
  THEN [value |-> ToInt(a.value + rescale(b, a.scale)), scale |-> a.scale]
  ELSE [value |-> ToInt(rescale(a, b.scale) + b.value), scale |-> b.scale]

(* A mistake: the value is divided, and what is behind the point is lost. *)
DivideValue(f, n) == [value |-> Divide(f.value, n), scale |-> f.scale]

fp_div_int(f, n) == [value |-> f.value, scale |-> ToInt(f.scale * n)]
-----------------------------------------------------------------------------
(* A position is degrees and minutes, DDDMM.MMMM, and a hemisphere. *)
NUL == ""
South == {"S", "W"}
CoordHas(hemisphere) == [raw : Float, hemisphere : hemisphere \union {NUL}]

(* A mistake: a degree has a hundred minutes. *)
HundredMinutes(coord) ==
  LET scale == coord.raw.scale
      fixed == Divide(coord.raw.value * DegreeScale, 100 * scale)
  IN IF coord.hemisphere = NUL \/ scale = 0 THEN 0
     ELSE ToInt(IF coord.hemisphere \in South THEN -fixed ELSE fixed)

coord_to_fixed_degrees(coord) ==
  LET scale   == coord.raw.scale
      degrees == Divide(coord.raw.value, 100 * scale)
      minutes == coord.raw.value - degrees * 100 * scale
      fixed   == degrees * DegreeScale + Divide(minutes * DegreeScale, 60 * scale)
  IN IF coord.hemisphere = NUL \/ scale = 0 THEN 0
     ELSE ToInt(IF coord.hemisphere \in South THEN -fixed ELSE fixed)

(* A mistake: thousandths are not asked for. *)
KnotsToWholeMetres(knots) ==
  IF ~float_valid(knots) THEN 0
  ELSE ToInt(Divide(knots.value * KnotInMetres, knots.scale * Kilo * Kilo))

(* scale * 1000 is an int: it wraps for the scales above INT_MAX / 1000.   *)
knots_to_mps(knots) ==
  IF ~float_valid(knots) THEN 0
  ELSE ToInt(Divide(knots.value * KnotInMetres, ToInt(knots.scale * Kilo)))

knots_to_kph(knots) ==
  IF ~float_valid(knots) THEN 0
  ELSE ToInt(Divide(knots.value * KnotInKm, knots.scale))
=============================================================================
