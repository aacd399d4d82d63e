-------------------------- MODULE NmeaParse_proofs --------------------------
(***************************************************************************)
(* Proofs about NmeaParse: what an answer says is what the text of its     *)
(* sentence says, whatever the texts, their length and the sizes of        *)
(* integers and arrays.                                                    *)
(***************************************************************************)
EXTENDS NmeaParse, Induction, SequenceTheorems, FiniteSetTheorems

-----------------------------------------------------------------------------
(* Powers of ten, and what digits are worth.                               *)

LEMMA TenFunction ==
  ASSUME NEW N \in Nat
  PROVE  \E p \in [0..N -> Nat] :
            /\ p[0] = 1 /\ \A n \in 1..N : p[n] = 10 * p[n - 1]
            /\ TenTo(N) = p[N]
<1>. DEFINE Value(f) == [i \in 0..N |-> IF i = 0 THEN 1 ELSE 10 * f[i - 1]]
            step == [n \in 1..N |-> [a \in Nat |-> 10 * a]]
            J == CHOOSE f : f = Value(f)
<1>1. step \in [1..N -> [Nat -> Nat]]
  OBVIOUS
<1>2. PICK g \in [0..N -> Nat] :
        g[0] = 1 /\ \A n \in 1..N : g[n] = step[n][g[n - 1]]
  <2>. HIDE DEF step
  <2>1. 1 \in Nat
    OBVIOUS
  <2>2. Iterations(N, Nat, 1, step) # {}
    BY <1>1, <2>1, RecursionHolds
  <2>. QED BY <2>2 DEF Iterations
<1>3. \A n \in 1..N : g[n] = 10 * g[n - 1]
  <2>1. \A n \in 1..N : g[n - 1] \in Nat
    OBVIOUS
  <2>. QED BY <1>2, <2>1
<1>4. g = Value(g)
  BY <1>2, <1>3
<1>5. J = Value(J)
  BY <1>4, Zenon
<1>6. TenTo(N) = J[N]
  BY Zenon DEF TenTo
<1>. HIDE DEF J
<1>7. J[0] = 1 /\ \A n \in 1..N : J[n] = 10 * J[n - 1]
  BY <1>5
<1>8. J \in [0..N -> Nat]
  <2>. DEFINE T == {n \in 0..N : J[n] \in Nat}
  <2>1. 0 \in T
    BY <1>7
  <2>2. ASSUME NEW n \in 1..N, n - 1 \in T PROVE n \in T
    BY <1>7, <2>2
  <2>3. \A n \in 0..N : n \in T
    <3>. HIDE DEF T
    <3>. QED BY <2>1, <2>2, UpToN
  <2>. QED BY <1>5, <2>3
<1>. QED BY <1>6, <1>7, <1>8

LEMMA TenFacts ==
  ASSUME NEW N \in Nat
  PROVE  /\ TenTo(0) = 1 /\ TenTo(N) \in Nat \ {0}
         /\ TenTo(N + 1) = 10 * TenTo(N)
<1>1. PICK p \in [0..N -> Nat] :
        /\ p[0] = 1 /\ \A n \in 1..N : p[n] = 10 * p[n - 1]
        /\ TenTo(N) = p[N]
  BY TenFunction
<1>2. PICK q \in [0..N+1 -> Nat] :
        /\ q[0] = 1 /\ \A n \in 1..N+1 : q[n] = 10 * q[n - 1]
        /\ TenTo(N + 1) = q[N + 1]
  <2>1. N + 1 \in Nat
    OBVIOUS
  <2>. QED BY <2>1, TenFunction
<1>3. TenTo(0) = 1
  <2>1. 0 \in Nat
    OBVIOUS
  <2>. QED BY <2>1, TenFunction
<1>. DEFINE T == {n \in 0..N : p[n] = q[n] /\ p[n] # 0}
<1>4. 0 \in T
  BY <1>1, <1>2
<1>5. ASSUME NEW n \in 1..N, n - 1 \in T PROVE n \in T
  <2>1. p[n - 1] \in Nat /\ p[n - 1] = q[n - 1] /\ p[n - 1] # 0 /\ n \in 0..N
    BY <1>5
  <2>2. p[n] = 10 * p[n - 1] /\ q[n] = 10 * q[n - 1]
    BY <1>1, <1>2
  <2>. QED BY <2>1, <2>2
<1>6. N \in T
  <2>1. N \in 0..N
    OBVIOUS
  <2>. HIDE DEF T
  <2>. QED BY <1>4, <1>5, <2>1, UpToN
<1>7. q[N + 1] = 10 * q[N]
  BY <1>2
<1>. QED BY <1>1, <1>2, <1>3, <1>7, <1>6

LEMMA DigitFacts ==
  /\ \A c \in Digits : DigitOf[c] \in 0..9
  /\ "0" \in Digits /\ DigitOf["0"] = 0
  /\ \A c \in {".", "-", "+", ","} : c \notin Digits
<1>1. Digits = {"0", "1", "2", "3", "4", "5", "6", "7", "8", "9"}
  BY DEF Digits, Numerals, ToSet
<1>2. \A c \in Digits : \E i \in 1..10 : Numerals[i] = c
  BY <1>1 DEF Numerals
<1>3. \A c \in Digits : DigitOf[c] \in 0..9
  BY <1>2 DEF DigitOf
<1>4. \A i \in 1..10 : Numerals[i] = "0" => i = 1
  BY DEF Numerals
<1>5. DigitOf["0"] = 0
  BY <1>1, <1>2, <1>4 DEF DigitOf
<1>. QED BY <1>1, <1>3, <1>5

LEMMA NumeralFunction ==
  ASSUME NEW s \in Seq(Digits)
  PROVE  \E v \in [0..Len(s) -> Nat] :
            /\ v[0] = 0
            /\ \A n \in 1..Len(s) : v[n] = 10 * v[n - 1] + DigitOf[s[n]]
            /\ Numeral(s) = v[Len(s)]
<1>. DEFINE N == Len(s)
            Value(f) == [n \in 0..N |-> IF n = 0 THEN 0
                                        ELSE 10 * f[n - 1] + DigitOf[s[n]]]
            step == [n \in 1..N |-> [a \in Nat |-> 10 * a + DigitOf[s[n]]]]
            J == CHOOSE f : f = Value(f)
<1>1. N \in Nat /\ \A n \in 1..N : DigitOf[s[n]] \in 0..9
  <2>1. N \in Nat /\ \A n \in 1..N : s[n] \in Digits
    BY LenProperties, ElementOfSeq
  <2>. QED BY <2>1, DigitFacts
<1>2. Numeral(s) = J[N]
  BY Zenon DEF Numeral
<1>. HIDE DEF N
<1>3. step \in [1..N -> [Nat -> Nat]]
  BY <1>1
<1>4. PICK g \in [0..N -> Nat] :
        g[0] = 0 /\ \A n \in 1..N : g[n] = step[n][g[n - 1]]
  <2>. HIDE DEF step
  <2>1. 0 \in Nat
    OBVIOUS
  <2>2. Iterations(N, Nat, 0, step) # {}
    BY <1>1, <1>3, <2>1, RecursionHolds
  <2>. QED BY <2>2 DEF Iterations
<1>5. \A n \in 1..N : g[n] = 10 * g[n - 1] + DigitOf[s[n]]
  <2>1. \A n \in 1..N : g[n - 1] \in Nat
    BY <1>1
  <2>. QED BY <1>4, <2>1
<1>6. g = Value(g)
  BY <1>1, <1>4, <1>5
<1>7. J = Value(J)
  BY <1>6, Zenon
<1>. HIDE DEF J
<1>8. J[0] = 0 /\ \A n \in 1..N : J[n] = 10 * J[n - 1] + DigitOf[s[n]]
  BY <1>1, <1>7
<1>9. J \in [0..N -> Nat]
  <2>. DEFINE T == {n \in 0..N : J[n] \in Nat}
  <2>1. 0 \in T
    BY <1>1, <1>8
  <2>2. ASSUME NEW n \in 1..N, n - 1 \in T PROVE n \in T
    <3>1. J[n - 1] \in Nat /\ n \in 0..N
      BY <1>1, <2>2
    <3>2. DigitOf[s[n]] \in 0..9
      BY <1>1
    <3>3. J[n] = 10 * J[n - 1] + DigitOf[s[n]]
      BY <1>8
    <3>4. \A x \in Nat, d \in 0..9 : 10 * x + d \in Nat
      OBVIOUS
    <3>5. J[n] \in Nat
      BY <3>1, <3>2, <3>3, <3>4
    <3>. QED BY <3>1, <3>5
  <2>3. \A n \in 0..N : n \in T
    <3>. HIDE DEF T
    <3>. QED BY <1>1, <2>1, <2>2, UpToN
  <2>. QED BY <1>7, <2>3
<1>. QED BY <1>2, <1>8, <1>9 DEF N

(* There is but one such function. *)
LEMMA NumeralUnique ==
  ASSUME NEW s \in Seq(Digits), NEW w, w[0] = 0,
         \A n \in 1..Len(s) : w[n] = 10 * w[n - 1] + DigitOf[s[n]]
  PROVE  w[Len(s)] = Numeral(s)
<1>1. PICK v \in [0..Len(s) -> Nat] :
         /\ v[0] = 0
         /\ \A n \in 1..Len(s) : v[n] = 10 * v[n - 1] + DigitOf[s[n]]
         /\ Numeral(s) = v[Len(s)]
  BY NumeralFunction
<1>. DEFINE N == Len(s)
            T == {n \in 0..N : w[n] = v[n]}
<1>2. N \in Nat
  OBVIOUS
<1>. HIDE DEF N
<1>3. 0 \in T
  BY <1>1, <1>2
<1>4. ASSUME NEW n \in 1..N, n - 1 \in T PROVE n \in T
  <2>1. v[n] = 10 * v[n - 1] + DigitOf[s[n]] /\ w[n] = 10 * w[n - 1] + DigitOf[s[n]]
    BY <1>1 DEF N
  <2>2. w[n - 1] = v[n - 1] /\ n \in 0..N
    BY <1>2, <1>4
  <2>. QED BY <2>1, <2>2
<1>5. N \in T
  <2>1. N \in 0..N
    BY <1>2
  <2>. HIDE DEF T
  <2>. QED BY <1>2, <1>3, <1>4, <2>1, UpToN
<1>. QED BY <1>1, <1>5 DEF N

(* Digits behind digits. *)
LEMMA NumeralOfBoth ==
  ASSUME NEW a \in Seq(Digits), NEW b \in Seq(Digits)
  PROVE  /\ a \o b \in Seq(Digits)
         /\ Numeral(a \o b) = Numeral(a) * TenTo(Len(b)) + Numeral(b)
<1>. DEFINE ab == a \o b
            A == Len(a)
            B == Len(b)
<1>1. /\ ab \in Seq(Digits) /\ Len(ab) = A + B /\ A \in Nat /\ B \in Nat
      /\ \A n \in 1..A : ab[n] = a[n]
      /\ \A n \in 1..B : ab[A + n] = b[n]
  OBVIOUS
<1>2. PICK u \in [0..A -> Nat] :
         /\ u[0] = 0
         /\ \A n \in 1..A : u[n] = 10 * u[n - 1] + DigitOf[a[n]]
         /\ Numeral(a) = u[A]
  BY NumeralFunction
<1>3. PICK v \in [0..B -> Nat] :
         /\ v[0] = 0
         /\ \A n \in 1..B : v[n] = 10 * v[n - 1] + DigitOf[b[n]]
         /\ Numeral(b) = v[B]
  BY NumeralFunction
<1>. HIDE DEF ab, A, B
<1>. DEFINE w == [n \in 0..A+B |-> IF n <= A THEN u[n]
                                   ELSE u[A] * TenTo(n - A) + v[n - A]]
<1>4. w[0] = 0
  BY <1>1, <1>2
<1>5. \A n \in 0..B : w[A + n] = u[A] * TenTo(n) + v[n]
  <2>. SUFFICES ASSUME NEW n \in 0..B PROVE w[A + n] = u[A] * TenTo(n) + v[n]
    OBVIOUS
  <2>1. CASE n = 0
    <3>1. w[A + n] = u[A] /\ v[n] = 0 /\ u[A] \in Nat
      BY <1>1, <1>3, <2>1
    <3>2. TenTo(0) = 1
      BY <1>1, TenFacts
    <3>. QED BY <2>1, <3>1, <3>2
  <2>2. CASE n # 0
    <3>1. A + n \in 0..A+B /\ ~(A + n <= A) /\ (A + n) - A = n
      BY <1>1, <2>2
    <3>. QED BY <3>1
  <2>. QED BY <2>1, <2>2
<1>6. ASSUME NEW n \in 1..A+B PROVE w[n] = 10 * w[n - 1] + DigitOf[ab[n]]
  <2>1. CASE n <= A
    <3>1. n \in 1..A /\ n \in 0..A+B /\ n - 1 \in 0..A+B /\ n - 1 <= A
      BY <1>1, <2>1
    <3>2. w[n] = u[n] /\ w[n - 1] = u[n - 1] /\ ab[n] = a[n]
      BY <1>1, <2>1, <3>1
    <3>. QED BY <1>2, <3>1, <3>2
  <2>2. CASE ~(n <= A)
    <3>. DEFINE k == n - A
    <3>1. k \in 1..B /\ k - 1 \in 0..B /\ k \in 0..B /\ n = A + k /\ n - 1 = A + (k - 1)
      BY <1>1, <2>2
    <3>. HIDE DEF k, w
    <3>2. /\ w[n] = u[A] * TenTo(k) + v[k]
          /\ w[n - 1] = u[A] * TenTo(k - 1) + v[k - 1]
      BY <1>5, <3>1
    <3>3. ab[n] = b[k] /\ v[k] = 10 * v[k - 1] + DigitOf[b[k]]
      BY <1>1, <1>3, <3>1
    <3>4. TenTo(k) = 10 * TenTo(k - 1) /\ TenTo(k - 1) \in Nat
      <4>1. k - 1 \in Nat /\ (k - 1) + 1 = k
        BY <1>1, <3>1
      <4>. QED BY <4>1, TenFacts
    <3>5. DigitOf[b[k]] \in 0..9
      <4>1. b[k] \in Digits
        BY <3>1, ElementOfSeq DEF B
      <4>. QED BY <4>1, DigitFacts, Zenon
    <3>6. u[A] \in Nat /\ v[k - 1] \in Nat
      BY <1>1, <3>1
    <3>7. \A x, y, z \in Nat, d \in 0..9 :
             x * (10 * y) + (10 * z + d) = 10 * (x * y + z) + d
      OBVIOUS
    <3>8. u[A] * (10 * TenTo(k - 1)) + (10 * v[k - 1] + DigitOf[b[k]])
            = 10 * (u[A] * TenTo(k - 1) + v[k - 1]) + DigitOf[b[k]]
      BY <3>4, <3>5, <3>7, <3>6, Zenon
    <3>. QED BY <3>2, <3>3, <3>4, <3>8, Zenon
  <2>. QED BY <2>1, <2>2
<1>7. w[A + B] = Numeral(ab)
  <2>. HIDE DEF w
  <2>. QED BY <1>1, <1>4, <1>6, NumeralUnique
<1>8. w[A + B] = u[A] * TenTo(B) + v[B]
  <2>. HIDE DEF w
  <2>. QED BY <1>1, <1>5
<1>. QED BY <1>1, <1>2, <1>3, <1>7, <1>8 DEF ab, A, B

LEMMA NumeralBasics ==
  /\ Numeral(<<>>) = 0
  /\ \A s \in Seq(Digits) : Numeral(s) \in Nat
  /\ \A c \in Digits : <<c>> \in Seq(Digits) /\ Numeral(<<c>>) = DigitOf[c]
<1>1. \A s \in Seq(Digits) : Numeral(s) \in Nat
  <2>. SUFFICES ASSUME NEW s \in Seq(Digits) PROVE Numeral(s) \in Nat
    OBVIOUS
  <2>1. PICK v \in [0..Len(s) -> Nat] : Numeral(s) = v[Len(s)]
    BY NumeralFunction
  <2>. QED BY <2>1
<1>2. Numeral(<<>>) = 0
  <2>1. <<>> \in Seq(Digits) /\ Len(<<>>) = 0
    OBVIOUS
  <2>. QED BY <2>1, NumeralFunction
<1>3. ASSUME NEW c \in Digits
      PROVE  <<c>> \in Seq(Digits) /\ Numeral(<<c>>) = DigitOf[c]
  <2>1. <<c>> \in Seq(Digits) /\ Len(<<c>>) = 1 /\ <<c>>[1] = c
    OBVIOUS
  <2>2. PICK v \in [0..1 -> Nat] :
           /\ v[0] = 0
           /\ \A n \in 1..1 : v[n] = 10 * v[n - 1] + DigitOf[<<c>>[n]]
           /\ Numeral(<<c>>) = v[1]
    BY <2>1, NumeralFunction
  <2>3. v[1] = 10 * v[1 - 1] + DigitOf[c]
    BY <2>1, <2>2
  <2>4. DigitOf[c] \in 0..9
    BY DigitFacts
  <2>. QED BY <2>1, <2>2, <2>3, <2>4
<1>. QED BY <1>1, <1>2, <1>3

-----------------------------------------------------------------------------
(* Integers.                                                               *)

LEMMA Division ==
  ASSUME NEW n \in Int, NEW d \in Nat \ {0}
  PROVE  /\ n \div d \in Int /\ n % d \in 0..d-1
         /\ n = d * (n \div d) + (n % d)
OBVIOUS

(* A quotient and a remainder are the ones. *)
LEMMA DivisionUnique ==
  ASSUME NEW q \in Int, NEW d \in Nat \ {0}, NEW r \in 0..d-1
  PROVE  (d * q + r) \div d = q /\ (d * q + r) % d = r
<1>. DEFINE n == d * q + r
            p == n \div d
            s == n % d
<1>1. d * q \in Int /\ n \in Int
  OBVIOUS
<1>2. p \in Int /\ s \in 0..d-1 /\ n = d * p + s
  <2>. HIDE DEF n
  <2>. QED BY <1>1, Division
<1>3. d * (q - p) = s - r
  <2>1. d * q - d * p = s - r /\ d * (q - p) = d * q - d * p
    <3>1. d * q \in Int /\ d * p \in Int /\ d * q + r = d * p + s
      BY <1>1, <1>2
    <3>2. d * (q - p) = d * q - d * p
      BY <1>2
    <3>. HIDE DEF p, s
    <3>. QED BY <1>2, <3>1, <3>2
  <2>. QED BY <2>1
<1>4. q = p
  <2>. HIDE DEF p, s
  <2>1. q - p \in Int /\ s - r \in -(d - 1)..d-1
    BY <1>2
  <2>2. \A k \in Int : d * k \in -(d - 1)..d-1 => k = 0
    <3>. SUFFICES ASSUME NEW k \in Int, k # 0 PROVE d * k \notin -(d - 1)..d-1
      OBVIOUS
    <3>1. CASE k >= 1
      <4>1. d * (k - 1) >= 0 /\ d * k = d * (k - 1) + d
        BY <3>1
      <4>. QED BY <4>1
    <3>2. CASE k <= -1
      <4>1. d * (-1 - k) >= 0 /\ d * k = -(d * (-1 - k)) - d
        BY <3>2
      <4>. QED BY <4>1
    <3>. QED BY <3>1, <3>2
  <2>3. q - p = 0
    BY <1>3, <2>1, <2>2
  <2>. QED BY <1>2, <2>3
<1>5. s = r
  <2>1. d * (q - p) = 0
    BY <1>2, <1>4
  <2>. HIDE DEF p, s
  <2>. QED BY <1>2, <1>3, <2>1
<1>. QED BY <1>4, <1>5

(* The limits, and what conversions do with what is within them. *)
LEMMA Limits ==
  /\ INT_MAX \in Nat \ {0} /\ UINT_MAX \in Nat /\ INT_MIN \in Int
  /\ UINT_MAX = 2 * INT_MAX + 1 /\ INT_MIN = -INT_MAX - 1
BY FixedPointAssumption DEF UINT_MAX, INT_MIN

LEMMA UintFits ==
  ASSUME NEW n \in 0..UINT_MAX
  PROVE  ToUint(n) = n
<1>1. UINT_MAX + 1 \in Nat \ {0} /\ n \in 0..(UINT_MAX + 1) - 1 /\ 0 \in Int
  BY Limits
<1>2. ((UINT_MAX + 1) * 0 + n) % (UINT_MAX + 1) = n
  BY <1>1, DivisionUnique
<1>3. (UINT_MAX + 1) * 0 + n = n
  BY <1>1
<1>. QED BY <1>2, <1>3 DEF ToUint

LEMMA IntFits ==
  ASSUME NEW n \in INT_MIN..INT_MAX
  PROVE  ToInt(n) = n
<1>1. CASE n >= 0
  <2>1. ToUint(n) = n /\ ~(n > INT_MAX)
    BY <1>1, Limits, UintFits
  <2>. QED BY <2>1 DEF ToInt
<1>2. CASE n < 0
  <2>1. n + (UINT_MAX + 1) \in 0..(UINT_MAX + 1) - 1 /\ n + (UINT_MAX + 1) > INT_MAX
    BY <1>2, Limits
  <2>2. UINT_MAX + 1 \in Nat \ {0} /\ -1 \in Int
    BY Limits
  <2>3. ((UINT_MAX + 1) * (-1) + (n + (UINT_MAX + 1))) % (UINT_MAX + 1)
          = n + (UINT_MAX + 1)
    BY <2>1, <2>2, DivisionUnique
  <2>4. (UINT_MAX + 1) * (-1) + (n + (UINT_MAX + 1)) = n
    BY Limits
  <2>5. ToUint(n) = n + (UINT_MAX + 1)
    BY <2>3, <2>4 DEF ToUint
  <2>. QED BY <2>1, <2>5, Limits DEF ToInt
<1>. QED BY <1>1, <1>2, Limits

(* Whatever is converted is in the range of its new type. *)
LEMMA ConvertedInRange ==
  ASSUME NEW n \in Int
  PROVE  ToUint(n) \in 0..UINT_MAX /\ ToInt(n) \in INT_MIN..INT_MAX
<1>1. UINT_MAX + 1 \in Nat \ {0}
  BY Limits
<1>2. ToUint(n) \in 0..UINT_MAX
  BY <1>1, Division, Limits DEF ToUint
<1>. QED BY <1>2, Limits DEF ToInt

(* The check is right: it asks whether the next number is too large. *)
LEMMA OverflowIsSeen ==
  ASSUME NEW val \in 0..UINT_MAX, NEW digit \in 0..9
  PROVE  WouldOverflow(val, digit) <=> 10 * val + digit > UINT_MAX
BY Limits DEF WouldOverflow

(* parse_uint reads the number that digits make, unless it is too large:   *)
(* one that was too large at some digit is so at the end.                  *)
LEMMA ParseDigits ==
  ASSUME NEW f \in Seq(Digits), f # <<>>
  PROVE  parse_uint(f) = IF Numeral(f) <= UINT_MAX THEN <<Numeral(f)>> ELSE <<>>
<1>1. PICK v \in [0..Len(f) -> Nat] :
         /\ v[0] = 0
         /\ \A n \in 1..Len(f) : v[n] = 10 * v[n - 1] + DigitOf[f[n]]
         /\ Numeral(f) = v[Len(f)]
  BY NumeralFunction
<1>. DEFINE N == Len(f)
            Step(x, n) == IF x = <<>> \/ WouldOverflow(x[1], DigitOf[f[n]])
                          THEN <<>> ELSE <<ToUint(10 * x[1] + DigitOf[f[n]])>>
            Value(u) == [n \in 0..N |-> IF n = 0 THEN <<0>> ELSE Step(u[n - 1], n)]
            g == [n \in 0..N |-> IF v[n] <= UINT_MAX THEN <<v[n]>> ELSE <<>>]
            J == CHOOSE u : u = Value(u)
<1>2. N \in Nat /\ AllDigits(f) /\ \A n \in 1..N : DigitOf[f[n]] \in 0..9
  <2>1. N \in Nat /\ \A n \in 1..N : f[n] \in Digits
    BY LenProperties, ElementOfSeq
  <2>2. DOMAIN f = 1..N
    OBVIOUS
  <2>. QED BY <2>1, <2>2, DigitFacts DEF AllDigits
<1>3. parse_uint(f) = J[N]
  BY <1>2, Zenon DEF parse_uint
<1>4. \A n \in 1..N : v[n] = 10 * v[n - 1] + DigitOf[f[n]]
  BY <1>1
<1>5. v[0] = 0 /\ v \in [0..N -> Nat]
  BY <1>1
<1>. HIDE DEF N
<1>6. ASSUME NEW n \in 1..N PROVE g[n] = Step(g[n - 1], n)
  <2>1. /\ n \in 0..N /\ n - 1 \in 0..N /\ v[n - 1] \in Nat /\ v[n] \in Nat
    BY <1>2, <1>5
  <2>2. DigitOf[f[n]] \in 0..9 /\ v[n] = 10 * v[n - 1] + DigitOf[f[n]]
    BY <1>2, <1>4
  <2>3. CASE v[n - 1] > UINT_MAX
    <3>1. v[n] > UINT_MAX
      <4>1. \A x \in Nat, d \in 0..9 : x > UINT_MAX => 10 * x + d > UINT_MAX
        BY Limits
      <4>. QED BY <2>1, <2>2, <2>3, <4>1, Zenon
    <3>2. g[n] = <<>> /\ g[n - 1] = <<>>
      BY <2>1, <2>3, <3>1, Limits
    <3>. HIDE DEF g
    <3>. QED BY <3>2
  <2>4. CASE v[n - 1] <= UINT_MAX
    <3>1. g[n - 1] = <<v[n - 1]>> /\ v[n - 1] \in 0..UINT_MAX
      BY <2>1, <2>4, Limits
    <3>2. WouldOverflow(v[n - 1], DigitOf[f[n]]) <=> v[n] > UINT_MAX
      BY <2>2, <3>1, OverflowIsSeen
    <3>3. ~(v[n] > UINT_MAX) => ToUint(v[n]) = v[n]
      BY <2>1, Limits, UintFits
    <3>4. g[n] = IF v[n] > UINT_MAX THEN <<>> ELSE <<v[n]>>
      BY <2>1, Limits
    <3>5. <<v[n - 1]>> # <<>> /\ <<v[n - 1]>>[1] = v[n - 1]
      OBVIOUS
    <3>. HIDE DEF g
    <3>. QED BY <2>2, <3>1, <3>2, <3>3, <3>4, <3>5
  <2>. QED BY <2>1, <2>3, <2>4, Limits
<1>7. g[0] = <<0>>
  BY <1>2, <1>5, Limits
<1>. HIDE DEF Step
<1>8. g = Value(g)
  <2>1. g = [n \in 0..N |-> g[n]]
    OBVIOUS
  <2>. HIDE DEF g
  <2>2. \A n \in 0..N : g[n] = IF n = 0 THEN <<0>> ELSE Step(g[n - 1], n)
    BY <1>2, <1>6, <1>7
  <2>. QED BY <2>1, <2>2, Zenon
<1>9. J = Value(J)
  BY <1>8, Zenon
<1>. HIDE DEF J
<1>10. J[0] = <<0>> /\ \A n \in 1..N : J[n] = Step(J[n - 1], n)
  BY <1>2, <1>9
<1>. DEFINE T == {n \in 0..N : J[n] = g[n]}
<1>11. 0 \in T
  <2>. HIDE DEF g
  <2>. QED BY <1>2, <1>7, <1>10
<1>12. ASSUME NEW n \in 1..N, n - 1 \in T PROVE n \in T
  <2>. HIDE DEF g
  <2>. QED BY <1>2, <1>6, <1>10, <1>12
<1>13. J[N] = g[N]
  <2>1. N \in 0..N
    BY <1>2
  <2>2. N \in T
    <3>. HIDE DEF T
    <3>. QED BY <1>2, <1>11, <1>12, <2>1, UpToN
  <2>. QED BY <2>2
<1>14. g[N] = IF v[N] <= UINT_MAX THEN <<v[N]>> ELSE <<>>
  BY <1>2
<1>. QED BY <1>1, <1>3, <1>13, <1>14 DEF N

LEMMA ParseUint ==
  ASSUME NEW f \in Seq(STRING)
  PROVE  parse_uint(f) = UnsignedIn(f)
<1>1. CASE f # <<>> /\ AllDigits(f)
  <2>1. \A n \in 1..Len(f) : f[n] \in Digits
    BY <1>1 DEF AllDigits
  <2>2. f \in Seq(Digits)
    BY <2>1
  <2>. QED BY <1>1, <2>2, ParseDigits DEF UnsignedIn
<1>2. CASE ~(f # <<>> /\ AllDigits(f))
  BY <1>2 DEF parse_uint, UnsignedIn
<1>. QED BY <1>1, <1>2

LEMMA SignlessIsText ==
  ASSUME NEW f \in Seq(STRING)
  PROVE  Signless(f) \in Seq(STRING)
<1>1. f # <<>> => Tail(f) \in Seq(STRING)
  BY HeadTailProperties
<1>. QED BY <1>1 DEF Signless

(* parse_int reads the signed number, over the whole range. *)
LEMMA ParseInt ==
  ASSUME NEW f \in Seq(STRING)
  PROVE  parse_int(f) = SignedIn(f)
<1>. DEFINE s == Signless(f)
            n == Numeral(s)
<1>1. s \in Seq(STRING)
  BY SignlessIsText
<1>2. parse_uint(s) = UnsignedIn(s)
  BY <1>1, ParseUint
<1>3. CASE s # <<>> /\ AllDigits(s)
  <2>1. n \in Nat
    <3>1. s \in Seq(Digits)
      <4>1. \A i \in 1..Len(s) : s[i] \in Digits
        BY <1>1, <1>3 DEF AllDigits
      <4>. QED BY <1>1, <4>1
    <3>. QED BY <3>1, NumeralBasics
  <2>. HIDE DEF n, s
  <2>2. parse_uint(s) = IF n <= UINT_MAX THEN <<n>> ELSE <<>>
    BY <1>2, <1>3 DEF UnsignedIn, n
  <2>3. SignedIn(f) = IF Minus(f, n) \in INT_MIN..INT_MAX THEN <<Minus(f, n)>> ELSE <<>>
    BY <1>3 DEF SignedIn, n, s
  <2>4. CASE n > Limit(IsNegative(f))
    <3>1. parse_int(f) = <<>>
      BY <2>2, <2>4 DEF parse_int, s
    <3>2. Minus(f, n) \notin INT_MIN..INT_MAX
      BY <2>1, <2>4, Limits DEF Limit, Minus
    <3>. QED BY <2>3, <3>1, <3>2
  <2>5. CASE ~(n > Limit(IsNegative(f)))
    <3>1. n <= UINT_MAX /\ Minus(f, n) \in INT_MIN..INT_MAX /\ n <= INT_MAX + 1
      BY <2>1, <2>5, Limits DEF Limit, Minus
    <3>2. parse_int(f) = <<IF IsNegative(f) THEN ToInt(-ToInt(n)) ELSE ToInt(n)>>
      BY <2>2, <2>5, <3>1 DEF parse_int, s
    <3>3. n <= INT_MAX => ToInt(n) = n /\ ToInt(-n) = -n
      <4>1. n <= INT_MAX => n \in INT_MIN..INT_MAX /\ -n \in INT_MIN..INT_MAX
        BY <2>1, Limits
      <4>. QED BY <4>1, IntFits
    <3>4. n = INT_MAX + 1 => ToInt(n) = INT_MIN /\ ToInt(-ToInt(n)) = INT_MIN
      <4>1. ToUint(INT_MAX + 1) = INT_MAX + 1
        <5>1. INT_MAX + 1 \in 0..UINT_MAX
          BY Limits
        <5>. QED BY <5>1, UintFits
      <4>2. ToInt(INT_MAX + 1) = INT_MIN
        BY <4>1, Limits DEF ToInt
      <4>3. -INT_MIN = INT_MAX + 1
        BY Limits
      <4>. QED BY <4>2, <4>3
    <3>5. n <= INT_MAX \/ (n = INT_MAX + 1 /\ IsNegative(f))
      BY <2>1, <2>5, <3>1, Limits DEF Limit
    <3>. QED BY <2>1, <2>3, <3>1, <3>2, <3>3, <3>4, <3>5, Limits DEF Minus
  <2>. QED BY <2>4, <2>5
<1>4. CASE ~(s # <<>> /\ AllDigits(s))
  BY <1>2, <1>4 DEF parse_int, SignedIn, UnsignedIn
<1>. QED BY <1>3, <1>4

-----------------------------------------------------------------------------
(* Fixed-point numbers.                                                    *)

(* So many digits make a number less than that power of ten. *)
LEMMA NumeralBound ==
  ASSUME NEW s \in Seq(Digits)
  PROVE  Numeral(s) < TenTo(Len(s))
<1>1. PICK v \in [0..Len(s) -> Nat] :
         /\ v[0] = 0
         /\ \A n \in 1..Len(s) : v[n] = 10 * v[n - 1] + DigitOf[s[n]]
         /\ Numeral(s) = v[Len(s)]
  BY NumeralFunction
<1>. DEFINE N == Len(s)
            T == {n \in 0..N : v[n] < TenTo(n)}
<1>2. N \in Nat /\ \A n \in 1..N : DigitOf[s[n]] \in 0..9
  <2>1. N \in Nat /\ \A n \in 1..N : s[n] \in Digits
    BY LenProperties, ElementOfSeq
  <2>. QED BY <2>1, DigitFacts
<1>3. \A n \in 1..N : v[n] = 10 * v[n - 1] + DigitOf[s[n]]
  BY <1>1
<1>4. v[0] = 0 /\ v \in [0..N -> Nat]
  BY <1>1
<1>. HIDE DEF N
<1>5. 0 \in T
  BY <1>2, <1>4, TenFacts
<1>6. ASSUME NEW n \in 1..N, n - 1 \in T PROVE n \in T
  <2>1. TenTo(n) = 10 * TenTo(n - 1) /\ TenTo(n - 1) \in Nat
    <3>1. n - 1 \in Nat /\ (n - 1) + 1 = n
      BY <1>2
    <3>. QED BY <3>1, TenFacts
  <2>2. v[n - 1] \in Nat /\ v[n - 1] < TenTo(n - 1) /\ n \in 0..N
    BY <1>2, <1>4, <1>6
  <2>3. \A x, y \in Nat, d \in 0..9 : x < y => 10 * x + d < 10 * y
    OBVIOUS
  <2>4. DigitOf[s[n]] \in 0..9 /\ v[n] = 10 * v[n - 1] + DigitOf[s[n]]
    BY <1>2, <1>3
  <2>5. v[n] < TenTo(n)
    BY <2>1, <2>2, <2>3, <2>4, Zenon
  <2>. QED BY <2>2, <2>5
<1>7. N \in T
  <2>1. N \in 0..N
    BY <1>2
  <2>. HIDE DEF T
  <2>. QED BY <1>2, <1>5, <1>6, <2>1, UpToN
<1>. QED BY <1>1, <1>7 DEF N

LEMMA LeastOf ==
  ASSUME NEW I \in SUBSET Nat, I # {}
  PROVE  Min(I) \in I /\ \A i \in I : Min(I) <= i
<1>1. \E m \in I : \A i \in I : m <= i
  BY LeastNat
<1>. QED BY <1>1 DEF Min

(* Where the point is, if there is one. *)
LEMMA PointFacts ==
  ASSUME NEW f \in Seq(STRING)
  PROVE  /\ Point(f) \in 0..Len(Signless(f))
         /\ Point(f) # 0 => Signless(f)[Point(f)] = "."
<1>. DEFINE body == Signless(f)
            I == {i \in 1..Len(body) : body[i] = "."}
<1>1. Point(f) = IF I # {} THEN Min(I) ELSE 0
  BY DEF Point, SelectInSeq
<1>2. body \in Seq(STRING)
  BY SignlessIsText
<1>. HIDE DEF body
<1>3. Len(body) \in Nat
  BY <1>2
<1>4. CASE I # {}
  <2>1. Min(I) \in I
    <3>1. I \in SUBSET Nat
      BY <1>3
    <3>. HIDE DEF I
    <3>. QED BY <1>4, <3>1, LeastOf
  <2>. QED BY <1>1, <1>3, <1>4, <2>1 DEF body
<1>5. CASE I = {}
  BY <1>1, <1>3, <1>5 DEF body
<1>. QED BY <1>4, <1>5

(* What comes before the point and what comes after it. *)
Whole(f) == SubSeq(Signless(f), 1, Point(f) - 1)
Fraction(f) == SubSeq(Signless(f), Point(f) + 1, Len(Signless(f)))

LEMMA PartsOfNumber ==
  ASSUME NEW f \in Seq(STRING)
  PROVE  /\ Whole(f) \in Seq(STRING) /\ Fraction(f) \in Seq(STRING)
         /\ Unpointed(f) = Whole(f) \o Fraction(f)
         /\ Len(Fraction(f)) = Decimals(f) /\ Decimals(f) \in Nat
         /\ Unpointed(f) = <<>> <=> Signless(f) \in {<<>>, <<".">>}
<1>. DEFINE body == Signless(f)
            p == Point(f)
<1>1. body \in Seq(STRING) /\ p \in 0..Len(body) /\ (p # 0 => body[p] = ".")
  BY SignlessIsText, PointFacts
<1>2. Whole(f) = SubSeq(body, 1, p - 1) /\ Fraction(f) = SubSeq(body, p + 1, Len(body))
  BY DEF Whole, Fraction
<1>3. Unpointed(f) = IF p = 0 THEN body
                                 ELSE SubSeq(body, 1, p-1) \o SubSeq(body, p+1, Len(body))
  BY DEF Unpointed, RemoveAt
<1>4. Decimals(f) = Len(body) - p
  BY DEF Decimals
<1>. HIDE DEF body, p
<1>5. /\ SubSeq(body, 1, p - 1) \in Seq(STRING)
      /\ SubSeq(body, p + 1, Len(body)) \in Seq(STRING)
      /\ Len(SubSeq(body, p + 1, Len(body))) = Len(body) - p
      /\ Len(body) - p \in Nat
      /\ p # 0 => Len(SubSeq(body, 1, p - 1)) = p - 1
  BY <1>1
<1>6. p = 0 => SubSeq(body, 1, p-1) \o SubSeq(body, p+1, Len(body)) = body
  <2>. SUFFICES ASSUME p = 0
                PROVE  SubSeq(body, 1, p-1) \o SubSeq(body, p+1, Len(body)) = body
    OBVIOUS
  <2>1. SubSeq(body, 1, p - 1) = <<>> /\ SubSeq(body, p + 1, Len(body)) = body
    BY <1>1
  <2>. QED BY <1>1, <2>1
<1>7. Unpointed(f) = <<>> <=> body \in {<<>>, <<".">>}
  <2>1. CASE p = 0
    <3>1. Unpointed(f) = body
      BY <1>3, <2>1
    <3>2. ASSUME body = <<".">> PROVE FALSE
      <4>1. \E i \in 1..Len(body) : body[i] = "."
        BY <3>2
      <4>2. Point(f) # 0
        <5>. DEFINE I == {i \in 1..Len(body) : body[i] = "."}
        <5>1. Point(f) = IF I # {} THEN Min(I) ELSE 0
          BY DEF Point, SelectInSeq, body
        <5>2. I # {} /\ I \in SUBSET Nat /\ 0 \notin I
          BY <1>1, <4>1
        <5>. HIDE DEF I
        <5>. QED BY <5>1, <5>2, LeastOf
      <4>. QED BY <2>1, <4>2 DEF p
    <3>. QED BY <3>1, <3>2
  <2>2. CASE p # 0
    <3>. DEFINE a == SubSeq(body, 1, p - 1)
                b == SubSeq(body, p + 1, Len(body))
    <3>1. a \in Seq(STRING) /\ b \in Seq(STRING) /\ Len(a) = p - 1 /\ Len(b) = Len(body) - p
      BY <1>5, <2>2
    <3>2. Unpointed(f) = a \o b
      BY <1>3, <2>2
    <3>. HIDE DEF a, b
    <3>3. Len(a \o b) = Len(body) - 1
      BY <1>1, <3>1
    <3>4. a \o b = <<>> <=> Len(a \o b) = 0
      BY <3>1
    <3>5. Len(body) = 1 <=> body \in {<<>>, <<".">>}
      BY <1>1, <2>2
    <3>. QED BY <1>1, <3>2, <3>3, <3>4, <3>5
  <2>. QED BY <2>1, <2>2
<1>. QED BY <1>2, <1>3, <1>4, <1>5, <1>6, <1>7 DEF body

LEMMA PartIs ==
  ASSUME NEW s \in Seq(STRING)
  PROVE  /\ AllDigits(s) => /\ s \in Seq(Digits) /\ Numeral(s) \in Nat
                            /\ Part(s) = IF Numeral(s) <= UINT_MAX THEN <<Numeral(s)>>
                                         ELSE <<>>
         /\ ~AllDigits(s) => Part(s) = <<>>
<1>1. CASE s = <<>>
  <2>1. AllDigits(s) /\ s \in Seq(Digits) /\ Numeral(s) = 0 /\ 0 <= UINT_MAX
    BY <1>1, NumeralBasics, Limits DEF AllDigits
  <2>. QED BY <1>1, <2>1 DEF Part
<1>2. CASE s # <<>>
  <2>1. Part(s) = UnsignedIn(s)
    BY <1>2, ParseUint DEF Part
  <2>2. AllDigits(s) => s \in Seq(Digits)
    <3>1. AllDigits(s) => \A i \in 1..Len(s) : s[i] \in Digits
      BY DEF AllDigits
    <3>. QED BY <3>1
  <2>3. AllDigits(s) => Numeral(s) \in Nat
    BY <2>2, NumeralBasics
  <2>. QED BY <1>2, <2>1, <2>2, <2>3 DEF UnsignedIn
<1>. QED BY <1>1, <1>2

LEMMA DigitsOfBoth ==
  ASSUME NEW a \in Seq(STRING), NEW b \in Seq(STRING)
  PROVE  AllDigits(a \o b) <=> AllDigits(a) /\ AllDigits(b)
<1>. DEFINE ab == a \o b
            A == Len(a)
            B == Len(b)
<1>1. /\ Len(ab) = A + B /\ A \in Nat /\ B \in Nat
      /\ DOMAIN ab = 1..A+B /\ DOMAIN a = 1..A /\ DOMAIN b = 1..B
      /\ \A n \in 1..A : ab[n] = a[n]
      /\ \A n \in 1..B : ab[A + n] = b[n]
  OBVIOUS
<1>. HIDE DEF ab, A, B
<1>2. ASSUME AllDigits(ab) PROVE AllDigits(a) /\ AllDigits(b)
  <2>1. \A n \in 1..A : n \in 1..A+B
    BY <1>1
  <2>2. \A n \in 1..B : A + n \in 1..A+B
    BY <1>1
  <2>. QED BY <1>1, <1>2, <2>1, <2>2 DEF AllDigits
<1>3. ASSUME AllDigits(a), AllDigits(b) PROVE AllDigits(ab)
  <2>1. ASSUME NEW n \in 1..A+B PROVE ab[n] \in Digits
    <3>1. CASE n \in 1..A
      BY <1>1, <1>3, <3>1 DEF AllDigits
    <3>2. CASE n \notin 1..A
      <4>1. n - A \in 1..B /\ A + (n - A) = n
        BY <1>1, <3>2
      <4>2. ab[n] = b[n - A]
        BY <1>1, <4>1
      <4>. QED BY <1>1, <1>3, <4>1, <4>2 DEF AllDigits
    <3>. QED BY <3>1, <3>2
  <2>. QED BY <1>1, <2>1 DEF AllDigits
<1>. QED BY <1>2, <1>3 DEF ab

(* A fixed-point number is the one in its field, or none if that is too     *)
(* large: whether the product, the sum or a part is, it is refused.         *)
LEMMA CombinedIs ==
  ASSUME NEW negative \in BOOLEAN, NEW A \in Nat, NEW T \in Nat \ {0}, T <= INT_MAX,
         NEW B \in Nat, B < T
  PROVE  Combined(negative, IF A <= UINT_MAX THEN <<A>> ELSE <<>>,
                  IF B <= UINT_MAX THEN <<B>> ELSE <<>>, T) =
         IF A * T + B <= INT_MAX
         THEN [value |-> IF negative THEN -(A * T + B) ELSE A * T + B, scale |-> T]
         ELSE NoNumber
<1>. DEFINE n == A * T + B
            q == INT_MAX \div T
<1>1. n \in Nat /\ A * T \in Nat /\ B <= n /\ B <= UINT_MAX /\ A * T <= n
  BY Limits
<1>2. A <= A * T
  <2>1. A * (T - 1) >= 0 /\ A * T = A * (T - 1) + A
    OBVIOUS
  <2>. QED BY <2>1
<1>3. A > q <=> A * T > INT_MAX
  <2>1. q \in Int /\ INT_MAX % T \in 0..T-1 /\ INT_MAX = T * q + (INT_MAX % T)
    <3>1. INT_MAX \in Int
      BY Limits
    <3>. HIDE DEF q
    <3>. QED BY <3>1, Division DEF q
  <2>. DEFINE r == INT_MAX % T
  <2>. HIDE DEF q, r
  <2>2. ASSUME A > q PROVE A * T > INT_MAX
    <3>1. T * (A - (q + 1)) >= 0 /\ T * (A - (q + 1)) = T * A - (T * q + T)
      BY <2>1, <2>2
    <3>. QED BY <2>1, <3>1, Limits DEF r
  <2>3. ASSUME A <= q PROVE A * T <= INT_MAX
    <3>1. T * (q - A) >= 0 /\ T * (q - A) = T * q - T * A
      BY <2>1, <2>3
    <3>. QED BY <2>1, <3>1, Limits DEF r
  <2>. QED BY <2>1, <2>2, <2>3
<1>4. ToInt(T) = T
  BY Limits, IntFits
<1>5. CASE n <= INT_MAX
  <2>1. A <= UINT_MAX /\ ~(A > q) /\ ToUint(n) = n
    BY <1>1, <1>2, <1>3, <1>5, Limits, UintFits
  <2>2. ~TooLarge(A, B, T)
    BY <1>1, <1>5, <2>1, Limits DEF TooLarge
  <2>3. <<A>>[1] = A /\ <<B>>[1] = B /\ <<A>> # <<>> /\ <<B>> # <<>>
    OBVIOUS
  <2>. HIDE DEF n, q
  <2>4. Combined(negative, <<A>>, <<B>>, T) =
          [value |-> IF negative THEN -ToUint(A * T + B) ELSE ToUint(A * T + B),
           scale |-> ToInt(T)]
    BY <2>2, <2>3 DEF Combined
  <2>. QED BY <1>1, <1>4, <1>5, <2>1, <2>4 DEF n
<1>6. CASE n > INT_MAX
  <2>1. CASE A <= UINT_MAX
    <3>1. ASSUME ~(A > q) PROVE ToUint(n) > INT_MAX
      <4>1. A * T <= INT_MAX
        BY <1>1, <1>3, <3>1, Limits
      <4>2. n <= UINT_MAX
        BY <1>1, <4>1, Limits
      <4>. QED BY <1>1, <1>6, <4>2, Limits, UintFits
    <3>2. TooLarge(A, B, T)
      BY <3>1 DEF TooLarge
    <3>3. <<A>>[1] = A /\ <<B>>[1] = B
      OBVIOUS
    <3>. HIDE DEF n, q
    <3>4. Combined(negative, <<A>>, <<B>>, T) = NoNumber
      BY <3>2, <3>3 DEF Combined
    <3>. QED BY <1>1, <1>6, <2>1, <3>4, Limits DEF n
  <2>2. CASE ~(A <= UINT_MAX)
    <3>. HIDE DEF n, q
    <3>. QED BY <1>1, <1>6, <2>2, Limits DEF Combined, n
  <2>. QED BY <2>1, <2>2
<1>. QED BY <1>1, <1>5, <1>6, Limits

LEMMA ParseFloat ==
  ASSUME NEW f \in Seq(STRING), ScaleHolds(f)
  PROVE  parse_fixedpoint_float(f) = NumberIn(f)
<1>. DEFINE a == Whole(f)
            b == Fraction(f)
            body == Signless(f)
<1>1. /\ a \in Seq(STRING) /\ b \in Seq(STRING) /\ Unpointed(f) = a \o b
      /\ Len(b) = Decimals(f) /\ Decimals(f) \in Nat
      /\ Unpointed(f) = <<>> <=> body \in {<<>>, <<".">>}
  BY PartsOfNumber
<1>2. parse_fixedpoint_float(f) =
        IF body \in {<<>>, <<".">>} THEN NoNumber
        ELSE Combined(IsNegative(f), Part(a), Part(b), ToUint(TenTo(Decimals(f))))
  BY DEF parse_fixedpoint_float, Whole, Fraction, Decimals, Point
<1>. DEFINE T == TenTo(Decimals(f))
            A == Numeral(a)
            B == Numeral(b)
<1>3. T \in Nat \ {0} /\ T <= INT_MAX
  BY <1>1, TenFacts DEF ScaleHolds
<1>4. ToUint(T) = T
  BY <1>3, Limits, UintFits
<1>5. AllDigits(Unpointed(f)) <=> AllDigits(a) /\ AllDigits(b)
  BY <1>1, DigitsOfBoth
<1>. HIDE DEF body
<1>6. CASE Unpointed(f) = <<>>
  BY <1>1, <1>2, <1>6 DEF NumberIn, IsNumber
<1>7. CASE Unpointed(f) # <<>> /\ ~AllDigits(Unpointed(f))
  <2>1. Part(a) = <<>> \/ Part(b) = <<>>
    BY <1>1, <1>5, <1>7, PartIs
  <2>. QED BY <1>1, <1>2, <1>7, <2>1 DEF NumberIn, IsNumber, Combined
<1>8. CASE Unpointed(f) # <<>> /\ AllDigits(Unpointed(f))
  <2>1. /\ a \in Seq(Digits) /\ b \in Seq(Digits) /\ A \in Nat /\ B \in Nat
        /\ Part(a) = IF A <= UINT_MAX THEN <<A>> ELSE <<>>
        /\ Part(b) = IF B <= UINT_MAX THEN <<B>> ELSE <<>>
    BY <1>1, <1>5, <1>8, PartIs
  <2>2. B < T /\ Numeral(Unpointed(f)) = A * T + B
    BY <1>1, <2>1, NumeralBound, NumeralOfBoth
  <2>3. IsNegative(f) \in BOOLEAN
    BY DEF IsNegative
  <2>. HIDE DEF T, A, B
  <2>4. parse_fixedpoint_float(f) =
           Combined(IsNegative(f), IF A <= UINT_MAX THEN <<A>> ELSE <<>>,
                    IF B <= UINT_MAX THEN <<B>> ELSE <<>>, T)
    BY <1>1, <1>2, <1>4, <1>8, <2>1 DEF T
  <2>5. @ = IF A * T + B <= INT_MAX
            THEN [value |-> IF IsNegative(f) THEN -(A * T + B) ELSE A * T + B,
                  scale |-> T]
            ELSE NoNumber
    BY <1>3, <2>1, <2>2, <2>3, CombinedIs
  <2>. QED BY <1>8, <2>2, <2>4, <2>5 DEF NumberIn, IsNumber, Minus, T
<1>. QED BY <1>6, <1>7, <1>8

-----------------------------------------------------------------------------
(* The numbers of a set in order, and the fields of a sentence.            *)

(* u[k] lists those up to k. *)
Lists(P, n, u) ==
  /\ u[0] = <<>>
  /\ \A k \in 1..n : u[k] = IF k \in P THEN Append(u[k - 1], k) ELSE u[k - 1]
  /\ InOrder(P, n) = u[n]

LEMMA InOrderFunction ==
  ASSUME NEW n \in Nat, NEW P
  PROVE  \E u \in [0..n -> Seq(Nat)] : Lists(P, n, u)
<1>. DEFINE nil == <<>>
            Grown(x, k) == IF k \in P THEN Append(x, k) ELSE x
            Value(f) == [k \in 0..n |-> IF k = 0 THEN nil ELSE Grown(f[k - 1], k)]
            step == [k \in 1..n |-> [x \in Seq(Nat) |-> Grown(x, k)]]
            J == CHOOSE f : f = Value(f)
<1>1. nil \in Seq(Nat) /\ \A k \in 1..n, x \in Seq(Nat) : Grown(x, k) \in Seq(Nat)
  OBVIOUS
<1>2. InOrder(P, n) = J[n]
  BY Zenon DEF InOrder
<1>. HIDE DEF Grown, nil
<1>3. step \in [1..n -> [Seq(Nat) -> Seq(Nat)]]
  BY <1>1
<1>4. PICK g \in [0..n -> Seq(Nat)] :
        g[0] = nil /\ \A k \in 1..n : g[k] = step[k][g[k - 1]]
  <2>. HIDE DEF step
  <2>1. nil \in Seq(Nat)
    BY <1>1
  <2>2. Iterations(n, Seq(Nat), nil, step) # {}
    BY <1>3, <2>1, RecursionHolds
  <2>. QED BY <2>2 DEF Iterations
<1>5. \A k \in 1..n : g[k] = Grown(g[k - 1], k)
  <2>1. \A k \in 1..n : g[k - 1] \in Seq(Nat)
    OBVIOUS
  <2>. QED BY <1>4, <2>1
<1>6. g = Value(g)
  <2>1. g = [k \in 0..n |-> g[k]]
    OBVIOUS
  <2>2. \A k \in 0..n : g[k] = IF k = 0 THEN nil ELSE Grown(g[k - 1], k)
    BY <1>4, <1>5
  <2>. QED BY <2>1, <2>2, Zenon
<1>7. J = Value(J)
  BY <1>6, Zenon
<1>. HIDE DEF J
<1>8. J[0] = nil /\ \A k \in 1..n : J[k] = Grown(J[k - 1], k)
  BY <1>7
<1>9. J \in [0..n -> Seq(Nat)]
  <2>. DEFINE T == {k \in 0..n : J[k] \in Seq(Nat)}
  <2>1. 0 \in T
    BY <1>1, <1>8
  <2>2. ASSUME NEW k \in 1..n, k - 1 \in T PROVE k \in T
    BY <1>1, <1>8, <2>2
  <2>3. \A k \in 0..n : k \in T
    <3>. HIDE DEF T
    <3>. QED BY <2>1, <2>2, UpToN
  <2>. QED BY <1>7, <2>3
<1>. QED BY <1>2, <1>8, <1>9 DEF Grown, nil, Lists

(* How many of P are not above k. *)
Rank(P, k) == Cardinality(P \intersect 1..k)

LEMMA RankFacts ==
  ASSUME NEW n \in Nat, NEW P \in SUBSET (1..n), NEW k \in 1..n
  PROVE  /\ Rank(P, 0) = 0 /\ Rank(P, k) \in Nat /\ Rank(P, k - 1) \in Nat
         /\ k \in P => Rank(P, k) = Rank(P, k - 1) + 1
         /\ k \notin P => Rank(P, k) = Rank(P, k - 1)
<1>1. \A i \in 0..n : IsFiniteSet(P \intersect 1..i)
  <2>. SUFFICES ASSUME NEW i \in 0..n PROVE IsFiniteSet(P \intersect 1..i)
    OBVIOUS
  <2>1. IsFiniteSet(1..i) /\ P \intersect 1..i \subseteq 1..i
    <3>1. 1 \in Int /\ i \in Int
      OBVIOUS
    <3>. QED BY <3>1, FS_Interval
  <2>. QED BY <2>1, FS_Subset
<1>2. P \intersect 1..0 = {}
  OBVIOUS
<1>3. k \in P => P \intersect 1..k = (P \intersect 1..k-1) \union {k}
  OBVIOUS
<1>4. k \notin P => P \intersect 1..k = P \intersect 1..k-1
  OBVIOUS
<1>5. k \notin P \intersect 1..k-1 /\ IsFiniteSet(P \intersect 1..k-1)
      /\ IsFiniteSet(P \intersect 1..k)
  <2>1. k - 1 \in 0..n /\ k \in 0..n /\ k \notin 1..k-1
    OBVIOUS
  <2>. QED BY <1>1, <2>1
<1>6. Rank(P, 0) = 0
  BY <1>2, FS_EmptySet DEF Rank
<1>7. Rank(P, k) \in Nat /\ Rank(P, k - 1) \in Nat
  BY <1>5, FS_CardinalityType DEF Rank
<1>8. k \in P => Rank(P, k) = Rank(P, k - 1) + 1
  <2>. DEFINE S == P \intersect 1..k-1
  <2>1. Cardinality(S \union {k}) = Cardinality(S) + 1
    BY <1>5, FS_AddElement
  <2>. QED BY <1>3, <2>1 DEF Rank
<1>9. k \notin P => Rank(P, k) = Rank(P, k - 1)
  BY <1>4 DEF Rank
<1>. QED BY <1>6, <1>7, <1>8, <1>9

(* InOrder lists the numbers of a set, each at its rank. *)
LEMMA InOrderIs ==
  ASSUME NEW n \in Nat, NEW P \in SUBSET (1..n)
  PROVE  /\ InOrder(P, n) \in Seq(P) /\ Len(InOrder(P, n)) = Cardinality(P)
         /\ \A i \in P : /\ Rank(P, i) \in 1..Len(InOrder(P, n))
                         /\ InOrder(P, n)[Rank(P, i)] = i
         /\ \A j \in 1..Len(InOrder(P, n)) : Rank(P, InOrder(P, n)[j]) = j
<1>1. PICK u \in [0..n -> Seq(Nat)] : Lists(P, n, u)
  BY InOrderFunction, Zenon
<1>. DEFINE Good(q, k) ==
              /\ q \in Seq(P) /\ Len(q) = Rank(P, k)
              /\ \A i \in P \intersect 1..k : Rank(P, i) \in 1..Len(q) /\ q[Rank(P, i)] = i
              /\ \A j \in 1..Len(q) : Rank(P, q[j]) = j
            T == {k \in 0..n : Good(u[k], k)}
<1>2. 0 \in T
  <2>1. Rank(P, 0) = 0
    <3>1. P \intersect 1..0 = {}
      OBVIOUS
    <3>. QED BY <3>1, FS_EmptySet DEF Rank
  <2>. QED BY <1>1, <2>1 DEF Lists
<1>3. ASSUME NEW k \in 1..n, k - 1 \in T PROVE k \in T
  <2>. DEFINE q == u[k - 1]
              r == Rank(P, k - 1)
  <2>1. q \in Seq(P) /\ Len(q) = r /\ k \in 0..n /\ r \in Nat
    BY <1>3, RankFacts
  <2>2. \A i \in P \intersect 1..k-1 : Rank(P, i) \in 1..Len(q) /\ q[Rank(P, i)] = i
    BY <1>3
  <2>3. \A j \in 1..Len(q) : Rank(P, q[j]) = j
    BY <1>3
  <2>4. u[k] = IF k \in P THEN Append(q, k) ELSE q
    BY <1>1 DEF Lists
  <2>. HIDE DEF q, r
  <2>5. CASE k \in P
    <3>1. Rank(P, k) = r + 1
      BY <2>5, RankFacts DEF r
    <3>2. u[k] \in Seq(P) /\ Len(u[k]) = r + 1 /\ u[k][r + 1] = k
          /\ \A j \in 1..r : u[k][j] = q[j]
      BY <2>1, <2>4, <2>5
    <3>3. ASSUME NEW i \in P \intersect 1..k
          PROVE  Rank(P, i) \in 1..r+1 /\ u[k][Rank(P, i)] = i
      <4>1. CASE i = k
        BY <2>1, <3>1, <3>2, <4>1
      <4>2. CASE i # k
        <5>1. i \in P \intersect 1..k-1
          BY <4>2
        <5>2. Rank(P, i) \in 1..r /\ q[Rank(P, i)] = i
          BY <2>1, <2>2, <5>1
        <5>. QED BY <2>1, <3>2, <5>2
      <4>. QED BY <4>1, <4>2
    <3>4. ASSUME NEW j \in 1..r+1 PROVE Rank(P, u[k][j]) = j
      <4>1. CASE j = r + 1
        BY <3>1, <3>2, <4>1
      <4>2. CASE j # r + 1
        <5>1. j \in 1..r
          BY <2>1, <4>2
        <5>. QED BY <2>1, <2>3, <3>2, <5>1
      <4>. QED BY <4>1, <4>2
    <3>. QED BY <2>1, <3>1, <3>2, <3>3, <3>4
  <2>6. CASE k \notin P
    <3>1. Rank(P, k) = r
      BY <2>6, RankFacts DEF r
    <3>2. P \intersect 1..k = P \intersect 1..k-1
      BY <2>6
    <3>. QED BY <2>1, <2>2, <2>3, <2>4, <2>6, <3>1, <3>2
  <2>. QED BY <2>5, <2>6
<1>4. n \in T
  <2>1. n \in 0..n
    OBVIOUS
  <2>. HIDE DEF T
  <2>. QED BY <1>2, <1>3, <2>1, UpToN
<1>5. P \intersect 1..n = P
  OBVIOUS
<1>. QED BY <1>1, <1>4, <1>5 DEF Rank, Lists

(* Every field is a text, and there are no more than asked for. *)
LEMMA TokensAreTexts ==
  ASSUME NEW s \in Seq(STRING), NEW max \in Nat
  PROVE  tokenize(s, max) \in Seq(Seq(STRING)) /\ Len(tokenize(s, max)) <= max
<1>. DEFINE P == {i \in DOMAIN s : s[i] = ","}
            N == Len(s)
            commas == InOrder(P, N)
            ends   == Append(commas, N + 1)
            count  == Min({Len(ends), max})
            start(k) == IF k = 1 THEN 1 ELSE ends[k - 1] + 1
            out_ == [k \in 1..count |-> SubSeq(s, start(k), ends[k] - 1)]
<1>1. N \in Nat /\ P \in SUBSET (1..N)
  <2>1. N \in Nat /\ DOMAIN s = 1..N
    BY LenProperties
  <2>. QED BY <2>1
<1>2. commas \in Seq(1..N)
  <2>. HIDE DEF P, N
  <2>1. commas \in Seq(P)
    BY <1>1, InOrderIs
  <2>. HIDE DEF commas
  <2>. QED BY <1>1, <2>1, SeqMonotonic
<1>3. tokenize(s, max) = IF s = <<>> THEN <<>> ELSE out_
  BY DEF tokenize
<1>. HIDE DEF commas, P
<1>4. ends \in Seq(1..N+1) /\ Len(ends) \in Nat
  BY <1>1, <1>2
<1>5. count \in 0..Len(ends) /\ count <= max
  <2>. DEFINE both == {Len(ends), max}
  <2>. HIDE DEF ends
  <2>1. both \in SUBSET Nat /\ both # {} /\ \A x \in both : x \in {Len(ends), max}
    BY <1>4
  <2>2. Min(both) \in both /\ \A x \in both : Min(both) <= x
    <3>. HIDE DEF both
    <3>. QED BY <2>1, LeastOf
  <2>. QED BY <1>4, <2>2
<1>6. ASSUME NEW k \in 1..count PROVE SubSeq(s, start(k), ends[k] - 1) \in Seq(STRING)
  <2>. HIDE DEF ends, count
  <2>1. ends[k] \in 1..N+1 /\ start(k) \in Nat /\ start(k) >= 1
    <3>1. k \in 1..Len(ends) /\ (k # 1 => k - 1 \in 1..Len(ends))
      BY <1>4, <1>5
    <3>2. ends[k] \in 1..N+1 /\ (k # 1 => ends[k - 1] \in 1..N+1)
      BY <1>4, <3>1, ElementOfSeq
    <3>. QED BY <1>1, <3>2
  <2>. DEFINE m == start(k)
              e == ends[k] - 1
  <2>2. m \in Nat /\ m >= 1 /\ e \in 0..N
    BY <1>1, <2>1
  <2>. HIDE DEF m, e
  <2>3. \A i \in m..e : s[i] \in STRING
    BY <2>2, ElementOfSeq DEF N
  <2>. QED BY <2>2, <2>3 DEF m, e
<1>. HIDE DEF count, ends, start
<1>7. out_ \in Seq(Seq(STRING)) /\ Len(out_) = count
  BY <1>4, <1>5, <1>6
<1>. HIDE DEF out_
<1>. QED BY <1>3, <1>5, <1>7

LEMMA FieldsAreTexts ==
  ASSUME NEW t \in SentenceTypes, NEW body \in Seq(STRING)
  PROVE  LET n == Len(tokenize(body, MaxFields[t]))
         IN /\ n \in Nat /\ n <= MaxFields[t]
            /\ FieldsOf(t, body) \in [0..n-1 -> Seq(STRING)]
            /\ Cardinality(DOMAIN FieldsOf(t, body)) = n
<1>. DEFINE tokens == tokenize(body, MaxFields[t])
            n == Len(tokens)
<1>1. MaxFields[t] \in Nat
  BY DEF MaxFields, SentenceTypes
<1>2. tokens \in Seq(Seq(STRING)) /\ n \in Nat /\ n <= MaxFields[t]
  BY <1>1, TokensAreTexts
<1>3. FieldsOf(t, body) = [i \in 0..n-1 |-> tokens[i + 1]]
  BY DEF FieldsOf
<1>. HIDE DEF tokens
<1>4. FieldsOf(t, body) \in [0..n-1 -> Seq(STRING)]
  BY <1>2, <1>3
<1>5. Cardinality(0..n-1) = n
  <2>1. 0 \in Int /\ n - 1 \in Int /\ (0 > n - 1 <=> n = 0)
    BY <1>2
  <2>2. Cardinality(0..n-1) = IF 0 > n - 1 THEN 0 ELSE (n - 1) - 0 + 1
    BY <2>1, FS_Interval
  <2>. QED BY <1>2, <2>1, <2>2
<1>. QED BY <1>2, <1>4, <1>5 DEF tokens

-----------------------------------------------------------------------------
(* Dispatch, and what an answer is.                                        *)

Sentence == [talker : STRING, type : STRING, body : Seq(STRING)]

(* A structure of its three members, whatever the third is. *)
IsStructure(result) ==
  result = [type |-> result.type, talker |-> result.talker, data |-> result.data]

(* The answer to a sentence is what the handler of its type makes of its    *)
(* fields, which are enough of them.                                        *)
AnswersTo(sentence, result) ==
  /\ IsTyped(result)
  /\ ~TooFewFields(result.type, sentence.body)
  /\ LET told == Handler(result.type, FieldsOf(result.type, sentence.body), Zero)
     IN result.data = told /\ Verdict(result.type, told) = "OK"

(* Whatever was in the structure, the handler makes the same of the fields. *)
LEMMA HandlerClears ==
  ASSUME NEW t, NEW f, NEW d
  PROVE  Handler(t, f, d) = Handler(t, f, Zero)
BY DEF Handler, parse_rmc, parse_gga, parse_gns, parse_gsa, parse_gsv, parse_vtg, parse_gll,
       parse_zda, parse_gbs, parse_gst, parse_ais, memset

(* The answer to a sentence, but for what was wrong with its text. *)
RefusesAsItShould(sentence, res, result) ==
  IsTyped(result) =>
    (res = "ERR_TOO_FEW_FIELDS" <=> TooFewFields(result.type, sentence.body))

LEMMA AnswerIs ==
  ASSUME NEW sentence \in Sentence, NEW result, IsStructure(result)
  PROVE  LET call == tiny_nmea_parse(sentence, result)
         IN /\ IsStructure(call.result)
            /\ call.res = "OK" => AnswersTo(sentence, call.result)
            /\ RefusesAsItShould(sentence, call.res, call.result)
            /\ call.result.type \in SentenceTypes \union {UNKNOWN}
<1>. DEFINE typed == Typed(sentence, result)
            told == Handler(typed.type, FieldsOf(typed.type, sentence.body), Zero)
            call == tiny_nmea_parse(sentence, result)
<1>1. /\ IsStructure(typed) /\ typed.type \in SentenceTypes \union {UNKNOWN}
      /\ IsTyped(result) => typed = result
  BY DEF Typed, IsStructure, IsTyped, parse_sentence_type, parse_talker_id
<1>2. CASE ~IsTyped(typed)
  BY <1>1, <1>2 DEF tiny_nmea_parse, Answer, RefusesAsItShould
<1>3. CASE IsTyped(typed) /\ TooFewFields(typed.type, sentence.body)
  BY <1>1, <1>3 DEF tiny_nmea_parse, Answer, RefusesAsItShould
<1>4. CASE IsTyped(typed) /\ ~TooFewFields(typed.type, sentence.body)
  <2>. HIDE DEF typed, told
  <2>1. call = [res |-> Verdict(typed.type, told),
                result |-> [typed EXCEPT !.data = told]]
    BY <1>4, HandlerClears DEF tiny_nmea_parse, Filled, Answer, typed, told
  <2>2. [typed EXCEPT !.data = told] =
           [type |-> typed.type, talker |-> typed.talker, data |-> told]
    BY <1>1 DEF IsStructure
  <2>3. call.res = Verdict(typed.type, told) /\ call.result.type = typed.type
        /\ call.result.talker = typed.talker /\ call.result.data = told
        /\ IsStructure(call.result)
    BY <2>1, <2>2 DEF IsStructure
  <2>4. IsTyped(call.result)
    BY <1>4, <2>3 DEF IsTyped
  <2>. HIDE DEF call
  <2>5. call.res = "OK" => AnswersTo(sentence, call.result)
    BY <1>4, <2>3, <2>4 DEF AnswersTo, told
  <2>6. RefusesAsItShould(sentence, call.res, call.result)
    BY <1>4, <2>3 DEF RefusesAsItShould, Verdict
  <2>. QED BY <1>1, <2>3, <2>5, <2>6 DEF call
<1>. QED BY <1>2, <1>3, <1>4

(* The century that a year tells. *)
CenturyOf(year) == IF year >= 100 THEN Uint8(year \div 100) ELSE 0

(* The last call was answered by the handler; work completed the year, with *)
(* the century that the last valid ZDA told it.                             *)
ParseInv ==
  /\ feed \in Seq(Sentence)
  /\ dated \in UINT16 /\ zda_century = CenturyOf(dated)
  /\ IsStructure(own) /\ IsStructure(out.result)
  /\ out.by # "nobody" => /\ out.sentence \in Sentence
                           /\ out.result.type \in SentenceTypes \union {UNKNOWN}
                           /\ RefusesAsItShould(out.sentence, out.res, out.result)
  /\ out.by # "nobody" /\ out.res = "OK" =>
       \E result : /\ IsStructure(result) /\ AnswersTo(out.sentence, result)
                   /\ out.result = IF out.by = "work"
                                   THEN YearCompleted(zda_century, result) ELSE result

LEMMA ShortIs ==
  ASSUME NEW f \in Seq(STRING)
  PROVE  Short(f, 0) \in UINT16
<1>1. UINT16_MAX + 1 \in Nat \ {0} /\ 0 \in UINT16
  BY FieldAssumption DEF UINT16_MAX, UINT16
<1>2. parse_uint(f) = <<>> \/ \E n \in Nat : parse_uint(f) = <<n>>
  <2>1. CASE f # <<>> /\ AllDigits(f)
    <3>1. \A i \in 1..Len(f) : f[i] \in Digits
      BY <2>1 DEF AllDigits
    <3>2. f \in Seq(Digits)
      BY <3>1
    <3>. QED BY <2>1, <3>2, ParseUint, NumeralBasics DEF UnsignedIn
  <2>2. CASE ~(f # <<>> /\ AllDigits(f))
    BY <2>2, ParseUint DEF UnsignedIn
  <2>. QED BY <2>1, <2>2
<1>3. ASSUME NEW n \in Nat PROVE Uint16(n) \in UINT16
  <2>. DEFINE size == UINT16_MAX + 1
  <2>. HIDE DEF size
  <2>1. size \in Nat \ {0} /\ UINT16_MAX \in Nat /\ size - 1 = UINT16_MAX
    BY FieldAssumption DEF size, UINT16_MAX
  <2>2. n % size \in 0..size - 1
    BY <2>1, Division
  <2>. QED BY <2>1, <2>2 DEF Uint16, UINT16, size
<1>. QED BY <1>1, <1>2, <1>3 DEF Short, Assign

LEMMA DateIs ==
  ASSUME NEW day, NEW month, NEW year
  PROVE  DateOf(day, month, year, NoDate) =
           [day |-> Byte(day, 0), month |-> Byte(month, 0), year |-> Short(year, 0),
            year_yy |-> 0, valid |-> InCalendar(Byte(day, 0), Byte(month, 0))]
BY DEF DateOf, NoDate, InCalendar

(* A valid ZDA tells a date, and the year is the one in its fourth field. *)
LEMMA ZdaTells ==
  ASSUME NEW sentence \in Sentence, NEW result, AnswersTo(sentence, result),
         result.type = "ZDA"
  PROVE  /\ result.data.date.valid
         /\ result.data.date.year = Short(FieldsOf("ZDA", sentence.body)[3], 0)
         /\ Short(FieldsOf("ZDA", sentence.body)[3], 0) \in UINT16
<1>. DEFINE f == FieldsOf("ZDA", sentence.body)
<1>1. /\ result.data = parse_zda(f, Zero)
      /\ result.data.time.valid /\ result.data.date.valid
  BY DEF AnswersTo, Handler, Verdict
<1>2. /\ parse_zda(f, Zero).time = parse_time(f[0])
      /\ parse_zda(f, Zero).date = IF parse_time(f[0]).valid
                                   THEN DateOf(f[1], f[2], f[3], NoDate) ELSE NoDate
  BY DEF parse_zda, memset, Zero
<1>3. DateOf(f[1], f[2], f[3], NoDate).year = Short(f[3], 0)
  BY DateIs
<1>4. f[3] \in Seq(STRING)
  <2>. DEFINE n == Len(tokenize(sentence.body, MaxFields["ZDA"]))
  <2>1. sentence.body \in Seq(STRING) /\ "ZDA" \in SentenceTypes
    BY DEF Sentence, SentenceTypes
  <2>2. n \in Nat /\ f \in [0..n-1 -> Seq(STRING)] /\ Cardinality(DOMAIN f) = n
    BY <2>1, FieldsAreTexts
  <2>3. n >= 6
    BY <2>2 DEF AnswersTo, TooFewFields, MinFields
  <2>4. 3 \in 0..n-1
    BY <2>2, <2>3
  <2>. QED BY <2>2, <2>4
<1>. QED BY <1>1, <1>2, <1>3, <1>4, ShortIs

LEMMA YearCompletedIs ==
  ASSUME NEW result, IsStructure(result), NEW century
  PROVE  /\ IsStructure(YearCompleted(century, result))
         /\ YearCompleted(century, result).type = result.type
         /\ YearCompleted(century, result).talker = result.talker
         /\ result.type # "RMC" => YearCompleted(century, result) = result
<1>1. CASE result.type = "RMC" /\ century > 0
  <2>. DEFINE d == [result.data EXCEPT !.date.year =
                      Uint16(century * 100 + result.data.date.year_yy)]
  <2>1. YearCompleted(century, result) = [result EXCEPT !.data = d]
    BY <1>1 DEF YearCompleted, IsStructure
  <2>. HIDE DEF d
  <2>. QED BY <1>1, <2>1 DEF IsStructure
<1>2. CASE ~(result.type = "RMC" /\ century > 0)
  BY <1>2 DEF YearCompleted
<1>. QED BY <1>1, <1>2

LEMMA InitParse == ASSUME Init PROVE ParseInv
<1>1. feed \in Seq(Sentence)
  BY InputsAssumption DEF Init, Sentence
<1>2. 0 \in UINT16 /\ CenturyOf(0) = 0
  BY FieldAssumption DEF UINT16, UINT16_MAX, CenturyOf
<1>. QED BY <1>1, <1>2 DEF Init, ParseInv, IsStructure, Blank, NoCall

LEMMA HeadOfFeed ==
  ASSUME ParseInv, feed # <<>>
  PROVE  Head(feed) \in Sentence /\ Tail(feed) \in Seq(Sentence)
BY HeadTailProperties DEF ParseInv

LEMMA HeaderIs ==
  ASSUME NEW sentence
  PROVE  IsStructure(FromHeader(sentence))
<1>. DEFINE t == parse_sentence_type(sentence.type)
            k == parse_talker_id(sentence.talker)
<1>1. FromHeader(sentence) = [Blank EXCEPT !.type = t, !.talker = k]
  BY DEF FromHeader
<1>. HIDE DEF t, k
<1>2. FromHeader(sentence) = [type |-> t, talker |-> k, data |-> <<>>]
  BY <1>1 DEF Blank
<1>. QED BY <1>2 DEF IsStructure

LEMMA WorkKeeps ==
  ASSUME ParseInv, WorkParses
  PROVE  ParseInv'
<1>. DEFINE s == Head(feed)
            call == tiny_nmea_parse(s, FromHeader(s))
            parsed == call.res = "OK"
            r == call.result
<1>1. s \in Sentence /\ feed' \in Seq(Sentence)
  BY HeadOfFeed DEF WorkParses
<1>2. IsStructure(FromHeader(s))
  BY HeaderIs
<1>3. /\ IsStructure(r) /\ r.type \in SentenceTypes \union {UNKNOWN}
      /\ parsed => AnswersTo(s, r)
      /\ RefusesAsItShould(s, call.res, r)
  BY <1>1, <1>2, AnswerIs
<1>4. /\ zda_century' = IF parsed THEN CenturyAfter(zda_century, r) ELSE zda_century
      /\ out' = [by |-> "work", sentence |-> s, res |-> call.res,
                 result |-> IF parsed THEN YearCompleted(zda_century, r) ELSE r]
      /\ dated' = IF parsed /\ r.type = "ZDA"
                  THEN Short(FieldsOf("ZDA", s.body)[3], 0) ELSE dated
      /\ own' = own
  BY DEF WorkParses
<1>. HIDE DEF call, s
<1>5. CASE ~parsed
  BY <1>1, <1>3, <1>4, <1>5 DEF ParseInv
<1>6. CASE parsed
  <2>1. /\ IsStructure(YearCompleted(zda_century, r))
        /\ YearCompleted(zda_century, r).type = r.type
        /\ RefusesAsItShould(s, call.res, YearCompleted(zda_century, r))
    BY <1>3, YearCompletedIs DEF RefusesAsItShould, IsTyped
  <2>2. CASE r.type = "ZDA"
    <3>1. /\ r.data.date.valid /\ r.data.date.year = dated' /\ dated' \in UINT16
      BY <1>1, <1>3, <1>4, <1>6, <2>2, ZdaTells
    <3>2. zda_century' = CenturyOf(dated')
      BY <1>4, <1>6, <2>2, <3>1 DEF CenturyAfter, CenturyOf, date_get_century_helper
    <3>3. /\ YearCompleted(zda_century, r) = r
          /\ YearCompleted(zda_century', r) = r
      BY <1>3, <2>2, YearCompletedIs
    <3>. QED BY <1>1, <1>3, <1>4, <1>6, <3>1, <3>2, <3>3 DEF ParseInv
  <2>3. CASE r.type # "ZDA"
    <3>1. zda_century' = zda_century /\ dated' = dated
      BY <1>4, <1>6, <2>3 DEF CenturyAfter
    <3>. QED BY <1>1, <1>3, <1>4, <1>6, <2>1, <3>1 DEF ParseInv
  <2>. QED BY <2>2, <2>3
<1>. QED BY <1>5, <1>6

(* The structures that the application calls with. *)
Givens == {Blank, own, [own EXCEPT !.type = UNKNOWN]}

LEMMA CallerKeeps ==
  ASSUME ParseInv, NEW given \in Givens, CallerParses(given)
  PROVE  ParseInv'
<1>. DEFINE s == Head(feed)
            call == tiny_nmea_parse(s, given)
            r == call.result
<1>1. s \in Sentence /\ feed' \in Seq(Sentence)
  BY HeadOfFeed DEF CallerParses
<1>2. IsStructure(given)
  BY DEF Givens, ParseInv, Blank, IsStructure
<1>3. /\ IsStructure(r) /\ r.type \in SentenceTypes \union {UNKNOWN}
      /\ call.res = "OK" => AnswersTo(s, r)
      /\ RefusesAsItShould(s, call.res, r)
  BY <1>1, <1>2, AnswerIs
<1>4. /\ own' = r /\ out' = [by |-> "caller", sentence |-> s, res |-> call.res, result |-> r]
      /\ zda_century' = zda_century /\ dated' = dated
  BY DEF CallerParses
<1>. HIDE DEF call, s
<1>. QED BY <1>1, <1>3, <1>4 DEF ParseInv

(* The inductive invariant: what work knows of the century is what the last *)
(* valid ZDA told, and the last answer is what the handler made of its      *)
(* sentence, but for the year that work completes.                          *)
THEOREM ParseInvariant == Spec => []ParseInv
<1>1. ParseInv /\ [Next]_vars => ParseInv'
  <2>1. CASE UNCHANGED vars
    BY <2>1 DEF vars, ParseInv
  <2>. QED BY <2>1, WorkKeeps, CallerKeeps DEF Next, Givens
<1>. QED BY <1>1, InitParse, PTL DEF Spec

-----------------------------------------------------------------------------
(* What the last answer is, in every reachable state.                      *)

(* What the handler made of the fields. *)
Told == Handler(type, fields, Zero)
Completed == out.by = "work" /\ type = "RMC" /\ zda_century > 0

LEMMA ParsedIs ==
  ASSUME ParseInv, Parsed
  PROVE  /\ type \in SentenceTypes
         /\ ~TooFewFields(type, out.sentence.body)
         /\ out.sentence \in Sentence
         /\ Verdict(type, Told) = "OK"
         /\ Completed =>
              data = [Told EXCEPT !.date.year = Uint16(zda_century * 100 + Told.date.year_yy)]
         /\ ~Completed => data = Told
<1>1. PICK result : /\ IsStructure(result) /\ AnswersTo(out.sentence, result)
                    /\ out.result = IF out.by = "work"
                                    THEN YearCompleted(zda_century, result) ELSE result
  BY DEF ParseInv, Parsed
<1>2. type = result.type
  BY <1>1, YearCompletedIs DEF type
<1>3. /\ IsTyped(result) /\ ~TooFewFields(type, out.sentence.body)
      /\ result.data = Told /\ Verdict(type, Told) = "OK"
  BY <1>1, <1>2 DEF AnswersTo, Told, fields
<1>4. type \in SentenceTypes /\ out.sentence \in Sentence
  BY <1>2, <1>3 DEF IsTyped, Parsed, ParseInv
<1>5. ASSUME ~Completed PROVE data = Told
  <2>1. out.result = result
    BY <1>1, <1>2, <1>5 DEF Completed, YearCompleted
  <2>. QED BY <1>3, <2>1 DEF data
<1>6. ASSUME Completed
      PROVE  data = [Told EXCEPT !.date.year = Uint16(zda_century * 100 + Told.date.year_yy)]
  <2>1. out.result = [result EXCEPT !.data.date.year =
                        Uint16(zda_century * 100 + result.data.date.year_yy)]
    BY <1>1, <1>2, <1>6 DEF Completed, YearCompleted
  <2>. DEFINE y == Uint16(zda_century * 100 + Told.date.year_yy)
  <2>2. out.result = [result EXCEPT !.data.date.year = y]
    BY <1>3, <2>1
  <2>. HIDE DEF y
  <2>3. out.result.data = [result.data EXCEPT !.date.year = y]
    BY <1>1, <2>2 DEF IsStructure
  <2>. QED BY <1>3, <2>3 DEF data, y
<1>. QED BY <1>3, <1>4, <1>5, <1>6

(* The fields of the last answer are texts, and enough of them. *)
LEMMA FieldsAre ==
  ASSUME ParseInv, Parsed
  PROVE  LET n == Cardinality(DOMAIN fields)
         IN /\ n \in Nat /\ n >= MinFields[type] /\ n <= MaxFields[type]
            /\ fields \in [0..n-1 -> Seq(STRING)]
            /\ \A i \in Int : FieldAt(fields, i) \in Seq(STRING)
            /\ \A i \in 0..MinFields[type]-1 :
                 fields[i] \in Seq(STRING) /\ FieldAt(fields, i) = fields[i]
<1>. DEFINE n == Cardinality(DOMAIN fields)
<1>1. type \in SentenceTypes /\ ~TooFewFields(type, out.sentence.body)
      /\ out.sentence.body \in Seq(STRING)
  BY ParsedIs DEF Sentence
<1>2. n \in Nat /\ n <= MaxFields[type] /\ fields \in [0..n-1 -> Seq(STRING)]
  BY <1>1, FieldsAreTexts DEF fields
<1>3. MinFields[type] \in Nat
  BY <1>1 DEF MinFields, SentenceTypes
<1>4. n >= MinFields[type]
  BY <1>1, <1>2, <1>3 DEF TooFewFields, fields
<1>5. \A i \in Int : FieldAt(fields, i) \in Seq(STRING)
  BY <1>2 DEF FieldAt
<1>6. \A i \in 0..MinFields[type]-1 :
        fields[i] \in Seq(STRING) /\ FieldAt(fields, i) = fields[i]
  BY <1>2, <1>3, <1>4 DEF FieldAt
<1>. QED BY <1>2, <1>4, <1>5, <1>6

(* What a handler leaves of an integer in a byte, a short or a char. *)
LEMMA NarrowedIs ==
  ASSUME NEW f \in Seq(STRING)
  PROVE  LET u == UnsignedIn(f)
             s == SignedIn(f)
         IN /\ Byte(f, 0) = IF u = <<>> THEN 0 ELSE u[1] % 256
            /\ Short(f, 0) = IF u = <<>> THEN 0 ELSE u[1] % (UINT16_MAX + 1)
            /\ Assign(parse_int(f), Uint8, 0) = IF s = <<>> THEN 0 ELSE s[1] % 256
            /\ Assign(parse_int(f), Int8, 0) =
                 IF s = <<>> THEN 0 ELSE ((s[1] + 128) % 256) - 128
<1>1. parse_uint(f) = UnsignedIn(f) /\ parse_int(f) = SignedIn(f)
  BY ParseUint, ParseInt
<1>2. \A n \in Int : Int8(n) = ((n + 128) % 256) - 128
  BY DEF Int8, Uint8
<1>3. SignedIn(f) # <<>> => SignedIn(f)[1] \in Int
  BY DEF SignedIn, INT_MIN
<1>. QED BY <1>1, <1>2, <1>3 DEF Byte, Short, Assign, Uint8, Uint16

(* Every member of integer type is that of the integer in its field. *)
LEMMA IntegersFollow ==
  ASSUME ParseInv
  PROVE  IntegersAreExact
<1>. SUFFICES ASSUME Parsed, type \in DOMAIN IntegerFields,
                     NEW member \in DOMAIN IntegerFields[type]
              PROVE  LET i == IntegerFields[type][member]
                         f == FieldAt(fields, i)
                         n == IF type = "ZDA" THEN SignedIn(f) ELSE UnsignedIn(f)
                         Narrow(v) == CASE member = "dgps_station_id" -> v % (UINT16_MAX + 1)
                                        [] member = "tz_hours" -> ((v + 128) % 256) - 128
                                        [] OTHER -> v % 256
                     IN data[member] = IF n = <<>> THEN 0 ELSE Narrow(n[1])
  BY DEF IntegersAreExact
<1>. DEFINE F(i) == FieldAt(fields, i)
            B(i) == IF UnsignedIn(F(i)) = <<>> THEN 0 ELSE UnsignedIn(F(i))[1] % 256
            S(i) == IF UnsignedIn(F(i)) = <<>> THEN 0
                    ELSE UnsignedIn(F(i))[1] % (UINT16_MAX + 1)
<1>1. data = Told /\ Verdict(type, Told) = "OK"
  BY ParsedIs DEF Completed, IntegerFields
<1>2. \A i \in Int : Byte(F(i), 0) = B(i) /\ Short(F(i), 0) = S(i)
  <2>. SUFFICES ASSUME NEW i \in Int PROVE Byte(F(i), 0) = B(i) /\ Short(F(i), 0) = S(i)
    OBVIOUS
  <2>1. F(i) \in Seq(STRING)
    BY FieldsAre
  <2>. HIDE DEF F
  <2>. QED BY <2>1, NarrowedIs
<1>3. \A i \in 0..MinFields[type]-1 : fields[i] = F(i)
  BY FieldsAre
<1>. HIDE DEF F
<1>4. CASE type = "GGA"
  <2>1. data.fix_quality = B(5) /\ data.satellites_used = B(6) /\ data.dgps_station_id = S(13)
    BY <1>1, <1>2, <1>3, <1>4 DEF Told, Handler, parse_gga, memset, Zero, MinFields
  <2>. QED BY <1>4, <2>1 DEF IntegerFields, F
<1>5. CASE type = "GNS"
  <2>1. data.satellites_used = B(6) /\ data.dgps_station_id = S(11)
    BY <1>1, <1>2, <1>3, <1>5 DEF Told, Handler, parse_gns, memset, Zero, MinFields
  <2>. QED BY <1>5, <2>1 DEF IntegerFields, F
<1>6. CASE type = "GSA"
  <2>1. data.system_id = B(17)
    <3>1. data.system_id = IF 17 \in DOMAIN fields THEN Byte(fields[17], 0) ELSE 0
      BY <1>1, <1>6 DEF Told, Handler, parse_gsa, memset, Zero
    <3>2. F(17) = IF 17 \in DOMAIN fields THEN fields[17] ELSE <<>>
      BY DEF F, FieldAt
    <3>3. F(17) = <<>> => B(17) = 0
      BY DEF UnsignedIn
    <3>4. Byte(F(17), 0) = B(17)
      BY <1>2
    <3>. QED BY <3>1, <3>2, <3>3, <3>4
  <2>. QED BY <1>6, <2>1 DEF IntegerFields, F
<1>7. CASE type = "GSV"
  <2>1. data.total_msgs = B(0) /\ data.msg_number = B(1) /\ data.total_sats = B(2)
    BY <1>1, <1>2, <1>3, <1>7 DEF Told, Handler, parse_gsv, memset, Zero, MinFields
  <2>. QED BY <1>7, <2>1 DEF IntegerFields, F
<1>8. CASE type = "GBS"
  <2>1. data.failed_sat_id = B(4)
    BY <1>1, <1>2, <1>3, <1>8 DEF Told, Handler, parse_gbs, memset, Zero, MinFields
  <2>. QED BY <1>8, <2>1 DEF IntegerFields, F
<1>9. CASE type \in {"VDM", "VDO"}
  <2>1. /\ data.fragment_count = B(0) /\ data.fragment_number = B(1)
        /\ data.sequential_id = B(2) /\ data.fill_bits = B(5)
    BY <1>1, <1>2, <1>3, <1>9 DEF Told, Handler, parse_ais, memset, Zero, MinFields
  <2>. QED BY <1>9, <2>1 DEF IntegerFields, F
<1>10. CASE type = "ZDA"
  <2>. DEFINE n(i) == SignedIn(F(i))
  <2>1. data = parse_zda(fields, Zero) /\ data.time.valid /\ data.date.valid
    BY <1>1, <1>10 DEF Told, Handler, Verdict
  <2>2. /\ data.tz_hours = Assign(parse_int(F(4)), Int8, 0)
        /\ data.tz_minutes = Assign(parse_int(F(5)), Uint8, 0)
    BY <2>1, <1>3, <1>10 DEF parse_zda, memset, Zero, MinFields
  <2>3. F(4) \in Seq(STRING) /\ F(5) \in Seq(STRING)
    BY FieldsAre DEF F
  <2>4. /\ data.tz_hours = IF n(4) = <<>> THEN 0 ELSE ((n(4)[1] + 128) % 256) - 128
        /\ data.tz_minutes = IF n(5) = <<>> THEN 0 ELSE n(5)[1] % 256
    BY <2>2, <2>3, NarrowedIs
  <2>. QED BY <1>10, <2>4 DEF IntegerFields, F
<1>. QED BY <1>4, <1>5, <1>6, <1>7, <1>8, <1>9, <1>10 DEF IntegerFields

(* Every number is the one in its field. *)
LEMMA NumbersFollow ==
  ASSUME ParseInv
  PROVE  NumbersAreExact
<1>. DEFINE D(i) == parse_fixedpoint_float(fields[i])
<1>. SUFFICES ASSUME Parsed, type \in DOMAIN NumberFields,
                     NEW member \in DOMAIN NumberFields[type],
                     ScaleHolds(fields[NumberFields[type][member]])
              PROVE  FloatOf(member) = NumberIn(fields[NumberFields[type][member]])
  BY DEF NumbersAreExact
<1>. DEFINE place == NumberFields[type][member]
<1>1. place \in 0..MinFields[type]-1
  BY DEF NumberFields, MinFields
<1>2. fields[place] \in Seq(STRING)
  BY <1>1, FieldsAre
<1>3. D(place) = NumberIn(fields[place])
  BY <1>2, ParseFloat
<1>4. ~Completed => data = Told
  BY ParsedIs
<1>5. CASE type = "RMC"
  <2>1. /\ data.latitude.raw = D(2) /\ data.longitude.raw = D(4) /\ data.speed_knots = D(6)
        /\ data.course_deg = D(7) /\ data.mag_variation = D(9)
    <3>. DEFINE y == Uint16(zda_century * 100 + Told.date.year_yy)
    <3>1. data = Told \/ data = [Told EXCEPT !.date.year = y]
      BY <1>4, ParsedIs
    <3>2. Told = parse_rmc(fields, Zero)
      BY <1>5 DEF Told, Handler
    <3>. HIDE DEF y
    <3>. QED BY <3>1, <3>2 DEF parse_rmc, parse_latitude, parse_longitude,
                         Coordinate, Decimal
  <2>2. FloatOf(member) = D(place)
    BY <1>5, <2>1 DEF NumberFields, FloatOf
  <2>. QED BY <1>3, <2>2
<1>6. CASE type = "GGA"
  <2>1. /\ data.latitude.raw = D(1) /\ data.longitude.raw = D(3) /\ data.hdop = D(7)
        /\ data.altitude_m = D(8) /\ data.geoid_sep_m = D(10) /\ data.dgps_age_sec = D(12)
    BY <1>4, <1>6 DEF Completed, Told, Handler, parse_gga, parse_latitude, parse_longitude,
                         Coordinate, Decimal
  <2>2. FloatOf(member) = D(place)
    BY <1>6, <2>1 DEF NumberFields, FloatOf
  <2>. QED BY <1>3, <2>2
<1>7. CASE type = "GNS"
  <2>1. /\ data.latitude.raw = D(1) /\ data.longitude.raw = D(3) /\ data.hdop = D(7)
        /\ data.altitude_m = D(8) /\ data.geoid_sep_m = D(9) /\ data.dgps_age_sec = D(10)
    BY <1>4, <1>7 DEF Completed, Told, Handler, parse_gns, parse_latitude, parse_longitude,
                         Coordinate, Decimal
  <2>2. FloatOf(member) = D(place)
    BY <1>7, <2>1 DEF NumberFields, FloatOf
  <2>. QED BY <1>3, <2>2
<1>8. CASE type = "GSA"
  <2>1. data.pdop = D(14) /\ data.hdop = D(15) /\ data.vdop = D(16)
    BY <1>4, <1>8 DEF Completed, Told, Handler, parse_gsa, Decimal
  <2>2. FloatOf(member) = D(place)
    BY <1>8, <2>1 DEF NumberFields, FloatOf
  <2>. QED BY <1>3, <2>2
<1>9. CASE type = "VTG"
  <2>1. /\ data.course_true_deg = D(0) /\ data.course_mag_deg = D(2) /\ data.speed_knots = D(4)
        /\ data.speed_kph = D(6)
    BY <1>4, <1>9 DEF Completed, Told, Handler, parse_vtg, Decimal
  <2>2. FloatOf(member) = D(place)
    BY <1>9, <2>1 DEF NumberFields, FloatOf
  <2>. QED BY <1>3, <2>2
<1>10. CASE type = "GLL"
  <2>1. data.latitude.raw = D(0) /\ data.longitude.raw = D(2)
    BY <1>4, <1>10 DEF Completed, Told, Handler, parse_gll, parse_latitude, parse_longitude,
                         Coordinate, Decimal
  <2>2. FloatOf(member) = D(place)
    BY <1>10, <2>1 DEF NumberFields, FloatOf
  <2>. QED BY <1>3, <2>2
<1>11. CASE type = "GBS"
  <2>1. /\ data.err_lat_m = D(1) /\ data.err_lon_m = D(2) /\ data.err_alt_m = D(3)
        /\ data.prob_missed = D(5) /\ data.bias_m = D(6) /\ data.bias_stddev_m = D(7)
    BY <1>4, <1>11 DEF Completed, Told, Handler, parse_gbs, Decimal
  <2>2. FloatOf(member) = D(place)
    BY <1>11, <2>1 DEF NumberFields, FloatOf
  <2>. QED BY <1>3, <2>2
<1>12. CASE type = "GST"
  <2>1. /\ data.rms_range = D(1) /\ data.std_major_m = D(2) /\ data.std_minor_m = D(3)
        /\ data.orient_deg = D(4) /\ data.std_lat_m = D(5) /\ data.std_lon_m = D(6)
        /\ data.std_alt_m = D(7)
    BY <1>4, <1>12 DEF Completed, Told, Handler, parse_gst, Decimal
  <2>2. FloatOf(member) = D(place)
    BY <1>12, <2>1 DEF NumberFields, FloatOf
  <2>. QED BY <1>3, <2>2
<1>. QED BY <1>5, <1>6, <1>7, <1>8, <1>9, <1>10, <1>11, <1>12 DEF NumberFields

(* Two digits are read as the number they are. *)
LEMMA PairIs ==
  ASSUME NEW f \in Seq(STRING), Len(f) >= 6, AllDigits(SubSeq(f, 1, 6)), NEW i \in {1, 3, 5}
  PROVE  /\ Pair(f, i) = Numeral(SubSeq(f, i, i + 1))
         /\ Pair(f, i) \in 0..99
<1>1. \A j \in 1..6 : f[j] \in Digits
  <2>. DEFINE g == SubSeq(f, 1, 6)
  <2>1. Len(g) = 6 /\ DOMAIN g = 1..6 /\ \A j \in 1..6 : g[j] = f[j]
    OBVIOUS
  <2>2. \A j \in DOMAIN g : g[j] \in Digits
    BY DEF AllDigits
  <2>. QED BY <2>1, <2>2
<1>2. f[i] \in Digits /\ f[i + 1] \in Digits
  BY <1>1
<1>. DEFINE a == <<f[i]>>
            b == <<f[i + 1]>>
<1>3. SubSeq(f, i, i + 1) = a \o b
  OBVIOUS
<1>4. a \in Seq(Digits) /\ b \in Seq(Digits) /\ Len(b) = 1
      /\ Numeral(a) = DigitOf[f[i]] /\ Numeral(b) = DigitOf[f[i + 1]]
  BY <1>2, NumeralBasics
<1>5. TenTo(1) = 10
  BY TenFacts
<1>. HIDE DEF a, b
<1>6. Numeral(a \o b) = Numeral(a) * TenTo(1) + Numeral(b)
  BY <1>4, NumeralOfBoth
<1>7. DigitOf[f[i]] \in 0..9 /\ DigitOf[f[i + 1]] \in 0..9
  BY <1>2, DigitFacts
<1>8. Numeral(SubSeq(f, i, i + 1)) = 10 * DigitOf[f[i]] + DigitOf[f[i + 1]]
  <2>. DEFINE p == DigitOf[f[i]]
              q == DigitOf[f[i + 1]]
  <2>. HIDE DEF p, q
  <2>1. Numeral(a) = p /\ Numeral(b) = q /\ p \in Nat /\ q \in Nat
    BY <1>4, <1>7 DEF p, q
  <2>2. Numeral(a \o b) = 10 * p + q
    BY <1>5, <1>6, <2>1
  <2>. QED BY <1>3, <2>2, Zenon DEF p, q
<1>9. \A p, q \in 0..9 : 10 * p + q \in 0..99
  OBVIOUS
<1>10. 10 * DigitOf[f[i]] + DigitOf[f[i + 1]] \in 0..99
  BY <1>7, <1>9, Zenon
<1>. QED BY <1>8, <1>10, Zenon DEF Pair

(* The century of a year in the structure, and the year that is completed  *)
(* with it.                                                                *)
LEMMA CenturyTells ==
  ASSUME NEW year \in UINT16, year < CenturyLimit, NEW yy \in 0..99
  PROVE  IF year >= 100
         THEN CenturyOf(year) > 0
              /\ Uint16(CenturyOf(year) * 100 + yy) = year - (year % 100) + yy
         ELSE CenturyOf(year) = 0
<1>. DEFINE c == year \div 100
            size == UINT16_MAX + 1
            both == {256, size \div 100}
<1>1. size \in Nat /\ year \in Nat /\ 100 \in Nat \ {0}
  BY FieldAssumption DEF UINT16, UINT16_MAX
<1>. HIDE DEF size
<1>2. /\ c \in Nat /\ year = 100 * c + (year % 100) /\ year % 100 \in 0..99
      /\ size \div 100 \in Nat /\ size >= 100 * (size \div 100)
  BY <1>1
<1>3. c < 256 /\ c < size \div 100
  <2>1. both \in SUBSET Nat /\ both # {}
    BY <1>2
  <2>2. Min(both) \in Nat /\ Min(both) <= 256 /\ Min(both) <= size \div 100
    <3>. HIDE DEF both
    <3>1. Min(both) \in both /\ \A i \in both : Min(both) <= i
      BY <2>1, LeastOf
    <3>. QED BY <2>1, <3>1 DEF both
  <2>3. year < 100 * Min(both)
    BY DEF CenturyLimit, size
  <2>. HIDE DEF both
  <2>. QED BY <1>2, <2>2, <2>3
<1>4. CASE year >= 100
  <2>1. c > 0 /\ CenturyOf(year) = c
    BY <1>2, <1>3, <1>4 DEF CenturyOf, Uint8
  <2>2. c * 100 + yy = size * 0 + (c * 100 + yy) /\ c * 100 + yy \in 0..size - 1
    BY <1>1, <1>2, <1>3
  <2>. DEFINE n == c * 100 + yy
  <2>3. n % size = n
    <3>. HIDE DEF n, c
    <3>1. size \in Nat \ {0}
      BY <1>1, <2>2 DEF n
    <3>. QED BY <3>1, <2>2, DivisionUnique DEF n
  <2>. QED BY <1>2, <1>4, <2>1, <2>3 DEF Uint16, size
<1>5. CASE year < 100
  BY <1>1, <1>5 DEF CenturyOf
<1>. QED BY <1>1, <1>4, <1>5

(* The year that work completes. *)
LEMMA YearFollows ==
  ASSUME ParseInv
  PROVE  YearIsOfLastZda
<1>. DEFINE f == fields[8]
            six == Len(f) >= 6 /\ AllDigits(SubSeq(f, 1, 6))
            number(i) == Numeral(SubSeq(f, i, i + 1))
            isDate == six /\ number(1) \in 1..31 /\ number(3) \in 1..12
            yy == IF six THEN number(5) ELSE 0
            d == parse_date(f)
<1>. SUFFICES ASSUME Parsed, out.by = "work", type = "RMC", dated < CenturyLimit
              PROVE  /\ data.date.valid = isDate
                     /\ data.date.year =
                          IF dated >= 100 THEN dated - (dated % 100) + yy ELSE 0
  BY Zenon DEF YearIsOfLastZda
<1>1. f \in Seq(STRING)
  BY FieldsAre DEF MinFields
<1>2. dated \in UINT16 /\ zda_century = CenturyOf(dated)
  BY DEF ParseInv
<1>3. Told.date = d /\ d = [day |-> d.day, month |-> d.month, year |-> d.year,
                            year_yy |-> d.year_yy, valid |-> d.valid]
  BY DEF Told, Handler, parse_rmc, parse_date, NoDate
<1>4. /\ d.valid = isDate
      /\ d.year = 0
      /\ d.year_yy = yy /\ yy \in 0..99
  <2>1. CASE HasSixDigits(f)
    <3>1. six
      BY <2>1 DEF HasSixDigits
    <3>2. /\ Pair(f, 1) = number(1) /\ Pair(f, 3) = number(3)
          /\ Pair(f, 5) = number(5) /\ Pair(f, 5) \in 0..99
      BY <1>1, <3>1, PairIs
    <3>3. d = [day |-> Pair(f, 1), month |-> Pair(f, 3), year |-> 0,
               year_yy |-> Pair(f, 5), valid |-> InCalendar(Pair(f, 1), Pair(f, 3))]
      BY <2>1 DEF parse_date
    <3>. HIDE DEF d, six, number
    <3>4. /\ d.valid = InCalendar(Pair(f, 1), Pair(f, 3))
          /\ d.year = 0 /\ d.year_yy = Pair(f, 5)
      BY <3>3
    <3>5. isDate <=> InCalendar(Pair(f, 1), Pair(f, 3))
      BY <3>1, <3>2 DEF InCalendar
    <3>6. yy = number(5)
      BY <3>1
    <3>7. InCalendar(Pair(f, 1), Pair(f, 3)) \in BOOLEAN /\ isDate \in BOOLEAN
      BY DEF InCalendar
    <3>. HIDE DEF isDate, yy
    <3>8. d.valid = isDate
      BY <3>4, <3>5, <3>7
    <3>. QED BY <3>2, <3>4, <3>6, <3>8
  <2>2. CASE ~HasSixDigits(f)
    <3>1. ~six
      BY <2>2 DEF HasSixDigits
    <3>2. d = NoDate
      BY <2>2 DEF parse_date
    <3>. HIDE DEF six, number, d
    <3>3. ~isDate
      BY <3>1
    <3>4. isDate \in BOOLEAN
      OBVIOUS
    <3>5. yy = 0
      BY <3>1
    <3>. HIDE DEF isDate, yy
    <3>6. d.valid = isDate
      BY <3>2, <3>3, <3>4 DEF NoDate
    <3>7. d.year = 0 /\ d.year_yy = 0
      BY <3>2 DEF NoDate
    <3>. QED BY <3>5, <3>6, <3>7
  <2>. QED BY <2>1, <2>2
<1>. HIDE DEF d, isDate, yy, six, number, f
<1>5. CASE zda_century > 0
  <2>. DEFINE y == Uint16(zda_century * 100 + Told.date.year_yy)
  <2>1. data = [Told EXCEPT !.date.year = y]
    BY <1>5, ParsedIs DEF Completed
  <2>. HIDE DEF y
  <2>2. Told = parse_rmc(fields, Zero)
    BY DEF Told, Handler
  <2>3. data.date = [Told.date EXCEPT !.year = y]
    BY <2>1, <2>2 DEF parse_rmc
  <2>4. data.date.valid = d.valid /\ data.date.year = y
    BY <1>3, <2>3
  <2>5. dated >= 100 /\ y = dated - (dated % 100) + yy
    BY <1>2, <1>3, <1>4, <1>5, CenturyTells DEF y, UINT16
  <2>. QED BY <1>4, <2>4, <2>5
<1>6. CASE ~(zda_century > 0)
  <2>1. data = Told
    BY <1>6, ParsedIs DEF Completed
  <2>2. dated >= 100 => zda_century > 0
    BY <1>2, CenturyTells
  <2>. QED BY <1>3, <1>4, <1>6, <2>1, <2>2
<1>. QED BY <1>5, <1>6

-----------------------------------------------------------------------------
(* What conversions do with numbers.                                       *)

LEMMA TenOfSum ==
  ASSUME NEW m \in Nat, NEW K \in Nat
  PROVE  TenTo(m + K) = TenTo(m) * TenTo(K)
<1>. DEFINE T == {k \in 0..K : TenTo(m + k) = TenTo(m) * TenTo(k)}
            t == TenTo(m)
<1>1. t \in Nat
  BY TenFacts
<1>2. 0 \in T
  <2>1. TenTo(0) = 1 /\ m + 0 = m
    BY TenFacts
  <2>. QED BY <1>1, <2>1
<1>3. ASSUME NEW k \in 1..K, k - 1 \in T PROVE k \in T
  <2>. DEFINE x == TenTo(k - 1)
              y == TenTo(k)
              u == TenTo(m + (k - 1))
              w == TenTo(m + k)
  <2>1. k - 1 \in Nat /\ m + (k - 1) \in Nat /\ (k - 1) + 1 = k
        /\ (m + (k - 1)) + 1 = m + k
    OBVIOUS
  <2>2. x \in Nat /\ y = 10 * x /\ w = 10 * u
    BY <2>1, TenFacts
  <2>3. u = t * x
    BY <1>3
  <2>. HIDE DEF x, y, u, w, t
  <2>4. w = t * y
    BY <1>1, <2>2, <2>3
  <2>. QED BY <1>3, <2>4 DEF w, t, y
<1>4. K \in 0..K
  OBVIOUS
<1>. HIDE DEF T
<1>5. K \in T
  BY <1>2, <1>3, <1>4, UpToN
<1>. QED BY <1>5 DEF T

(* A larger scale is a multiple of a smaller one. *)
LEMMA ScalesDivide ==
  ASSUME NEW m \in Nat, NEW n \in Nat, TenTo(m) >= TenTo(n)
  PROVE  \E t \in Nat \ {0} : TenTo(m) = TenTo(n) * t
<1>1. CASE m >= n
  <2>. DEFINE k == m - n
  <2>1. k \in Nat /\ n + k = m
    BY <1>1
  <2>2. TenTo(n + k) = TenTo(n) * TenTo(k)
    BY <2>1, TenOfSum
  <2>3. TenTo(k) \in Nat \ {0}
    BY <2>1, TenFacts
  <2>. QED BY <2>1, <2>2, <2>3, Zenon
<1>2. CASE m < n
  <2>. DEFINE k == n - m
              x == TenTo(m)
              y == TenTo(n)
              t == TenTo(k)
  <2>1. k \in Nat /\ m + k = n
    BY <1>2
  <2>2. TenTo(m + k) = x * t
    BY <2>1, TenOfSum
  <2>3. y = x * t
    BY <2>1, <2>2, Zenon
  <2>4. t \in Nat \ {0} /\ x \in Nat \ {0}
    BY <2>1, TenFacts
  <2>5. x >= y
    OBVIOUS
  <2>. HIDE DEF x, y, t
  <2>6. y >= x
    BY <2>3, <2>4
  <2>7. x = y * 1
    BY <2>3, <2>4, <2>5, <2>6
  <2>8. 1 \in Nat \ {0}
    OBVIOUS
  <2>. QED BY <2>7, <2>8, Zenon DEF x, y
<1>. QED BY <1>1, <1>2

(* A number that a field gives has a power of ten for its scale. *)
LEMMA NumberIs ==
  ASSUME NEW f \in Seq(STRING), ScaleHolds(f), NumberIn(f).scale # 0
  PROVE  /\ NumberIn(f) = [value |-> NumberIn(f).value, scale |-> NumberIn(f).scale]
         /\ NumberIn(f).value \in -INT_MAX..INT_MAX
         /\ NumberIn(f).scale \in 1..INT_MAX
         /\ \E k \in Nat : NumberIn(f).scale = TenTo(k)
<1>. DEFINE u == Unpointed(f)
            v == Minus(f, Numeral(u))
            s == TenTo(Decimals(f))
<1>1. IsNumber(f) /\ Numeral(u) <= INT_MAX
  BY DEF NumberIn, NoNumber
<1>2. Numeral(u) \in Nat
  <2>1. u \in Seq(STRING)
    <3>1. /\ u = Whole(f) \o Fraction(f)
          /\ Whole(f) \in Seq(STRING) /\ Fraction(f) \in Seq(STRING)
      BY PartsOfNumber
    <3>. QED BY <3>1, ConcatProperties, Zenon
  <2>2. \A i \in 1..Len(u) : u[i] \in Digits
    BY <1>1, <2>1 DEF IsNumber, AllDigits
  <2>3. u \in Seq(Digits)
    BY <2>1, <2>2
  <2>. QED BY <2>3, NumeralBasics
<1>3. v \in -INT_MAX..INT_MAX
  BY <1>1, <1>2, Limits DEF Minus
<1>4. Decimals(f) \in Nat
  BY PartsOfNumber
<1>5. s \in 1..INT_MAX
  <2>1. s \in Nat \ {0}
    BY <1>4, TenFacts
  <2>2. s <= INT_MAX
    BY DEF ScaleHolds
  <2>. HIDE DEF s
  <2>. QED BY <2>1, <2>2, Limits
<1>6. NumberIn(f) = [value |-> v, scale |-> s]
  BY <1>1 DEF NumberIn
<1>. HIDE DEF v, s
<1>. QED BY <1>3, <1>4, <1>5, <1>6 DEF s

(* A division whose quotient is an int gives that quotient. *)
LEMMA QuotientIs ==
  ASSUME NEW n \in Int, NEW d \in Nat \ {0}
  PROVE  /\ IsQuotient(Divide(n, d), n, d)
         /\ Magnitude(n) \div d <= INT_MAX => ToInt(Divide(n, d)) = Divide(n, d)
<1>. DEFINE a == Magnitude(n)
            p == a \div d
            q == Divide(n, d)
<1>1. a \in Nat /\ Magnitude(d) = d /\ ~(d < 0)
  BY DEF Magnitude
<1>2. p \in Int /\ a % d \in 0..d - 1 /\ a = d * p + (a % d)
  <2>. HIDE DEF a
  <2>. QED BY <1>1, Division
<1>3. q = IF n < 0 THEN -p ELSE p
  BY <1>1 DEF Divide
<1>4. p \in Nat
  <2>. HIDE DEF a, p
  <2>1. \A x, y, r \in Int : x >= 0 /\ x = d * y + r /\ r < d => y >= 0
    <3>. SUFFICES ASSUME NEW x \in Int, NEW y \in Int, NEW r \in Int,
                         x >= 0, x = d * y + r, r < d, y < 0
                  PROVE  FALSE
      OBVIOUS
    <3>1. d * y <= d * (-1)
      OBVIOUS
    <3>. QED BY <3>1
  <2>. QED BY <1>1, <1>2, <2>1
<1>5. Magnitude(q) = p
  <2>. HIDE DEF p, q
  <2>. QED BY <1>3, <1>4 DEF Magnitude
<1>6. a - p * d \in 0..d - 1
  <2>. DEFINE r == a % d
  <2>. HIDE DEF a, p, r
  <2>1. d * p = p * d
    BY <1>4
  <2>. QED BY <1>1, <1>2, <1>4, <2>1 DEF r
<1>7. q # 0 => (q < 0) = (n < 0)
  <2>. HIDE DEF p, q
  <2>. QED BY <1>3, <1>4
<1>8. p <= INT_MAX => q \in INT_MIN..INT_MAX
  <2>. HIDE DEF p, q
  <2>. QED BY <1>3, <1>4, Limits
<1>9. IsQuotient(q, n, d)
  <2>. HIDE DEF p, q
  <2>. QED BY <1>5, <1>6, <1>7 DEF IsQuotient, a
<1>. QED BY <1>8, <1>9, IntFits

LEMMA ConvertedIs ==
  ASSUME NEW n \in Int, NEW d \in Nat \ {0}
  PROVE  IsConverted(ToInt(Divide(n, d)), n, d)
BY QuotientIs, Zenon DEF IsConverted

(* Speeds. *)
LEMMA SpeedsFollow ==
  ASSUME ParseInv
  PROVE  SpeedsAreConverted
<1>. DEFINE f == fields[4]
            knots == data.speed_knots
            v == knots.value
            s == knots.scale
<1>. SUFFICES ASSUME Parsed, type = "VTG", ScaleHolds(f), s # 0
              PROVE  /\ s * Kilo <= INT_MAX =>
                          IsConverted(knots_to_mps(knots), v * KnotInMetres, s * Kilo)
                     /\ IsConverted(knots_to_kph(knots), v * KnotInKm, s)
  BY DEF SpeedsAreConverted, float_valid
<1>1. knots = NumberIn(f)
  <2>1. NumbersAreExact
    BY NumbersFollow
  <2>. QED BY <2>1 DEF NumbersAreExact, NumberFields, FloatOf
<1>2. f \in Seq(STRING)
  BY FieldsAre DEF MinFields
<1>3. v \in Int /\ s \in Nat \ {0}
  BY <1>1, <1>2, NumberIs, Limits
<1>. HIDE DEF f, v, s
<1>4. knots_to_kph(knots) = ToInt(Divide(v * KnotInKm, s))
  BY <1>3 DEF knots_to_kph, float_valid, v, s
<1>5. v * KnotInKm \in Int /\ v * KnotInMetres \in Int /\ s * Kilo \in Nat \ {0}
  BY <1>3, FixedPointAssumption
<1>6. ASSUME s * Kilo <= INT_MAX
      PROVE  knots_to_mps(knots) = ToInt(Divide(v * KnotInMetres, s * Kilo))
  <2>. DEFINE d == s * Kilo
  <2>1. d \in INT_MIN..INT_MAX
    BY <1>5, <1>6, Limits
  <2>2. ToInt(d) = d
    <3>. HIDE DEF d
    <3>. QED BY <2>1, IntFits
  <2>. QED BY <1>3, <2>2 DEF knots_to_mps, float_valid, v, s
<1>. QED BY <1>4, <1>5, <1>6, ConvertedIs, <1>3

(* The degrees and the minutes in a number, both in sixtieths, and what the *)
(* code computes of them in parts of a degree.                             *)
DegreesIn(size, s) == size \div (100 * s)
MinutesIn(size, s) == size - 100 * s * DegreesIn(size, s)
SixtiethsIn(size, s) == MinutesIn(size, s) + 60 * s * DegreesIn(size, s)
PartsOfMinutes(size, s, K) == (MinutesIn(size, s) * K) \div (60 * s)
PartsOf(size, s, K) == DegreesIn(size, s) * K + PartsOfMinutes(size, s, K)

(* The sum of what is computed of each is the quotient of both.            *)
LEMMA SexagesimalIs ==
  ASSUME NEW size \in Nat, NEW s \in Nat \ {0}, NEW K \in Nat
  PROVE  LET d == 60 * s
             n == K * SixtiethsIn(size, s)
             Q == PartsOf(size, s, K)
         IN /\ DegreesIn(size, s) \in Nat /\ MinutesIn(size, s) \in Nat
            /\ PartsOfMinutes(size, s, K) \in Nat /\ n \in Nat /\ Q \in Nat
            /\ n \div d = Q /\ n - Q * d \in 0..d - 1
<1>. DEFINE d == 60 * s
            h == 100 * s
            deg == size \div h
            m == size - h * deg
            c == m * K
            e == c \div d
            r == c % d
            n == K * (m + d * deg)
            Q == deg * K + e
<1>1. d \in Nat \ {0} /\ h \in Nat \ {0}
  OBVIOUS
<1>2. \A x \in Nat, y \in Nat \ {0} :
        /\ x \div y \in Nat /\ x % y \in 0..y - 1 /\ x = y * (x \div y) + (x % y)
  <2>. SUFFICES ASSUME NEW x \in Nat, NEW y \in Nat \ {0}
                PROVE  /\ x \div y \in Nat /\ x % y \in 0..y - 1
                       /\ x = y * (x \div y) + (x % y)
    OBVIOUS
  <2>. DEFINE q == x \div y
              t == x % y
  <2>1. q \in Int /\ t \in 0..y - 1 /\ x = y * q + t
    BY Division
  <2>. HIDE DEF q, t
  <2>2. q >= 0
    <3>1. q < 0 => y * q <= y * (-1)
      BY <2>1
    <3>. QED BY <2>1, <3>1
  <2>. QED BY <2>1, <2>2 DEF q, t
<1>. HIDE DEF d, h
<1>3. deg \in Nat /\ m \in Nat
  <2>. DEFINE t == size % h
  <2>1. deg \in Nat /\ t \in 0..h - 1 /\ size = h * deg + t
    BY <1>1, <1>2
  <2>. HIDE DEF deg, t
  <2>. QED BY <1>1, <2>1
<1>. HIDE DEF deg, m
<1>4. c \in Nat
  BY <1>3
<1>5. e \in Nat /\ r \in 0..d - 1 /\ c = d * e + r
  <2>. HIDE DEF c
  <2>. QED BY <1>1, <1>2, <1>4
<1>. HIDE DEF e, r
<1>6. n = d * Q + r /\ Q \in Nat
  <2>1. m * K = d * e + r
    BY <1>5
  <2>2. n = m * K + d * (deg * K)
    BY <1>1, <1>3
  <2>3. d * Q = d * (deg * K) + d * e
    <3>. DEFINE p == deg * K
    <3>1. p \in Nat
      BY <1>3
    <3>. HIDE DEF p
    <3>. QED BY <1>1, <1>5, <3>1 DEF p
  <2>4. Q \in Nat
    BY <1>3, <1>5
  <2>. HIDE DEF n, Q
  <2>5. d * (deg * K) \in Nat /\ d * e \in Nat
    BY <1>1, <1>3, <1>5
  <2>. QED BY <1>1, <1>5, <2>1, <2>2, <2>3, <2>4, <2>5
<1>. HIDE DEF n, Q
<1>7. n \div d = Q
  BY <1>1, <1>5, <1>6, DivisionUnique
<1>8. n \in Nat /\ n - Q * d \in 0..d - 1
  <2>1. Q * d = d * Q /\ d * Q \in Nat
    BY <1>1, <1>6
  <2>. QED BY <1>1, <1>5, <1>6, <2>1
<1>9. /\ DegreesIn(size, s) = deg /\ MinutesIn(size, s) = m
      /\ SixtiethsIn(size, s) = m + d * deg
      /\ PartsOfMinutes(size, s, K) = e /\ PartsOf(size, s, K) = Q
  BY DEF DegreesIn, MinutesIn, SixtiethsIn, PartsOfMinutes, PartsOf, d, h, deg, m, e, Q
<1>10. n = K * SixtiethsIn(size, s) /\ d = 60 * s
  BY <1>9 DEF n, d
<1>. QED BY <1>3, <1>5, <1>6, <1>7, <1>8, <1>9, <1>10, Zenon

(* A position with a number and a hemisphere, in fixed degrees. *)
LEMMA FixedDegreesAre ==
  ASSUME NEW coord, coord.raw.value \in Int, coord.raw.scale \in Nat \ {0},
         coord.hemisphere # NUL
  PROVE  LET scale == coord.raw.scale
             size == Magnitude(coord.raw.value)
             degrees == size \div (100 * scale)
             sixtieths == (size - 100 * scale * degrees) + 60 * scale * degrees
             fixed == coord_to_fixed_degrees(coord)
             south == coord.hemisphere \in {"S", "W"}
         IN IsConverted(IF south THEN -fixed ELSE fixed,
                        DegreeScale * (IF coord.raw.value < 0 THEN -sixtieths
                                       ELSE sixtieths), 60 * scale)
<1>. DEFINE v == coord.raw.value
            s == coord.raw.scale
            hemisphere == coord.hemisphere
            K == DegreeScale
            size == Magnitude(v)
            d == 60 * s
            deg == DegreesIn(size, s)
            m == MinutesIn(size, s)
            e == PartsOfMinutes(size, s, K)
            n == K * SixtiethsIn(size, s)
            Q == PartsOf(size, s, K)
            Signed(x) == IF v < 0 THEN -x ELSE x
            N == K * Signed(SixtiethsIn(size, s))
            fixed == coord_to_fixed_degrees(coord)
            south == hemisphere \in {"S", "W"}
<1>1. v \in Int /\ s \in Nat \ {0}
  OBVIOUS
<1>. HIDE DEF v, s, hemisphere
<1>2. size \in Nat /\ K \in Nat /\ d \in Nat \ {0} /\ 100 * s \in Nat \ {0}
  BY <1>1, FixedPointAssumption DEF Magnitude
<1>3. /\ deg \in Nat /\ m \in Nat /\ e \in Nat
      /\ n \in Nat /\ Q \in Nat /\ n \div d = Q /\ n - Q * d \in 0..d - 1
  <2>. HIDE DEF size, K
  <2>. QED BY <1>1, <1>2, SexagesimalIs, Zenon
<1>4. Divide(v, 100 * s) = Signed(deg)
  <2>1. Magnitude(100 * s) = 100 * s /\ ~(100 * s < 0)
    BY <1>2 DEF Magnitude
  <2>. HIDE DEF deg
  <2>. QED BY <1>1, <1>3, <2>1 DEF Divide, DegreesIn, deg
<1>. HIDE DEF deg
<1>5. v - Divide(v, 100 * s) * 100 * s = Signed(m)
  <2>1. v = Signed(size)
    BY <1>1 DEF Magnitude
  <2>. DEFINE t == 100 * s * deg
  <2>2. deg * 100 * s = t /\ (-deg) * 100 * s = -t /\ t \in Int
    BY <1>1, <1>3
  <2>3. m = size - t
    BY DEF MinutesIn, deg
  <2>. DEFINE D == Divide(v, 100 * s)
  <2>4. D * 100 * s = Signed(t)
    <3>1. v < 0 => D = -deg
      BY <1>4
    <3>2. ~(v < 0) => D = deg
      BY <1>4
    <3>. HIDE DEF t, D
    <3>. QED BY <2>2, <3>1, <3>2
  <2>. HIDE DEF t, m, size, D
  <2>5. v - D * 100 * s = Signed(m)
    <3>. DEFINE p == D * 100 * s
    <3>. HIDE DEF p
    <3>1. p = Signed(t)
      BY <2>4 DEF p
    <3>2. v - p = Signed(m)
      BY <1>1, <1>2, <1>3, <2>1, <2>2, <2>3, <3>1
    <3>. QED BY <3>2 DEF p
  <2>. QED BY <2>5 DEF D
<1>. HIDE DEF m, size
<1>6. Divide(Signed(m) * K, d) = Signed(e)
  <2>. DEFINE c == m * K
  <2>1. c \in Nat /\ Signed(m) * K = Signed(c)
    BY <1>2, <1>3
  <2>2. e = c \div d
    BY DEF PartsOfMinutes, m
  <2>. HIDE DEF c, d, e, K
  <2>3. Magnitude(Signed(c)) = c /\ Magnitude(d) = d /\ ~(d < 0)
    BY <1>2, <2>1 DEF Magnitude
  <2>4. Divide(Signed(c), d) = IF Signed(c) < 0 THEN -e ELSE e
    BY <2>2, <2>3 DEF Divide
  <2>5. c = 0 => e = 0
    <3>1. 0 \in Int /\ 0 \in 0..d - 1 /\ d * 0 + 0 = 0
      BY <1>2
    <3>2. 0 \div d = 0
      BY <1>2, <3>1, DivisionUnique
    <3>. QED BY <2>2, <3>2
  <2>. QED BY <1>3, <2>1, <2>4, <2>5
<1>. DEFINE whole == Divide(v, 100 * s) * K + Divide((v - Divide(v, 100 * s) * 100 * s) * K, d)
<1>7. whole = Signed(Q)
  <2>1. whole = Signed(deg) * K + Signed(e)
    BY <1>4, <1>5, <1>6
  <2>2. Q = deg * K + e
    BY DEF PartsOf, deg
  <2>. HIDE DEF whole, e, K, Q
  <2>. QED BY <1>2, <1>3, <2>1, <2>2
<1>8. fixed = ToInt(IF south THEN -whole ELSE whole)
  <2>. HIDE DEF whole
  <2>1. coord.hemisphere # NUL /\ coord.raw.scale # 0
    BY <1>1 DEF s
  <2>. QED BY <2>1 DEF coord_to_fixed_degrees, South, whole, v, s, hemisphere
<1>. HIDE DEF whole, fixed, Q, n, d, e
<1>9. N = Signed(n) /\ Magnitude(N) = n /\ N \in Int
  <2>. DEFINE x == SixtiethsIn(size, s)
  <2>1. x \in Nat
    BY <1>1, <1>3 DEF SixtiethsIn, m, deg
  <2>2. n = K * x /\ N = K * Signed(x)
    BY DEF n
  <2>. HIDE DEF x, K, N
  <2>3. K * (-x) = -(K * x)
    BY <1>2, <2>1
  <2>. QED BY <1>2, <1>3, <2>1, <2>2, <2>3 DEF Magnitude
<1>. DEFINE q == IF south THEN -fixed ELSE fixed
<1>. HIDE DEF N
<1>10. ASSUME Q <= INT_MAX PROVE q = Signed(Q)
  <2>. DEFINE told == IF south THEN -whole ELSE whole
  <2>1. told \in INT_MIN..INT_MAX /\ told \in Int
    BY <1>3, <1>7, <1>10, Limits
  <2>. HIDE DEF told
  <2>2. fixed = told
    BY <1>8, <2>1, IntFits DEF told
  <2>. QED BY <1>3, <1>7, <2>2 DEF told
<1>11. ASSUME q = Signed(Q) PROVE IsQuotient(q, N, d)
  <2>. HIDE DEF q
  <2>1. Magnitude(q) = Q
    BY <1>3, <1>11 DEF Magnitude
  <2>2. q # 0 => (q < 0) = (N < 0)
    <3>1. Q # 0 => n # 0
      <4>1. n = 0 => Q * d <= 0
        BY <1>2, <1>3
      <4>2. Q # 0 => Q * d > 0
        BY <1>2, <1>3
      <4>3. Q * d \in Int
        BY <1>2, <1>3
      <4>. QED BY <4>1, <4>2, <4>3
    <3>. QED BY <1>3, <1>9, <1>11, <3>1
  <2>. QED BY <1>3, <1>9, <2>1, <2>2 DEF IsQuotient
<1>12. IsConverted(q, N, d)
  BY <1>3, <1>9, <1>10, <1>11 DEF IsConverted
<1>13. SixtiethsIn(size, s) = (size - 100 * s * deg) + 60 * s * deg
  BY DEF SixtiethsIn, MinutesIn, deg
<1>. QED BY <1>12, <1>13, Zenon DEF N, d, deg, size, fixed, DegreesIn,
                                     v, s, hemisphere

(* Positions. *)
LEMMA DegreesFollow ==
  ASSUME ParseInv
  PROVE  DegreesAreSexagesimal
<1>. DEFINE coord(i) == IF i = 0 THEN data.latitude ELSE data.longitude
            Claim(i) ==
              LET scale == coord(i).raw.scale
                  size == Magnitude(coord(i).raw.value)
                  degrees == size \div (100 * scale)
                  sixtieths == (size - 100 * scale * degrees) + 60 * scale * degrees
                  fixed == coord_to_fixed_degrees(coord(i))
                  south == coord(i).hemisphere \in {"S", "W"}
              IN IF coord(i).hemisphere = NUL THEN fixed = 0
                 ELSE IsConverted(IF south THEN -fixed ELSE fixed,
                                  DegreeScale * (IF coord(i).raw.value < 0 THEN -sixtieths
                                                 ELSE sixtieths), 60 * scale)
<1>. SUFFICES ASSUME Parsed, type = "GLL", NEW i \in {0, 2}, ScaleHolds(fields[i])
              PROVE  Claim(i)
  BY DEF DegreesAreSexagesimal
<1>. DEFINE f == fields[i]
            raw == NumberIn(f)
            v == raw.value
            s == raw.scale
            h == coord(i).hemisphere
<1>1. /\ coord(i) = [raw |-> parse_fixedpoint_float(f), hemisphere |-> h]
      /\ h # NUL => parse_fixedpoint_float(f).scale # 0
  <2>1. data = Told
    BY ParsedIs DEF Completed
  <2>2. /\ data.latitude = parse_latitude(fields[0], fields[1])
        /\ data.longitude = parse_longitude(fields[2], fields[3])
    BY <2>1 DEF Told, Handler, parse_gll
  <2>3. i = 0 => coord(i) = Coordinate(f, fields[1], {"N", "S"})
    BY <2>2 DEF parse_latitude
  <2>4. i = 2 => coord(i) = Coordinate(f, fields[3], {"E", "W"})
    BY <2>2 DEF parse_longitude
  <2>. HIDE DEF f, coord
  <2>. QED BY <2>3, <2>4 DEF Coordinate, float_valid
<1>2. f \in Seq(STRING)
  <2>1. i \in 0..MinFields[type]-1
    BY DEF MinFields
  <2>. QED BY <2>1, FieldsAre
<1>3. parse_fixedpoint_float(f) = raw
  BY <1>2, ParseFloat
<1>4. CASE h = NUL
  <2>. HIDE DEF coord
  <2>. QED BY <1>4 DEF coord_to_fixed_degrees
<1>5. CASE h # NUL
  <2>1. /\ raw = [value |-> v, scale |-> s]
        /\ v \in Int /\ s \in Nat \ {0}
    <3>. HIDE DEF f, h, coord
    <3>1. NumberIn(f).scale # 0
      BY <1>1, <1>3, <1>5
    <3>2. /\ raw = [value |-> v, scale |-> s]
          /\ v \in -INT_MAX..INT_MAX /\ s \in 1..INT_MAX
      BY <1>2, <3>1, NumberIs DEF f
    <3>. HIDE DEF v, s
    <3>. QED BY <3>2, Limits
  <2>2. coord(i).raw.value \in Int /\ coord(i).raw.scale \in Nat \ {0}
    <3>. HIDE DEF raw, h
    <3>1. coord(i).raw = raw
      BY <1>1, <1>3
    <3>. QED BY <2>1, <3>1, Zenon
  <2>. HIDE DEF coord
  <2>. QED BY <1>5, <2>2, FixedDegreesAre, Zenon
<1>. QED BY <1>4, <1>5

(* A number at a scale that is a multiple of its own. *)
LEMMA RescaledIs ==
  ASSUME NEW f, f.value \in Int, f.scale \in Nat \ {0}, NEW t \in Nat \ {0},
         NEW scale, scale = f.scale * t,
         f.value * (scale \div f.scale) \in INT_MIN..INT_MAX
  PROVE  rescale(f, scale) = f.value * (scale \div f.scale)
<1>. DEFINE v == f.value
            s == f.scale
            n == v * (s * t)
            p == v * t
<1>1. v \in Int /\ s \in Nat \ {0} /\ scale = s * t
  OBVIOUS
<1>. HIDE DEF v, s
<1>2. \A q \in Int : (s * q) \div s = q
  <2>. SUFFICES ASSUME NEW q \in Int PROVE (s * q) \div s = q
    OBVIOUS
  <2>1. 0 \in 0..s - 1 /\ s * q + 0 = s * q
    BY <1>1
  <2>. QED BY <1>1, <2>1, DivisionUnique
<1>3. scale \div s = t
  BY <1>1, <1>2
<1>4. v * t \in INT_MIN..INT_MAX
  BY <1>3 DEF v, s
<1>5. scale # 0 /\ s # 0
  <2>1. s * t # 0
    BY <1>1
  <2>. QED BY <1>1, <2>1
<1>6. CASE s = scale
  <2>1. t = 1
    <3>1. t > 1 => s * t > s
      BY <1>1
    <3>. QED BY <1>1, <1>6, <3>1
  <2>2. v * t = v
    BY <1>1, <2>1
  <2>3. rescale(f, scale) = v
    BY <1>5, <1>6 DEF rescale, float_valid, v, s
  <2>. QED BY <1>3, <2>2, <2>3 DEF v, s
<1>7. CASE s # scale
  <2>1. rescale(f, scale) = ToInt(Divide(n, s))
    BY <1>1, <1>5, <1>7 DEF rescale, float_valid, v, s
  <2>2. p \in Int /\ n = s * p
    BY <1>1
  <2>. HIDE DEF n
  <2>3. Magnitude(s) = s /\ ~(s < 0)
    BY <1>1 DEF Magnitude
  <2>4. (n < 0) = (p < 0) /\ Magnitude(n) = s * Magnitude(p) /\ Magnitude(p) \in Int
    <3>. HIDE DEF p
    <3>1. p < 0 => s * p < 0
      BY <1>1, <2>2
    <3>2. ~(p < 0) => ~(s * p < 0)
      BY <1>1, <2>2
    <3>3. s * (-p) = -(s * p)
      BY <1>1, <2>2
    <3>. QED BY <1>1, <2>2, <3>1, <3>2, <3>3 DEF Magnitude
  <2>5. Magnitude(n) \div s = Magnitude(p)
    BY <1>2, <2>4
  <2>6. Divide(n, s) = p
    <3>. HIDE DEF p
    <3>1. Divide(n, s) = IF p < 0 THEN -Magnitude(p) ELSE Magnitude(p)
      BY <2>3, <2>4, <2>5 DEF Divide
    <3>. QED BY <2>2, <3>1 DEF Magnitude
  <2>7. ToInt(p) = p
    BY <1>4, IntFits
  <2>. QED BY <1>3, <2>1, <2>6, <2>7 DEF v, s
<1>. QED BY <1>6, <1>7

(* Of two scales the larger is the common one. *)
LEMMA LargerOf ==
  ASSUME NEW x \in Nat, NEW y \in Nat
  PROVE  Max({x, y}) = IF x >= y THEN x ELSE y
<1>. DEFINE m == IF x >= y THEN x ELSE y
<1>1. m \in {x, y} /\ \A z \in {x, y} : m >= z
  OBVIOUS
<1>2. \A k \in {x, y} : (\A z \in {x, y} : k >= z) => k = m
  OBVIOUS
<1>. HIDE DEF m
<1>3. Max({x, y}) \in {x, y} /\ \A z \in {x, y} : Max({x, y}) >= z
  BY <1>1 DEF Max
<1>. QED BY <1>2, <1>3 DEF m

(* A float of a value and a power of ten. *)
IsExact(f) == /\ f = [value |-> f.value, scale |-> f.scale]
              /\ f.value \in INT_MIN..INT_MAX /\ f.scale \in 1..INT_MAX
              /\ \E k \in Nat : f.scale = TenTo(k)

LEMMA SumIs ==
  ASSUME NEW a, IsExact(a), NEW b, IsExact(b)
  PROVE  LET scale == Max({a.scale, b.scale})
             at(f) == f.value * (scale \div f.scale)
             Fits(n) == n \in INT_MIN..INT_MAX
         IN Fits(at(a)) /\ Fits(at(b)) /\ Fits(at(a) + at(b)) =>
              fp_add(a, b) = [value |-> at(a) + at(b), scale |-> scale]
<1>. DEFINE scale == Max({a.scale, b.scale})
            at(f) == f.value * (scale \div f.scale)
<1>. SUFFICES ASSUME at(a) \in INT_MIN..INT_MAX, at(b) \in INT_MIN..INT_MAX,
                     at(a) + at(b) \in INT_MIN..INT_MAX
              PROVE  fp_add(a, b) = [value |-> at(a) + at(b), scale |-> scale]
  OBVIOUS
<1>1. /\ a.value \in Int /\ a.scale \in Nat \ {0}
      /\ b.value \in Int /\ b.scale \in Nat \ {0}
  BY Limits DEF IsExact
<1>2. scale = IF a.scale >= b.scale THEN a.scale ELSE b.scale
  BY <1>1, LargerOf
<1>3. \E t \in Nat \ {0} : scale = a.scale * t
  <2>1. CASE a.scale >= b.scale
    <3>1. a.scale = a.scale * 1 /\ 1 \in Nat \ {0}
      BY <1>1
    <3>. QED BY <1>2, <2>1, <3>1
  <2>2. CASE ~(a.scale >= b.scale)
    BY <1>1, <1>2, <2>2, ScalesDivide DEF IsExact
  <2>. QED BY <2>1, <2>2
<1>4. \E t \in Nat \ {0} : scale = b.scale * t
  <2>1. CASE ~(a.scale >= b.scale)
    <3>1. b.scale = b.scale * 1 /\ 1 \in Nat \ {0}
      BY <1>1
    <3>. QED BY <1>2, <2>1, <3>1
  <2>2. CASE a.scale >= b.scale
    BY <1>1, <1>2, <2>2, ScalesDivide DEF IsExact
  <2>. QED BY <2>1, <2>2
<1>. HIDE DEF scale
<1>5. rescale(a, scale) = at(a)
  BY <1>1, <1>3, RescaledIs
<1>6. rescale(b, scale) = at(b)
  BY <1>1, <1>4, RescaledIs
<1>7. ToInt(at(a) + at(b)) = at(a) + at(b)
  BY IntFits
<1>8. CASE a.scale >= b.scale
  <2>1. scale = a.scale /\ rescale(a, scale) = a.value
    BY <1>1, <1>2, <1>8 DEF rescale, float_valid
  <2>2. fp_add(a, b) = [value |-> ToInt(a.value + rescale(b, scale)), scale |-> scale]
    BY <1>8, <2>1 DEF fp_add
  <2>. HIDE DEF at
  <2>. QED BY <1>5, <1>6, <1>7, <2>1, <2>2
<1>9. CASE ~(a.scale >= b.scale)
  <2>1. scale = b.scale /\ rescale(b, scale) = b.value
    BY <1>1, <1>2, <1>9 DEF rescale, float_valid
  <2>2. fp_add(a, b) = [value |-> ToInt(rescale(a, scale) + b.value), scale |-> scale]
    BY <1>9, <2>1 DEF fp_add
  <2>. HIDE DEF at
  <2>. QED BY <1>5, <1>6, <1>7, <2>1, <2>2
<1>. QED BY <1>8, <1>9

LEMMA HalvesAre ==
  ASSUME NEW a, IsExact(a), a.scale * 2 \in INT_MIN..INT_MAX,
         a.value * 2 \in INT_MIN..INT_MAX
  PROVE  LET half == fp_div_int(a, 2)
             whole == fp_add(half, half)
         IN /\ whole.value * a.scale = a.value * whole.scale
            /\ fp_mul_int(half, 2) = whole
<1>. DEFINE v == a.value
            s == a.scale
            half == [value |-> v, scale |-> s * 2]
<1>1. v \in Int /\ s \in Nat \ {0}
  BY Limits DEF IsExact
<1>2. ToInt(s * 2) = s * 2 /\ ToInt(v * 2) = v * 2
  BY IntFits
<1>. HIDE DEF v, s
<1>3. fp_div_int(a, 2) = half
  BY <1>2 DEF fp_div_int, v, s
<1>4. half.value = v /\ half.scale = s * 2 /\ half.scale # 0 /\ half.scale >= half.scale
  BY <1>1
<1>. HIDE DEF half
<1>5. rescale(half, half.scale) = v
  BY <1>4 DEF rescale, float_valid
<1>6. fp_add(half, half) = [value |-> ToInt(v + v), scale |-> s * 2]
  BY <1>4, <1>5 DEF fp_add
<1>7. v + v = v * 2 /\ (v * 2) * s = v * (s * 2)
  BY <1>1
<1>8. fp_add(half, half) = [value |-> v * 2, scale |-> s * 2]
  BY <1>2, <1>6, <1>7
<1>9. fp_mul_int(half, 2) = [value |-> v * 2, scale |-> s * 2]
  BY <1>2, <1>4 DEF fp_mul_int
<1>. QED BY <1>3, <1>7, <1>8, <1>9 DEF v, s

(* Sums and parts of numbers. *)
LEMMA ArithmeticFollows ==
  ASSUME ParseInv
  PROVE  ArithmeticIsExact
<1>. DEFINE a == data.altitude_m
            b == data.geoid_sep_m
<1>. SUFFICES ASSUME Parsed, type = "GGA", ScaleHolds(fields[8]), ScaleHolds(fields[10]),
                     a.scale # 0, b.scale # 0
              PROVE  LET scale == Max({a.scale, b.scale})
                         at(f) == f.value * (scale \div f.scale)
                         Fits(n) == n \in INT_MIN..INT_MAX
                         half == fp_div_int(a, 2)
                         whole == fp_add(half, half)
                     IN /\ Fits(at(a)) /\ Fits(at(b)) /\ Fits(at(a) + at(b)) =>
                             fp_add(a, b) = [value |-> at(a) + at(b), scale |-> scale]
                        /\ Fits(a.scale * 2) /\ Fits(a.value * 2) =>
                             /\ whole.value * a.scale = a.value * whole.scale
                             /\ fp_mul_int(half, 2) = whole
  BY DEF ArithmeticIsExact, float_valid
<1>1. a = NumberIn(fields[8]) /\ b = NumberIn(fields[10])
  <2>1. NumbersAreExact
    BY NumbersFollow
  <2>. QED BY <2>1 DEF NumbersAreExact, NumberFields, FloatOf
<1>2. fields[8] \in Seq(STRING) /\ fields[10] \in Seq(STRING)
  BY FieldsAre DEF MinFields
<1>3. IsExact(a) /\ IsExact(b)
  <2>1. \A x \in -INT_MAX..INT_MAX : x \in INT_MIN..INT_MAX
    BY Limits
  <2>2. \A f \in Seq(STRING) : ScaleHolds(f) /\ NumberIn(f).scale # 0 => IsExact(NumberIn(f))
    BY <2>1, NumberIs DEF IsExact
  <2>. HIDE DEF a, b
  <2>3. NumberIn(fields[8]).scale # 0 /\ NumberIn(fields[10]).scale # 0
    BY <1>1 DEF a, b
  <2>. QED BY <1>1, <1>2, <2>2, <2>3
<1>. HIDE DEF a, b
<1>. QED BY <1>3, SumIs, HalvesAre, Zenon

-----------------------------------------------------------------------------
(* Satellites.                                                             *)

(* A number that is narrowed to a signed type is the one number of it that *)
(* is the same but for a multiple of its size.                             *)
Same(Ints, count, n) == CHOOSE v \in Ints : (v - n) % count = 0

LEMMA SignedOf ==
  ASSUME NEW half \in Nat, NEW size, size = 2 * half + 2, NEW least, least = -half - 1,
         NEW n \in Int
  PROVE  Same(least..half, size, n) =
            IF n % size > half THEN (n % size) - size ELSE n % size
<1>. DEFINE u == n % size
            c == n \div size
            w == IF u > half THEN u - size ELSE u
            e == IF u > half THEN -1 - c ELSE -c
            S == least..half
<1>1. size \in Nat \ {0} /\ size - 1 = 2 * half + 1
  OBVIOUS
<1>2. c \in Int /\ u \in 0..size - 1 /\ n = size * c + u
  <2>. QED BY <1>1, Division
<1>3. w \in S
  <2>. HIDE DEF u
  <2>. QED BY <1>2
<1>4. \A q \in Int : (size * q) % size = 0
  <2>. SUFFICES ASSUME NEW q \in Int PROVE (size * q) % size = 0
    OBVIOUS
  <2>1. 0 \in 0..size - 1 /\ size * q + 0 = size * q
    BY <1>1
  <2>. QED BY <1>1, <2>1, DivisionUnique
<1>5. (w - n) % size = 0
  <2>1. e \in Int /\ w - n = size * e
    <3>. HIDE DEF u, c
    <3>1. size * (-1 - c) = -size - size * c /\ size * (-c) = -(size * c)
      BY <1>1, <1>2
    <3>2. size * c \in Int
      BY <1>1, <1>2
    <3>. QED BY <1>1, <1>2, <3>1, <3>2
  <2>. HIDE DEF e, w
  <2>. QED BY <1>4, <2>1
<1>6. ASSUME NEW x \in S, (x - n) % size = 0 PROVE x = w
  <2>. DEFINE q == (x - n) \div size
  <2>1. q \in Int /\ x - n = size * q
    <3>1. x - n \in Int
      OBVIOUS
    <3>. DEFINE y == x - n
    <3>2. y \in Int /\ y % size = 0
      BY <1>6, <3>1
    <3>. HIDE DEF y
    <3>3. y \div size \in Int /\ y = size * (y \div size) + (y % size)
      BY <1>1, <3>2, Division
    <3>4. y = size * (y \div size)
      BY <1>1, <3>2, <3>3
    <3>. QED BY <3>3, <3>4 DEF y
  <2>. HIDE DEF q, u, c
  <2>. DEFINE p == q + c
  <2>2. p \in Int /\ x = size * p + u /\ x \in Int
    <3>1. size * (q + c) = size * q + size * c
      BY <1>1, <1>2, <2>1
    <3>2. size * q \in Int /\ size * c \in Int
      BY <1>1, <1>2, <2>1
    <3>. QED BY <1>1, <1>2, <2>1, <3>1, <3>2
  <2>. HIDE DEF p
  <2>3. p = 0 \/ p = -1
    <3>1. p >= 1 => size * p >= size
      BY <2>2
    <3>2. p <= -2 => size * p <= -2 * size
      BY <2>2
    <3>. QED BY <1>2, <2>2, <3>1, <3>2
  <2>. QED BY <1>2, <2>2, <2>3
<1>. HIDE DEF w, S
<1>7. (CHOOSE v \in S : (v - n) % size = 0) = w
  BY <1>3, <1>5, <1>6
<1>. QED BY <1>7 DEF w, S, Same

LEMMA SatellitesFollow ==
  ASSUME ParseInv
  PROVE  SatellitesAreOfTheirBlocks
<1>. DEFINE in(k, i) == FieldAt(fields, 4 * k - 1 + i)
            given == {k \in 1..MaxSatsGsv : UnsignedIn(in(k, 0)) # <<>>}
            Or(n, none) == IF n = <<>> THEN none ELSE n[1]
            In(Ints, count, n) == CHOOSE v \in Ints : (v - n) % count = 0
            sat(k) == data.sats[Cardinality(given \intersect 1..k)]
            Told_(k) == /\ sat(k).prn = UnsignedIn(in(k, 0))[1] % 256
                        /\ sat(k).elevation = In(INT8, 256, Or(SignedIn(in(k, 1)), -128))
                        /\ sat(k).azimuth =
                             In(INT16, UINT16_MAX + 1, Or(UnsignedIn(in(k, 2)), -1))
                        /\ sat(k).snr = In(INT8, 256, Or(SignedIn(in(k, 3)), -1))
            Signal == given = 1..MaxSatsGsv =>
                        data.signal_id = Or(UnsignedIn(in(MaxSatsGsv + 1, 0)), 0) % 256
<1>. SUFFICES ASSUME Parsed, type = "GSV"
              PROVE  /\ Len(data.sats) = Cardinality(given)
                     /\ \A k \in given : Told_(k)
                     /\ Signal
  BY DEF SatellitesAreOfTheirBlocks
<1>1. data = parse_gsv(fields, Zero)
  BY ParsedIs DEF Completed, Told, Handler
<1>2. MaxSatsGsv \in Nat
  BY SentenceAssumption
<1>3. \A k \in Nat, i \in 0..3 : in(k, i) \in Seq(STRING)
  <2>1. \A k \in Nat, i \in 0..3 : 4 * k - 1 + i \in Int
    OBVIOUS
  <2>2. \A j \in Int : FieldAt(fields, j) \in Seq(STRING)
    BY FieldsAre
  <2>. QED BY <2>1, <2>2
<1>4. \A k \in Nat : in(k, 0) = FieldAt(fields, 4 * k - 1)
  <2>1. \A k \in Nat : 4 * k - 1 + 0 = 4 * k - 1
    OBVIOUS
  <2>. QED BY <2>1
<1>5. \A k \in Nat, i \in 0..3 : /\ parse_uint(in(k, i)) = UnsignedIn(in(k, i))
                                 /\ parse_int(in(k, i)) = SignedIn(in(k, i))
  <2>. HIDE DEF in
  <2>. QED BY <1>3, ParseUint, ParseInt
<1>. DEFINE P == {k \in 1..MaxSatsGsv : parse_uint(FieldAt(fields, 4 * k - 1)) # <<>>}
            q == InOrder(P, MaxSatsGsv)
<1>6. P = given
  <2>1. \A k \in 1..MaxSatsGsv :
           parse_uint(FieldAt(fields, 4 * k - 1)) = UnsignedIn(in(k, 0))
    <3>. SUFFICES ASSUME NEW k \in 1..MaxSatsGsv
                  PROVE  parse_uint(FieldAt(fields, 4 * k - 1)) = UnsignedIn(in(k, 0))
      OBVIOUS
    <3>1. k \in Nat /\ 0 \in 0..3
      BY <1>2
    <3>. HIDE DEF in
    <3>. QED BY <1>4, <1>5, <3>1
  <2>. HIDE DEF in
  <2>. QED BY <2>1
<1>7. Blocks(fields) = q
  BY DEF Blocks
<1>. HIDE DEF P, given
<1>8. /\ given \in SUBSET (1..MaxSatsGsv)
      /\ q \in Seq(given) /\ Len(q) = Cardinality(given)
      /\ \A k \in given : Rank(given, k) \in 1..Len(q) /\ q[Rank(given, k)] = k
  <2>1. given \in SUBSET (1..MaxSatsGsv)
    BY DEF given
  <2>2. q = InOrder(given, MaxSatsGsv)
    BY <1>6
  <2>. HIDE DEF q
  <2>. QED BY <1>2, <2>1, <2>2, InOrderIs
<1>. HIDE DEF q
<1>9. /\ data.sats = [j \in 1..Len(q) |-> SatInfo(fields, 4 * q[j] - 1)]
      /\ data.signal_id = Byte(FieldAt(fields, 3 + 4 * Len(data.sats)), 0)
  <2>1. DOMAIN q = 1..Len(q)
    BY <1>8
  <2>. QED BY <1>1, <1>7, <2>1 DEF parse_gsv, memset, Zero
<1>10. Len(data.sats) = Cardinality(given)
  <2>1. Len(q) \in Nat
    BY <1>8
  <2>. QED BY <1>8, <1>9, <2>1
<1>11. \A Ints, count, n : In(Ints, count, n) = Same(Ints, count, n)
  BY DEF Same
<1>. HIDE DEF In
<1>12. ASSUME NEW n \in Int
       PROVE  /\ Int8(n) = In(INT8, 256, n)
              /\ Int16(n) = In(INT16, UINT16_MAX + 1, n)
  <2>. DEFINE bytes == 256
              low == -128
              high == 127
  <2>1. high \in Nat /\ bytes = 2 * high + 2 /\ low = -high - 1
    OBVIOUS
  <2>. HIDE DEF bytes, low, high
  <2>2. Same(low..high, bytes, n) = IF n % bytes > high THEN (n % bytes) - bytes ELSE n % bytes
    BY <2>1, SignedOf, Zenon
  <2>. DEFINE size == UINT16_MAX + 1
              least == -INT16_MAX - 1
  <2>3. INT16_MAX \in Nat /\ size = 2 * INT16_MAX + 2 /\ least = -INT16_MAX - 1
    BY FieldAssumption DEF UINT16_MAX
  <2>. HIDE DEF size, least
  <2>4. Same(least..INT16_MAX, size, n) =
          IF n % size > INT16_MAX THEN (n % size) - size ELSE n % size
    BY <2>3, SignedOf, Zenon
  <2>. QED BY <1>11, <2>2, <2>4, Zenon DEF Int8, Uint8, INT8, Int16, Uint16, INT16, size, least,
                                         bytes, low, high
<1>13. ASSUME NEW k \in given PROVE Told_(k)
  <2>. DEFINE base == 4 * k - 1
  <2>1. k \in Nat /\ base \in Int
    BY <1>2, <1>8
  <2>2. sat(k) = SatInfo(fields, base)
    <3>1. sat(k) = data.sats[Rank(given, k)]
      BY DEF Rank
    <3>. HIDE DEF sat
    <3>. QED BY <1>8, <1>9, <3>1
  <2>3. UnsignedIn(in(k, 0)) # <<>>
    BY DEF given
  <2>4. fields[base] = in(k, 0)
    <3>1. in(k, 0) # <<>>
      BY <2>3 DEF UnsignedIn
    <3>. QED BY <1>4, <2>1, <3>1 DEF FieldAt
  <2>5. /\ in(k, 1) = FieldAt(fields, base + 1) /\ in(k, 2) = FieldAt(fields, base + 2)
        /\ in(k, 3) = FieldAt(fields, base + 3)
    OBVIOUS
  <2>. HIDE DEF base, in
  <2>6. /\ parse_uint(in(k, 0)) = UnsignedIn(in(k, 0))
        /\ parse_int(in(k, 1)) = SignedIn(in(k, 1))
        /\ parse_uint(in(k, 2)) = UnsignedIn(in(k, 2))
        /\ parse_int(in(k, 3)) = SignedIn(in(k, 3))
    BY <1>5, <2>1
  <2>7. /\ sat(k).prn = Uint8(UnsignedIn(in(k, 0))[1])
        /\ sat(k).elevation = Assign(SignedIn(in(k, 1)), Int8, -128)
        /\ sat(k).azimuth = Assign(UnsignedIn(in(k, 2)), Int16, -1)
        /\ sat(k).snr = Assign(SignedIn(in(k, 3)), Int8, -1)
    <3>. HIDE DEF sat
    <3>. QED BY <2>2, <2>4, <2>5, <2>6 DEF SatInfo
  <2>8. \A i \in 0..3 : /\ SignedIn(in(k, i)) # <<>> => SignedIn(in(k, i))[1] \in Int
                        /\ UnsignedIn(in(k, i)) # <<>> => UnsignedIn(in(k, i))[1] \in Int
    <3>. SUFFICES ASSUME NEW i \in 0..3
                  PROVE  /\ SignedIn(in(k, i)) # <<>> => SignedIn(in(k, i))[1] \in Int
                         /\ UnsignedIn(in(k, i)) # <<>> => UnsignedIn(in(k, i))[1] \in Int
      OBVIOUS
    <3>. DEFINE f == in(k, i)
    <3>1. f \in Seq(STRING)
      BY <1>3, <2>1
    <3>. HIDE DEF f
    <3>2. SignedIn(f) # <<>> => SignedIn(f)[1] \in Int
      BY DEF SignedIn, INT_MIN
    <3>3. UnsignedIn(f) # <<>> => UnsignedIn(f)[1] \in Int
      <4>. SUFFICES ASSUME f # <<>>, AllDigits(f) PROVE Numeral(f) \in Int
        BY DEF UnsignedIn
      <4>1. \A j \in 1..Len(f) : f[j] \in Digits
        BY <3>1 DEF AllDigits
      <4>2. f \in Seq(Digits)
        BY <3>1, <4>1
      <4>. QED BY <4>2, NumeralBasics
    <3>. QED BY <3>2, <3>3 DEF f
  <2>9. Int8(-128) = -128 /\ Int8(-1) = -1 /\ Int16(-1) = -1
    <3>1. Int8(-128) = -128 /\ Int8(-1) = -1
      BY DEF Int8, Uint8
    <3>. DEFINE size == UINT16_MAX + 1
    <3>2. size \in Nat \ {0} /\ -1 \in Int /\ size - 1 \in 0..size - 1
          /\ size - 1 = UINT16_MAX /\ UINT16_MAX > INT16_MAX
      BY FieldAssumption DEF UINT16_MAX
    <3>. HIDE DEF size
    <3>3. (size * (-1) + (size - 1)) % size = size - 1
      BY <3>2, DivisionUnique
    <3>4. size * (-1) + (size - 1) = -1
      BY <3>2
    <3>5. Uint16(-1) = size - 1
      BY <3>3, <3>4 DEF Uint16, size
    <3>6. UINT16_MAX \in Int
      BY FieldAssumption DEF UINT16_MAX
    <3>7. (size - 1) - size = -1
      BY <3>2
    <3>8. Int16(-1) = -1
      BY <3>2, <3>5, <3>7 DEF Int16, size
    <3>. QED BY <3>1, <3>8
  <2>. HIDE DEF In, sat
  <2>. DEFINE e == SignedIn(in(k, 1))
              a == UnsignedIn(in(k, 2))
              s == SignedIn(in(k, 3))
  <2>10. /\ Or(e, -128) \in Int /\ Assign(e, Int8, -128) = Int8(Or(e, -128))
         /\ Or(a, -1) \in Int /\ Assign(a, Int16, -1) = Int16(Or(a, -1))
         /\ Or(s, -1) \in Int /\ Assign(s, Int8, -1) = Int8(Or(s, -1))
    <3>1. /\ e # <<>> => e[1] \in Int
          /\ a # <<>> => a[1] \in Int
          /\ s # <<>> => s[1] \in Int
      BY <2>8
    <3>. HIDE DEF e, a, s
    <3>. QED BY <2>9, <3>1 DEF Assign
  <2>. HIDE DEF Or
  <2>. QED BY <1>12, <2>7, <2>10, Zenon DEF Uint8
<1>14. Signal
  <2>. SUFFICES ASSUME given = 1..MaxSatsGsv
                PROVE  data.signal_id = Or(UnsignedIn(in(MaxSatsGsv + 1, 0)), 0) % 256
    OBVIOUS
  <2>1. Cardinality(given) = MaxSatsGsv
    <3>1. Cardinality(1..MaxSatsGsv) = IF 1 > MaxSatsGsv THEN 0 ELSE MaxSatsGsv - 1 + 1
      BY <1>2, FS_Interval
    <3>. QED BY <1>2, <3>1
  <2>. DEFINE f == in(MaxSatsGsv + 1, 0)
  <2>2. FieldAt(fields, 3 + 4 * Len(data.sats)) = f
    <3>1. 3 + 4 * MaxSatsGsv = 4 * (MaxSatsGsv + 1) - 1 + 0
      BY <1>2
    <3>. QED BY <1>10, <2>1, <3>1
  <2>3. f \in Seq(STRING)
    <3>1. MaxSatsGsv + 1 \in Nat /\ 0 \in 0..3
      BY <1>2
    <3>. HIDE DEF in
    <3>. QED BY <1>3, <3>1
  <2>. HIDE DEF f
  <2>4. data.signal_id = IF UnsignedIn(f) = <<>> THEN 0 ELSE UnsignedIn(f)[1] % 256
    BY <1>9, <2>2, <2>3, NarrowedIs
  <2>5. 0 % 256 = 0
    OBVIOUS
  <2>. QED BY <2>4, <2>5 DEF f
<1>. QED BY <1>10, <1>13, <1>14

-----------------------------------------------------------------------------
(* Times.                                                                  *)

LEMMA GreatestOf ==
  ASSUME NEW N \in Nat, NEW I \in SUBSET (0..N), I # {}
  PROVE  Max(I) \in I /\ \A i \in I : Max(I) >= i
<1>. DEFINE Below == {N - i : i \in I}
<1>1. Below \in SUBSET Nat /\ Below # {}
  <2>1. \A i \in I : N - i \in Nat
    OBVIOUS
  <2>2. PICK i \in I : TRUE
    OBVIOUS
  <2>3. N - i \in Below
    OBVIOUS
  <2>. QED BY <2>1, <2>3
<1>2. PICK b \in Below : \A c \in Below : b <= c
  BY <1>1, LeastNat
<1>3. N - b \in I /\ \A i \in I : N - b >= i
  BY <1>2
<1>. HIDE DEF Below
<1>4. \E m \in I : \A i \in I : m >= i
  BY <1>3
<1>. QED BY <1>4 DEF Max

(* Zeros are worth nothing. *)
Zeros(n) == [i \in 1..n |-> "0"]

LEMMA ZerosAre ==
  ASSUME NEW n \in Nat
  PROVE  Zeros(n) \in Seq(Digits) /\ Len(Zeros(n)) = n /\ Numeral(Zeros(n)) = 0
<1>. DEFINE s == Zeros(n)
            w == [i \in 0..n |-> 0]
<1>1. s \in Seq(Digits) /\ Len(s) = n /\ \A i \in 1..n : s[i] = "0"
  <2>1. "0" \in Digits
    BY DigitFacts
  <2>2. s \in [1..n -> Digits] /\ \A i \in 1..n : s[i] = "0"
    BY <2>1 DEF Zeros
  <2>. HIDE DEF s
  <2>. QED BY <2>2
<1>2. DigitOf["0"] = 0
  BY DigitFacts
<1>3. w[0] = 0 /\ w[n] = 0 /\ \A i \in 1..n : w[i] = 0 /\ w[i - 1] = 0
  OBVIOUS
<1>. HIDE DEF s, w
<1>4. \A i \in 1..Len(s) : w[i] = 10 * w[i - 1] + DigitOf[s[i]]
  BY <1>1, <1>2, <1>3
<1>5. w[Len(s)] = Numeral(s)
  BY <1>1, <1>3, <1>4, NumeralUnique
<1>. QED BY <1>1, <1>3, <1>5 DEF s

(* The digit at k of a text that begins with digits, and zero behind them. *)
DigitAt(s, k) == IF k <= Len(s) /\ AllDigits(SubSeq(s, 1, k)) THEN s[k] ELSE "0"

(* Millionths are the six digits that there are, or are made up with zeros. *)
LEMMA MillionthsAre ==
  ASSUME NEW s \in Seq(STRING)
  PROVE  /\ Millionths(s) = Numeral([k \in 1..6 |-> DigitAt(s, k)])
         /\ Millionths(s) \in Nat /\ Millionths(s) < TenTo(6)
<1>. DEFINE L == Len(s)
            least == Min({6, L})
            I == {n \in 0..least : AllDigits(SubSeq(s, 1, n))}
            D == Max(I)
            a == SubSeq(s, 1, D)
            b == Zeros(6 - D)
            told == [k \in 1..6 |-> DigitAt(s, k)]
<1>1. L \in Nat
  OBVIOUS
<1>2. least \in Nat /\ least <= 6 /\ least <= L /\ (least = 6 \/ least = L)
  <2>. DEFINE both == {6, L}
  <2>1. both \in SUBSET Nat /\ both # {}
    BY <1>1
  <2>. HIDE DEF L
  <2>2. Min(both) \in both /\ \A i \in both : Min(both) <= i
    <3>. HIDE DEF both
    <3>. QED BY <2>1, LeastOf
  <2>. QED BY <1>1, <2>2
<1>. HIDE DEF least
<1>3. \A n \in 0..L : AllDigits(SubSeq(s, 1, n)) <=> \A i \in 1..n : s[i] \in Digits
  <2>. SUFFICES ASSUME NEW n \in 0..L
                PROVE  AllDigits(SubSeq(s, 1, n)) <=> \A i \in 1..n : s[i] \in Digits
    OBVIOUS
  <2>. DEFINE g == SubSeq(s, 1, n)
  <2>1. DOMAIN g = 1..n /\ \A i \in 1..n : g[i] = s[i]
    OBVIOUS
  <2>. HIDE DEF g
  <2>. QED BY <2>1 DEF AllDigits, g
<1>4. D \in 0..least /\ (\A i \in 1..D : s[i] \in Digits) /\ \A n \in I : D >= n
  <2>1. 0 \in I
    <3>1. 0 \in 0..L /\ 0 \in 0..least /\ 1..0 = {}
      BY <1>1, <1>2
    <3>. HIDE DEF L
    <3>2. AllDigits(SubSeq(s, 1, 0))
      BY <1>3, <3>1
    <3>. QED BY <3>1, <3>2
  <2>2. I \in SUBSET (0..least) /\ I # {}
    BY <2>1
  <2>3. D \in I /\ \A n \in I : D >= n
    <3>. HIDE DEF I
    <3>. QED BY <1>2, <2>2, GreatestOf
  <2>4. D \in 0..least /\ AllDigits(SubSeq(s, 1, D)) /\ D \in 0..L
    <3>. HIDE DEF D, L
    <3>. QED BY <1>1, <1>2, <2>3
  <2>. HIDE DEF D, I, L
  <2>. QED BY <1>3, <2>3, <2>4
<1>5. \A k \in 1..6 : (k <= L /\ AllDigits(SubSeq(s, 1, k))) <=> k <= D
  <2>. SUFFICES ASSUME NEW k \in 1..6
                PROVE  (k <= L /\ AllDigits(SubSeq(s, 1, k))) <=> k <= D
    OBVIOUS
  <2>1. ASSUME k <= L, AllDigits(SubSeq(s, 1, k)) PROVE k <= D
    <3>1. k \in 0..least
      <4>. HIDE DEF L
      <4>. QED BY <1>1, <1>2, <2>1
    <3>2. k \in I
      BY <2>1, <3>1
    <3>. HIDE DEF I, D
    <3>. QED BY <1>4, <3>2
  <2>2. ASSUME k <= D PROVE k <= L /\ AllDigits(SubSeq(s, 1, k))
    <3>. HIDE DEF L, D
    <3>1. k \in 0..L /\ \A i \in 1..k : i \in 1..D
      BY <1>1, <1>2, <1>4, <2>2
    <3>. QED BY <1>3, <1>4, <3>1
  <2>. QED BY <2>1, <2>2
<1>. HIDE DEF D, I, L
<1>6. D \in 0..6 /\ D <= L
  BY <1>1, <1>2, <1>4
<1>7. a \in Seq(Digits) /\ Len(a) = D /\ \A k \in 1..D : a[k] = s[k]
  BY <1>1, <1>4, <1>6 DEF L
<1>8. b \in Seq(Digits) /\ Len(b) = 6 - D /\ Numeral(b) = 0
      /\ \A i \in 1..6 - D : b[i] = "0"
  <2>1. 6 - D \in Nat
    BY <1>6
  <2>. QED BY <2>1, ZerosAre DEF Zeros
<1>9. told = a \o b
  <2>1. \A k \in 1..6 : told[k] = IF k <= D THEN s[k] ELSE "0"
    BY <1>5 DEF DigitAt, L
  <2>. HIDE DEF a, b
  <2>2. Len(a \o b) = 6
        /\ \A k \in 1..6 : (a \o b)[k] = IF k <= D THEN s[k] ELSE "0"
    BY <1>6, <1>7, <1>8
  <2>3. \A k \in 1..6 : told[k] \in Digits
    <3>1. "0" \in Digits
      BY DigitFacts
    <3>2. \A k \in 1..D : s[k] \in Digits
      BY <1>7
    <3>. HIDE DEF told
    <3>. QED BY <1>6, <2>1, <3>1, <3>2
  <2>4. told \in [1..6 -> Digits]
    BY <2>3
  <2>. HIDE DEF told
  <2>5. told \in Seq(Digits) /\ Len(told) = 6
    <3>. DEFINE N == 6
    <3>1. told \in [1..N -> Digits] /\ N \in Nat
      BY <2>4
    <3>. HIDE DEF N
    <3>2. told \in Seq(Digits) /\ Len(told) = N
      BY <3>1
    <3>. QED BY <3>2 DEF N
  <2>6. a \o b \in Seq(Digits)
    BY <1>7, <1>8, NumeralOfBoth
  <2>. DEFINE ab == a \o b
  <2>. HIDE DEF ab
  <2>7. ab \in Seq(Digits) /\ Len(ab) = 6 /\ \A k \in 1..6 : told[k] = ab[k]
    BY <2>1, <2>2, <2>6 DEF ab
  <2>8. \A k \in 1..Len(told) : told[k] = ab[k]
    BY <2>5, <2>7
  <2>. QED BY <2>5, <2>7, <2>8, SeqEqual, Zenon DEF ab
<1>10. Millionths(s) = Numeral(a) * TenTo(6 - D)
  BY Zenon DEF Millionths, D, I, least, L
<1>11. Numeral(told) = Numeral(a) * TenTo(6 - D) + 0
  <2>. HIDE DEF a, b, told
  <2>. QED BY <1>7, <1>8, <1>9, NumeralOfBoth
<1>12. Numeral(told) \in Nat /\ Numeral(told) < TenTo(6)
  <2>. HIDE DEF a, b, told
  <2>1. told \in Seq(Digits) /\ Len(told) = 6
    BY <1>6, <1>7, <1>8, <1>9, NumeralOfBoth
  <2>. QED BY <2>1, NumeralBound, NumeralBasics
<1>13. Numeral(a) * TenTo(6 - D) \in Nat
  <2>1. Numeral(a) \in Nat /\ 6 - D \in Nat
    <3>. HIDE DEF a
    <3>. QED BY <1>6, <1>7, NumeralBasics
  <2>2. TenTo(6 - D) \in Nat
    BY <2>1, TenFacts
  <2>. QED BY <2>1, <2>2
<1>. QED BY <1>10, <1>11, <1>12, <1>13

(* parse_time reads the time that its field is. *)
LEMMA TimeIs ==
  ASSUME NEW f \in Seq(STRING)
  PROVE  IF IsTime(f) THEN parse_time(f) = TimeIn(f) ELSE ~parse_time(f).valid
<1>. DEFINE h == Pair(f, 1)
            m == Pair(f, 3)
            s == Pair(f, 5)
            t == [hours |-> h, minutes |-> m, seconds |-> s, microseconds |-> 0,
                  valid |-> FALSE]
            micros == IF Len(f) > 7 /\ f[7] = "." THEN Millionths(SubSeq(f, 8, Len(f))) ELSE 0
            after == IF Len(f) > 7 /\ f[7] = "." THEN SubSeq(f, 8, Len(f)) ELSE <<>>
            told == [k \in 1..6 |-> IF k <= Len(after) /\ AllDigits(SubSeq(after, 1, k))
                                    THEN after[k] ELSE "0"]
            clock == [k \in 1..3 |-> Numeral(SubSeq(f, 2 * k - 1, 2 * k))]
<1>1. ~HasSixDigits(f) => ~parse_time(f).valid /\ ~IsTime(f)
  BY DEF parse_time, NoTime, HasSixDigits, IsTime
<1>2. CASE HasSixDigits(f)
  <2>1. Len(f) >= 6 /\ AllDigits(SubSeq(f, 1, 6))
    BY <1>2 DEF HasSixDigits
  <2>2. /\ h = Numeral(SubSeq(f, 1, 2)) /\ h \in 0..99
        /\ m = Numeral(SubSeq(f, 3, 4)) /\ m \in 0..99
        /\ s = Numeral(SubSeq(f, 5, 6)) /\ s \in 0..99
    <3>1. 1 + 1 = 2 /\ 3 + 1 = 4 /\ 5 + 1 = 6
      OBVIOUS
    <3>. QED BY <2>1, <3>1, PairIs
  <2>3. clock[1] = h /\ clock[2] = m /\ clock[3] = s
    <3>1. /\ clock[1] = Numeral(SubSeq(f, 2 * 1 - 1, 2 * 1))
          /\ clock[2] = Numeral(SubSeq(f, 2 * 2 - 1, 2 * 2))
          /\ clock[3] = Numeral(SubSeq(f, 2 * 3 - 1, 2 * 3))
      OBVIOUS
    <3>2. /\ 2 * 1 - 1 = 1 /\ 2 * 1 = 2 /\ 2 * 2 - 1 = 3 /\ 2 * 2 = 4
          /\ 2 * 3 - 1 = 5 /\ 2 * 3 = 6
      OBVIOUS
    <3>. HIDE DEF clock, h, m, s
    <3>. QED BY <2>2, <3>1, <3>2
  <2>4. micros = Numeral(told)
    <3>1. CASE Len(f) > 7 /\ f[7] = "."
      <4>. DEFINE g == SubSeq(f, 8, Len(f))
      <4>1. g \in Seq(STRING) /\ after = g /\ micros = Millionths(g)
        BY <3>1
      <4>. HIDE DEF g, micros, after
      <4>2. told = [k \in 1..6 |-> DigitAt(g, k)]
        BY <4>1 DEF DigitAt
      <4>. HIDE DEF told
      <4>. QED BY <4>1, <4>2, MillionthsAre
    <3>2. CASE ~(Len(f) > 7 /\ f[7] = ".")
      <4>1. after = <<>> /\ micros = 0
        BY <3>2
      <4>. HIDE DEF after, micros
      <4>2. told = Zeros(6)
        <5>1. \A k \in 1..6 : ~(k <= Len(after))
          BY <4>1
        <5>. QED BY <5>1 DEF Zeros
      <4>3. 6 \in Nat
        OBVIOUS
      <4>. HIDE DEF told
      <4>. QED BY <4>1, <4>2, <4>3, ZerosAre
    <3>. QED BY <3>1, <3>2
  <2>5. TimeIn(f) = [hours |-> clock[1], minutes |-> clock[2], seconds |-> clock[3],
                     microseconds |-> Numeral(told), valid |-> TRUE]
    BY Zenon DEF TimeIn
  <2>6. parse_time(f) = IF h > 23 \/ m > 59 \/ s > 60 THEN t
                        ELSE [t EXCEPT !.valid = TRUE, !.microseconds = micros]
    BY <1>2 DEF parse_time
  <2>7. IsTime(f) <=> h < 24 /\ m < 60 /\ s <= 60
    BY <2>1, <2>2, Zenon DEF IsTime
  <2>. HIDE DEF h, m, s, clock, told, micros
  <2>8. CASE h < 24 /\ m < 60 /\ s <= 60
    <3>1. ~(h > 23 \/ m > 59 \/ s > 60)
      BY <2>2, <2>8
    <3>2. parse_time(f) = [t EXCEPT !.valid = TRUE, !.microseconds = micros]
      BY <2>6, <3>1
    <3>3. parse_time(f) = [hours |-> h, minutes |-> m, seconds |-> s,
                           microseconds |-> micros, valid |-> TRUE]
      BY <3>2
    <3>4. parse_time(f) = TimeIn(f)
      BY <2>3, <2>4, <2>5, <3>3
    <3>. QED BY <2>7, <2>8, <3>4
  <2>9. CASE ~(h < 24 /\ m < 60 /\ s <= 60)
    <3>1. h > 23 \/ m > 59 \/ s > 60
      BY <2>2, <2>9
    <3>2. parse_time(f).valid = FALSE
      BY <2>6, <3>1
    <3>. QED BY <2>7, <2>9, <3>2
  <2>. QED BY <2>8, <2>9
<1>. QED BY <1>1, <1>2

LEMMA TimesFollow ==
  ASSUME ParseInv
  PROVE  TimesAreExact
<1>. DEFINE f == fields[TimeField[type]]
<1>. SUFFICES ASSUME Parsed, type \in DOMAIN TimeField
              PROVE  IF IsTime(f) THEN data.time = TimeIn(f) ELSE ~data.time.valid
  BY DEF TimesAreExact
<1>1. f \in Seq(STRING)
  <2>1. TimeField[type] \in 0..MinFields[type]-1
    BY DEF TimeField, MinFields
  <2>. QED BY <2>1, FieldsAre
<1>2. Told.time = parse_time(f)
  BY DEF TimeField, Told, Handler, parse_rmc, parse_gga, parse_gns, parse_gll, parse_zda,
         parse_gbs, parse_gst
<1>3. data.time = Told.time
  <2>1. CASE Completed
    <3>. DEFINE y == Uint16(zda_century * 100 + Told.date.year_yy)
    <3>1. data = [Told EXCEPT !.date.year = y]
      BY <2>1, ParsedIs
    <3>2. Told = parse_rmc(fields, Zero)
      BY <2>1 DEF Completed, Told, Handler
    <3>. HIDE DEF y
    <3>. QED BY <3>1, <3>2 DEF parse_rmc
  <2>2. CASE ~Completed
    BY <2>2, ParsedIs
  <2>. QED BY <2>1, <2>2
<1>. HIDE DEF f
<1>. QED BY <1>1, <1>2, <1>3, TimeIs

-----------------------------------------------------------------------------
(* The text of a sentence.                                                 *)

LEMMA InOrderGrows ==
  ASSUME NEW n \in Nat, NEW P \in SUBSET (1..n),
         NEW j \in 1..Len(InOrder(P, n)), NEW k \in 1..Len(InOrder(P, n)), j < k
  PROVE  InOrder(P, n)[j] < InOrder(P, n)[k]
<1>. DEFINE q == InOrder(P, n)
            x == q[j]
            y == q[k]
<1>1. /\ q \in Seq(P) /\ Rank(P, x) = j /\ Rank(P, y) = k
  BY InOrderIs
<1>2. x \in 1..n /\ y \in 1..n
  <2>. HIDE DEF q
  <2>1. q[j] \in P /\ q[k] \in P
    BY <1>1, ElementOfSeq DEF q
  <2>. QED BY <2>1
<1>. HIDE DEF x, y, q
<1>. SUFFICES ASSUME x >= y PROVE FALSE
  BY <1>2 DEF x, y, q
<1>3. P \intersect 1..y \subseteq P \intersect 1..x
  BY <1>2
<1>4. IsFiniteSet(P \intersect 1..x)
  <2>1. 1 \in Int /\ x \in Int
    BY <1>2
  <2>2. IsFiniteSet(1..x)
    BY <2>1, FS_Interval
  <2>3. P \intersect 1..x \subseteq 1..x
    OBVIOUS
  <2>. QED BY <2>2, <2>3, FS_Subset
<1>5. Cardinality(P \intersect 1..y) <= Cardinality(P \intersect 1..x)
  BY <1>3, <1>4, FS_Subset
<1>6. k <= j
  BY <1>1, <1>5 DEF Rank
<1>7. j \in Int /\ k \in Int
  OBVIOUS
<1>. QED BY <1>6, <1>7

(* A sequence cut at an element, and joined by it again. *)
LEMMA CutAt ==
  ASSUME NEW S, NEW s \in Seq(S), NEW a \in 1..Len(s), NEW b \in a+1..Len(s)+1
  PROVE  SubSeq(s, 1, a - 1) \o (<<s[a]>> \o SubSeq(s, a + 1, b - 1)) = SubSeq(s, 1, b - 1)
<1>. DEFINE N == Len(s)
            x == SubSeq(s, 1, a - 1)
            y == SubSeq(s, a + 1, b - 1)
            c == <<s[a]>>
            w == SubSeq(s, 1, b - 1)
            t == x \o (c \o y)
<1>1. N \in Nat /\ s[a] \in S
  BY LenProperties, ElementOfSeq
<1>2. N \in Nat /\ a \in 1..N /\ b \in a+1..N+1 /\ s[a] \in S
  BY <1>1
<1>3. /\ x \in Seq(S) /\ Len(x) = a - 1 /\ \A i \in 1..a-1 : x[i] = s[i]
  BY <1>2
<1>4. /\ y \in Seq(S) /\ Len(y) = b - 1 - a /\ \A i \in 1..b-1-a : y[i] = s[a + i]
  <2>. DEFINE l == a + 1
              h == b - 1
  <2>1. l \in 1..N+1 /\ h \in l-1..N
    BY <1>2
  <2>2. \A i \in l..h : s[i] \in S
    BY <1>2, <2>1
  <2>. HIDE DEF l, h, N
  <2>3. /\ SubSeq(s, l, h) \in Seq(S) /\ Len(SubSeq(s, l, h)) = h - l + 1
        /\ \A i \in 1..h-l+1 : SubSeq(s, l, h)[i] = s[l + i - 1]
    BY <1>2, <2>1, <2>2
  <2>4. h - l + 1 = b - 1 - a /\ \A i \in Int : l + i - 1 = a + i
    BY <1>2 DEF l, h
  <2>. QED BY <2>3, <2>4 DEF l, h
<1>5. /\ w \in Seq(S) /\ Len(w) = b - 1 /\ \A i \in 1..b-1 : w[i] = s[i]
  BY <1>2
<1>6. c \in Seq(S) /\ Len(c) = 1 /\ c[1] = s[a]
  BY <1>2
<1>. HIDE DEF x, y, c, w, N
<1>7. /\ c \o y \in Seq(S) /\ Len(c \o y) = b - a
      /\ (c \o y)[1] = s[a] /\ \A i \in 1..b-1-a : (c \o y)[i + 1] = s[a + i]
  <2>1. /\ c \o y \in Seq(S) /\ Len(c \o y) = Len(c) + Len(y)
        /\ \A i \in 1..Len(c) + Len(y) :
             (c \o y)[i] = IF i <= Len(c) THEN c[i] ELSE y[i - Len(c)]
    BY <1>4, <1>6, ConcatProperties, Zenon
  <2>2. Len(c) + Len(y) = b - a /\ b - a >= 1
    BY <1>2, <1>4, <1>6
  <2>3. (c \o y)[1] = s[a]
    BY <1>2, <1>6, <2>1, <2>2
  <2>4. ASSUME NEW i \in 1..b-1-a PROVE (c \o y)[i + 1] = s[a + i]
    <3>1. i + 1 \in 1..Len(c) + Len(y) /\ ~(i + 1 <= Len(c)) /\ (i + 1) - Len(c) = i
      BY <1>2, <1>6, <2>2
    <3>. QED BY <1>4, <2>1, <3>1
  <2>. QED BY <2>1, <2>2, <2>3, <2>4
<1>. DEFINE z == c \o y
<1>. HIDE DEF z
<1>8. /\ x \o z \in Seq(S) /\ Len(x \o z) = b - 1
      /\ \A i \in 1..b-1 : (x \o z)[i] = IF i <= a - 1 THEN x[i] ELSE z[i - (a - 1)]
  <2>1. /\ x \o z \in Seq(S) /\ Len(x \o z) = Len(x) + Len(z)
        /\ \A i \in 1..Len(x) + Len(z) :
             (x \o z)[i] = IF i <= Len(x) THEN x[i] ELSE z[i - Len(x)]
    BY <1>3, <1>7, ConcatProperties, Zenon DEF z
  <2>2. Len(x) + Len(z) = b - 1
    BY <1>2, <1>3, <1>7 DEF z
  <2>. QED BY <1>3, <2>1, <2>2
<1>9. ASSUME NEW i \in 1..b-1 PROVE (x \o z)[i] = w[i]
  <2>1. CASE i <= a - 1
    BY <1>2, <1>3, <1>5, <1>8, <2>1
  <2>2. CASE i = a
    <3>1. i - (a - 1) = 1 /\ ~(i <= a - 1)
      BY <1>2, <2>2
    <3>. QED BY <1>5, <1>7, <1>8, <2>2, <3>1 DEF z
  <2>3. CASE i > a
    <3>. DEFINE d == i - a
    <3>1. d \in 1..b-1-a /\ i - (a - 1) = d + 1 /\ a + d = i /\ ~(i <= a - 1)
      BY <1>2, <2>3
    <3>2. z[d + 1] = s[a + d]
      BY <1>7, <3>1 DEF z
    <3>3. (x \o z)[i] = z[i - (a - 1)]
      BY <1>8, <3>1
    <3>4. w[i] = s[i]
      BY <1>5
    <3>. HIDE DEF d
    <3>5. z[i - (a - 1)] = z[d + 1] /\ s[a + d] = s[i]
      BY <3>1, Zenon
    <3>. QED BY <3>2, <3>3, <3>4, <3>5, Zenon
  <2>4. i <= a - 1 \/ i = a \/ i > a
    <3>1. i \in Int /\ a \in Int
      BY <1>2
    <3>. QED BY <3>1
  <2>. QED BY <2>1, <2>2, <2>3, <2>4
<1>10. x \o z = w
  <2>1. Len(x \o z) = Len(w) /\ \A i \in 1..Len(x \o z) : (x \o z)[i] = w[i]
    BY <1>5, <1>8, <1>9
  <2>. QED BY <1>5, <1>8, <2>1, SeqEqual, Zenon
<1>. QED BY <1>10 DEF x, y, c, w, z

(* Where the fields of a text end. *)
Commas(s) == {i \in DOMAIN s : s[i] = ","}
Ends(s) == Append(InOrder(Commas(s), Len(s)), Len(s) + 1)
Start(s, k) == IF k = 1 THEN 1 ELSE Ends(s)[k - 1] + 1

LEMMA EndsAre ==
  ASSUME NEW s \in Seq(STRING)
  PROVE  LET e == Ends(s)
             n == Len(e)
         IN /\ n \in Nat \ {0} /\ e[n] = Len(s) + 1
            /\ \A k \in 1..n : e[k] \in 1..Len(s)+1
            /\ \A k \in 1..n-1 : e[k] \in Commas(s) /\ e[k] \in 1..Len(s) /\ e[k] < e[k + 1]
<1>. DEFINE N == Len(s)
            P == Commas(s)
            q == InOrder(P, N)
            e == Ends(s)
            n == Len(q) + 1
<1>1. N \in Nat /\ P \in SUBSET (1..N)
  <2>1. N \in Nat /\ DOMAIN s = 1..N
    BY LenProperties
  <2>. QED BY <2>1 DEF Commas
<1>. HIDE DEF N, P
<1>2. q \in Seq(P) /\ Len(q) \in Nat /\ \A j, k \in 1..Len(q) : j < k => q[j] < q[k]
  <2>1. q \in Seq(P)
    BY <1>1, InOrderIs
  <2>2. \A j, k \in 1..Len(q) : j < k => q[j] < q[k]
    BY <1>1, InOrderGrows
  <2>. HIDE DEF q
  <2>. QED BY <2>1, <2>2, LenProperties
<1>3. \A k \in 1..Len(q) : q[k] \in P /\ q[k] \in 1..N
  <2>. HIDE DEF q
  <2>1. \A k \in 1..Len(q) : q[k] \in P
    BY <1>2, ElementOfSeq
  <2>. QED BY <1>1, <2>1
<1>4. e = Append(q, N + 1)
  BY DEF Ends, N, P
<1>. HIDE DEF q, e
<1>5. /\ Len(e) = n /\ n \in Nat \ {0} /\ e[n] = N + 1
      /\ \A k \in 1..n-1 : e[k] = q[k]
  <2>1. q \in Seq(Nat)
    BY <1>1, <1>2, <1>3
  <2>2. N + 1 \in Nat
    BY <1>1
  <2>. QED BY <1>2, <1>4, <2>1, <2>2
<1>6. ASSUME NEW k \in 1..n-1 PROVE e[k] \in P /\ e[k] \in 1..N /\ e[k] < e[k + 1]
  <2>1. k \in 1..Len(q) /\ e[k] = q[k]
    BY <1>2, <1>5
  <2>2. e[k] \in P /\ e[k] \in 1..N
    BY <1>3, <2>1
  <2>3. CASE k + 1 \in 1..n-1
    <3>1. e[k + 1] = q[k + 1] /\ k + 1 \in 1..Len(q) /\ k < k + 1
      BY <1>2, <1>5, <2>3
    <3>. QED BY <1>2, <2>1, <2>2, <3>1
  <2>4. CASE k + 1 = n
    BY <1>1, <1>5, <2>2, <2>4
  <2>. QED BY <1>2, <2>2, <2>3, <2>4
<1>7. ASSUME NEW k \in 1..n PROVE e[k] \in 1..N+1
  <2>1. CASE k = n
    BY <1>1, <1>5, <2>1
  <2>2. CASE k # n
    <3>1. k \in 1..n-1
      BY <1>2, <2>2
    <3>. QED BY <1>1, <1>6, <3>1
  <2>. QED BY <2>1, <2>2
<1>. QED BY <1>5, <1>6, <1>7 DEF e, N, P

(* The ends are the commas, in order, and the end of the text.             *)
LEMMA EndsAreCommas ==
  ASSUME NEW s \in Seq(STRING)
  PROVE  LET e == Ends(s)
             n == Len(e)
         IN /\ Cardinality(Commas(s)) \in Nat /\ n = Cardinality(Commas(s)) + 1
            /\ \A j, k \in 1..n : j < k => e[j] < e[k]
            /\ \A i \in Commas(s) : \E j \in 1..n : e[j] = i
<1>. DEFINE N == Len(s)
            P == Commas(s)
            q == InOrder(P, N)
            e == Ends(s)
            l == Len(q)
<1>1. N \in Nat /\ P \in SUBSET (1..N)
  <2>1. N \in Nat /\ DOMAIN s = 1..N
    BY LenProperties
  <2>. QED BY <2>1 DEF Commas
<1>. HIDE DEF N, P
<1>2. /\ q \in Seq(P) /\ l = Cardinality(P)
      /\ \A i \in P : Rank(P, i) \in 1..l /\ q[Rank(P, i)] = i
  BY <1>1, InOrderIs
<1>3. \A j, k \in 1..l : j < k => q[j] < q[k]
  BY <1>1, InOrderGrows
<1>4. e = Append(q, N + 1)
  BY DEF Ends, N, P
<1>. HIDE DEF q, e
<1>5. l \in Nat /\ \A j \in 1..l : q[j] \in 1..N
  <2>1. \A j \in 1..l : q[j] \in P
    BY <1>2, ElementOfSeq
  <2>. QED BY <1>1, <1>2, <2>1, LenProperties
<1>. HIDE DEF l
<1>6. Len(e) = l + 1 /\ e[l + 1] = N + 1 /\ \A j \in 1..l : e[j] = q[j]
  <2>1. q \in Seq(P) /\ P \in SUBSET Nat /\ N + 1 \in Nat
    BY <1>1, <1>2
  <2>2. q \in Seq(Nat)
    BY <2>1, SeqMonotonic, Zenon
  <2>. QED BY <1>4, <1>5, <2>1, <2>2 DEF l
<1>7. ASSUME NEW j \in 1..l+1, NEW k \in 1..l+1, j < k PROVE e[j] < e[k]
  <2>1. j \in 1..l /\ e[j] = q[j]
    BY <1>5, <1>6, <1>7
  <2>2. CASE k = l + 1
    BY <1>1, <1>5, <1>6, <2>1, <2>2
  <2>3. CASE k # l + 1
    <3>1. k \in 1..l /\ e[k] = q[k]
      BY <1>5, <1>6, <2>3
    <3>. QED BY <1>3, <1>7, <2>1, <3>1
  <2>. QED BY <2>2, <2>3
<1>8. ASSUME NEW i \in P PROVE \E j \in 1..l+1 : e[j] = i
  <2>1. Rank(P, i) \in 1..l /\ e[Rank(P, i)] = i
    BY <1>2, <1>6
  <2>2. Rank(P, i) \in 1..l+1
    BY <1>5, <2>1
  <2>. QED BY <2>1, <2>2
<1>. QED BY <1>2, <1>5, <1>6, <1>7, <1>8 DEF e, P

(* What is between two ends has no comma.                                  *)
LEMMA FieldsHaveNoComma ==
  ASSUME NEW s \in Seq(STRING), NEW k \in 1..Len(Ends(s))
  PROVE  "," \notin ToSet(SubSeq(s, Start(s, k), Ends(s)[k] - 1))
<1>. DEFINE e == Ends(s)
            n == Len(e)
            N == Len(s)
            a == Start(s, k)
            b == e[k] - 1
            f == SubSeq(s, a, b)
<1>1. /\ n \in Nat \ {0} /\ \A j \in 1..n : e[j] \in 1..N+1
      /\ N \in Nat /\ DOMAIN s = 1..N
  BY EndsAre, LenProperties, Zenon
<1>2. /\ \A j, m \in 1..n : j < m => e[j] < e[m]
      /\ \A i \in Commas(s) : \E j \in 1..n : e[j] = i
  BY EndsAreCommas, Zenon
<1>3. a = IF k = 1 THEN 1 ELSE e[k - 1] + 1
  BY Zenon DEF Start
<1>. HIDE DEF e, a, N
<1>4. k \in 1..n /\ (k # 1 => k - 1 \in 1..n)
  <2>1. k \in 1..n
    BY DEF e
  <2>. QED BY <1>1, <2>1
<1>5. a \in Nat \ {0} /\ b \in 0..N
  <2>1. e[k] \in 1..N+1 /\ (k # 1 => e[k - 1] \in 1..N+1)
    BY <1>1, <1>4
  <2>. QED BY <1>1, <1>3, <2>1
<1>6. ASSUME NEW i \in a..b, s[i] = "," PROVE FALSE
  <2>1. i \in 1..N /\ i < e[k]
    <3>1. e[k] \in Int
      BY <1>1, <1>4
    <3>. QED BY <1>1, <1>5, <3>1
  <2>2. i \in Commas(s)
    BY <1>1, <1>6, <2>1 DEF Commas
  <2>3. PICK j \in 1..n : e[j] = i
    BY <1>2, <2>2
  <2>4. j < k
    <3>1. j # k
      BY <2>1, <2>3
    <3>2. ~(k < j)
      <4>1. k < j => e[k] < e[j]
        BY <1>2, <1>4
      <4>2. e[k] \in Int
        BY <1>1, <1>4
      <4>. QED BY <2>1, <2>3, <4>1, <4>2
    <3>. QED BY <1>1, <1>4, <3>1, <3>2
  <2>5. k # 1
    BY <1>1, <2>4
  <2>6. e[k - 1] < i
    <3>1. e[k - 1] \in Int
      BY <1>1, <1>4, <2>5
    <3>. QED BY <1>3, <1>5, <2>5, <3>1
  <2>7. j = k - 1 \/ j < k - 1
    BY <1>1, <1>4, <2>4
  <2>8. j < k - 1 => e[j] < e[k - 1]
    BY <1>2, <1>4, <2>5
  <2>9. e[j] \in Int /\ e[k - 1] \in Int
    BY <1>1, <1>4, <2>5
  <2>. QED BY <2>3, <2>6, <2>7, <2>8, <2>9
<1>7. \A i \in a..b : s[i] \in STRING
  BY <1>1, <1>5, ElementOfSeq DEF N
<1>. HIDE DEF b
<1>8. \A i \in DOMAIN f : \E j \in a..b : f[i] = s[j]
  <2>1. /\ DOMAIN f = 1..b-a+1
        /\ \A i \in 1..b-a+1 : f[i] = s[a + i - 1]
    BY <1>5, <1>7
  <2>2. \A i \in 1..b-a+1 : a + i - 1 \in a..b
    BY <1>1, <1>5
  <2>. QED BY <2>1, <2>2
<1>. HIDE DEF f
<1>9. "," \notin ToSet(f)
  BY <1>6, <1>8, Zenon DEF ToSet
<1>. QED BY <1>9, Zenon DEF f, a, b, e

(* The fields are what is between the ends, as many as asked for. *)
LEMMA TokensAre ==
  ASSUME NEW s \in Seq(STRING), s # <<>>, NEW max \in Nat
  PROVE  LET n == Len(Ends(s))
             t == tokenize(s, max)
         IN /\ Len(t) = IF n <= max THEN n ELSE max
            /\ \A k \in 1..Len(t) : t[k] = SubSeq(s, Start(s, k), Ends(s)[k] - 1)
<1>. DEFINE n == Len(Ends(s))
            both == {n, max}
            t == tokenize(s, max)
            field(k) == SubSeq(s, Start(s, k), Ends(s)[k] - 1)
<1>1. t = [k \in 1..Min(both) |-> field(k)]
  BY Zenon DEF tokenize, Ends, Start, Commas
<1>2. n \in Nat
  BY EndsAre
<1>. HIDE DEF n
<1>3. Min(both) = IF n <= max THEN n ELSE max
  <2>1. both \in SUBSET Nat /\ both # {}
    BY <1>2
  <2>2. Min(both) \in both /\ \A i \in both : Min(both) <= i
    <3>. HIDE DEF both
    <3>. QED BY <2>1, LeastOf
  <2>. QED BY <1>2, <2>2
<1>. HIDE DEF both, field, t
<1>4. Min(both) \in Nat
  BY <1>2, <1>3
<1>5. Len(t) = Min(both) /\ \A k \in 1..Len(t) : t[k] = field(k)
  BY <1>1, <1>4
<1>. QED BY <1>3, <1>5 DEF n, t, field

(* Joined by commas, the fields are the text, or the start of it when there *)
(* are more than asked for.                                                 *)
WithCommas(t) == [i \in 1..Len(t) |-> IF i = 1 THEN t[1] ELSE <<",">> \o t[i]]

LEMMA JoinedIs ==
  ASSUME NEW s \in Seq(STRING), s # <<>>, NEW max \in Nat \ {0}
  PROVE  LET n == Len(tokenize(s, max))
         IN /\ n \in 1..max
            /\ n <= Len(Ends(s)) /\ (n < max => n = Len(Ends(s)))
            /\ FlattenSeq(WithCommas(tokenize(s, max))) = SubSeq(s, 1, Ends(s)[n] - 1)
<1>. DEFINE t == tokenize(s, max)
            e == Ends(s)
            n == Len(t)
            u == WithCommas(t)
            Cat(a, i) == a \o u[i]
            Value(f) == [i \in 1..Len(u) |-> IF i = 1 THEN u[i] ELSE Cat(f[i - 1], i)]
            J == CHOOSE f : f = Value(f)
            upTo(i) == SubSeq(s, 1, e[i] - 1)
            g == [i \in 1..n |-> upTo(i)]
            N == Len(s)
<1>1. N \in Nat
  BY LenProperties
<1>2. /\ Len(e) \in Nat \ {0} /\ e[Len(e)] = N + 1
      /\ \A k \in 1..Len(e) : e[k] \in 1..N+1
      /\ \A k \in 1..Len(e)-1 : e[k] \in Commas(s) /\ e[k] \in 1..N /\ e[k] < e[k + 1]
  BY EndsAre, Zenon
<1>3. /\ n = IF Len(e) <= max THEN Len(e) ELSE max
      /\ \A k \in 1..n : t[k] = SubSeq(s, Start(s, k), e[k] - 1)
  BY TokensAre, Zenon
<1>. HIDE DEF e, t
<1>4. n \in 1..max /\ n <= Len(e) /\ (n < max => n = Len(e))
  <2>. HIDE DEF n
  <2>. QED BY <1>2, <1>3
<1>5. Len(u) = n /\ \A i \in 1..n : u[i] = IF i = 1 THEN t[1] ELSE <<",">> \o t[i]
  <2>. DEFINE v(i) == IF i = 1 THEN t[1] ELSE <<",">> \o t[i]
  <2>1. u = [i \in 1..n |-> v(i)]
    BY DEF WithCommas
  <2>. HIDE DEF u, v, n
  <2>2. n \in Nat
    BY <1>4
  <2>3. Len(u) = n /\ \A i \in 1..n : u[i] = v(i)
    BY <2>1, <2>2
  <2>. QED BY <2>3 DEF v
<1>6. \A i \in Commas(s) : s[i] = ","
  BY DEF Commas
<1>. HIDE DEF N, n
<1>7. ASSUME NEW i \in 1..n PROVE upTo(i) = IF i = 1 THEN u[i] ELSE Cat(upTo(i - 1), i)
  <2>1. CASE i = 1
    <3>1. u[1] = t[1] /\ t[1] = SubSeq(s, Start(s, 1), e[1] - 1) /\ Start(s, 1) = 1
      BY <1>3, <1>5, <2>1 DEF Start
    <3>. HIDE DEF u
    <3>. QED BY <2>1, <3>1
  <2>2. CASE i # 1
    <3>. DEFINE a == e[i - 1]
                b == e[i]
    <3>1. i - 1 \in 1..Len(e)-1 /\ i \in 1..Len(e) /\ (i - 1) + 1 = i /\ i - 1 \in 1..n
      BY <1>2, <1>4, <2>2
    <3>2. a \in Commas(s) /\ a \in 1..N /\ a < b /\ b \in 1..N+1
      BY <1>2, <3>1
    <3>3. t[i] = SubSeq(s, a + 1, b - 1)
      BY <1>3, <2>2 DEF Start, e
    <3>4. u[i] = <<",">> \o t[i]
      BY <1>5, <2>2, Zenon
    <3>. HIDE DEF u, a, b
    <3>5. b \in a+1..N+1
      BY <1>1, <3>2
    <3>6. SubSeq(s, 1, a - 1) \o (<<s[a]>> \o SubSeq(s, a + 1, b - 1)) = SubSeq(s, 1, b - 1)
      BY <3>2, <3>5, CutAt DEF N
    <3>7. s[a] = ","
      BY <1>6, <3>2
    <3>8. SubSeq(s, 1, a - 1) \o u[i] = SubSeq(s, 1, b - 1)
      BY <3>3, <3>4, <3>6, <3>7, Zenon
    <3>. QED BY <2>2, <3>8, Zenon DEF a, b
  <2>. QED BY <2>1, <2>2
<1>. HIDE DEF u, upTo, Cat
<1>8. g = Value(g)
  <2>1. \A i \in 1..n : i # 1 => i - 1 \in 1..n
    BY <1>4
  <2>2. \A i \in 1..n : g[i] = upTo(i)
    OBVIOUS
  <2>3. \A i \in 1..n : g[i] = IF i = 1 THEN u[i] ELSE Cat(g[i - 1], i)
    BY <1>7, <2>1, <2>2
  <2>4. g = [i \in 1..n |-> g[i]]
    OBVIOUS
  <2>. HIDE DEF g
  <2>. QED BY <1>5, <2>3, <2>4
<1>9. J = Value(J)
  <2>. HIDE DEF g
  <2>. QED BY <1>8, Zenon
<1>10. FlattenSeq(u) = J[n]
  <2>1. Len(u) # 0
    <3>1. n # 0
      BY <1>4
    <3>. QED BY <1>5, <3>1, Zenon
  <2>2. FlattenSeq(u) = J[Len(u)]
    BY <2>1, Zenon DEF FlattenSeq, Cat
  <2>. QED BY <1>5, <2>2, Zenon
<1>. HIDE DEF J
<1>11. J[n] = upTo(n)
  <2>. DEFINE T == {i \in 0..n : i # 0 => J[i] = upTo(i)}
  <2>1. \A i \in 1..n : J[i] = IF i = 1 THEN u[i] ELSE Cat(J[i - 1], i)
    BY <1>5, <1>9
  <2>2. 0 \in T /\ n \in Nat
    BY <1>4
  <2>3. ASSUME NEW i \in 1..n, i - 1 \in T PROVE i \in T
    <3>1. i # 1 => J[i - 1] = upTo(i - 1)
      BY <2>3
    <3>2. J[i] = upTo(i)
      BY <1>7, <2>1, <3>1
    <3>. QED BY <3>2
  <2>4. n \in 0..n /\ n # 0
    BY <1>4
  <2>5. n \in T
    <3>. HIDE DEF T
    <3>. QED BY <2>2, <2>3, <2>4, UpToN
  <2>. QED BY <2>4, <2>5
<1>. QED BY <1>4, <1>10, <1>11, Zenon DEF n, u, t, e, upTo

(* The sequence up to an element, and that element, is the start of it.    *)
LEMMA UpToElement ==
  ASSUME NEW S, NEW s \in Seq(S), NEW a \in 1..Len(s)
  PROVE  IsPrefix(SubSeq(s, 1, a - 1) \o <<s[a]>>, s)
<1>. DEFINE N == Len(s)
            w == SubSeq(s, 1, a)
            c == <<s[a]>>
<1>1. N \in Nat /\ a \in 1..N /\ s[a] \in S
  BY LenProperties, ElementOfSeq
<1>2. c \o SubSeq(s, a + 1, a) = c
  <2>1. SubSeq(s, a + 1, a) = <<>> /\ c \in Seq(S)
    BY <1>1
  <2>. HIDE DEF c
  <2>. QED BY <2>1
<1>3. SubSeq(s, 1, a - 1) \o (c \o SubSeq(s, a + 1, a)) = w
  <2>1. a + 1 \in a+1..Len(s)+1 /\ (a + 1) - 1 = a
    BY <1>1
  <2>. QED BY <2>1, CutAt
<1>4. Len(w) = a /\ SubSeq(w, 1, a) = w
  BY <1>1
<1>5. IsPrefix(w, s)
  <2>. HIDE DEF w
  <2>. QED BY <1>1, <1>4 DEF IsPrefix, w
<1>. QED BY <1>2, <1>3, <1>5, Zenon DEF c

LEMMA FieldsFollow ==
  ASSUME ParseInv
  PROVE  FieldsAreTheText
<1>. DEFINE s == out.sentence.body
            m == MaxFields[type]
            least == MinFields[type]
            t == tokenize(s, m)
            n == Len(t)
            N == Len(s)
            e == Ends(s)
            c == Cardinality(DOMAIN fields)
            commas == Cardinality({i \in DOMAIN s : s[i] = ","})
            joined == FlattenSeq([i \in 1..c |-> IF i = 1 THEN fields[0]
                                                 ELSE <<",">> \o fields[i - 1]])
            Clean == \A i \in DOMAIN fields : "," \notin ToSet(fields[i])
            AllOfIt == joined = s \/ (c = m /\ IsPrefix(joined \o <<",">>, s))
            Refused == out.res = "ERR_TOO_FEW_FIELDS" <=> commas + 1 < least
<1>. SUFFICES ASSUME out.by # "nobody", IsTyped(out.result) PROVE Clean /\ AllOfIt /\ Refused
  BY Zenon DEF FieldsAreTheText
<1>1. s \in Seq(STRING) /\ N \in Nat /\ type \in SentenceTypes
  <2>1. s \in Seq(STRING) /\ type \in SentenceTypes
    BY DEF ParseInv, Sentence, IsTyped, type
  <2>. QED BY <2>1, LenProperties
<1>2. m \in Nat \ {0} /\ least \in Nat /\ least > 1 /\ least <= m
  BY <1>1 DEF MaxFields, MinFields, SentenceTypes
<1>3. n \in Nat /\ c = n
  BY <1>1, FieldsAreTexts, Zenon DEF fields
<1>4. fields = [i \in 0..n-1 |-> t[i + 1]]
  BY DEF FieldsOf, fields
<1>5. joined = FlattenSeq(WithCommas(t))
  <2>. DEFINE u == [i \in 1..c |-> IF i = 1 THEN fields[0] ELSE <<",">> \o fields[i - 1]]
              v == [i \in 1..n |-> IF i = 1 THEN t[1] ELSE <<",">> \o t[i]]
  <2>. HIDE DEF t, n, c
  <2>1. ASSUME NEW i \in 1..n PROVE fields[i - 1] = t[i]
    BY <1>3, <1>4
  <2>2. \A i \in 1..n : i = 1 => fields[0] = t[1]
    BY <2>1
  <2>3. u = v
    BY <1>3, <2>1, <2>2
  <2>. HIDE DEF u, v
  <2>4. v = WithCommas(t)
    BY DEF v, WithCommas, n
  <2>. QED BY <2>3, <2>4, Zenon DEF u
<1>6. out.res = "ERR_TOO_FEW_FIELDS" <=> c < least
  BY DEF ParseInv, RefusesAsItShould, TooFewFields, fields, type
<1>7. commas = Cardinality(Commas(s))
  BY DEF Commas
<1>. HIDE DEF joined, commas, c, m, least
<1>8. CASE s = <<>>
  <2>1. t = <<>>
    BY <1>8, Zenon DEF tokenize
  <2>. HIDE DEF t
  <2>2. WithCommas(t) = <<>> /\ n = 0
    BY <2>1 DEF WithCommas
  <2>3. FlattenSeq(<<>>) = <<>>
    BY DEF FlattenSeq
  <2>4. joined = s
    BY <1>5, <1>8, <2>2, <2>3, Zenon
  <2>5. DOMAIN fields = {}
    BY <1>4, <2>2
  <2>6. commas = 0
    <3>1. Commas(s) = {}
      BY <1>8 DEF Commas
    <3>. QED BY <1>7, <3>1, FS_EmptySet
  <2>7. c < least /\ commas + 1 < least
    BY <1>2, <1>3, <2>2, <2>6
  <2>. QED BY <1>6, <2>4, <2>5, <2>7, Zenon
<1>9. CASE s # <<>>
  <2>1. /\ n \in 1..m
        /\ n <= Len(e) /\ (n < m => n = Len(e))
        /\ joined = SubSeq(s, 1, e[n] - 1)
    BY <1>1, <1>2, <1>5, <1>9, JoinedIs, Zenon
  <2>2. /\ Len(e) \in Nat \ {0} /\ e[Len(e)] = N + 1
        /\ \A k \in 1..Len(e)-1 : e[k] \in Commas(s) /\ e[k] \in 1..N
    BY <1>1, EndsAre, Zenon
  <2>3. commas \in Nat /\ Len(e) = commas + 1
    BY <1>1, <1>7, EndsAreCommas, Zenon
  <2>4. Clean
    <3>. SUFFICES ASSUME NEW i \in DOMAIN fields PROVE "," \notin ToSet(fields[i])
      OBVIOUS
    <3>1. i + 1 \in 1..n /\ fields[i] = t[i + 1] /\ n \in Nat
      BY <1>3, <1>4
    <3>2. \A k \in 1..n : t[k] = SubSeq(s, Start(s, k), e[k] - 1)
      BY <1>1, <1>2, <1>9, TokensAre, Zenon
    <3>3. i + 1 \in 1..Len(e)
      BY <2>1, <2>2, <3>1
    <3>4. "," \notin ToSet(SubSeq(s, Start(s, i + 1), e[i + 1] - 1))
      BY <1>1, <3>3, FieldsHaveNoComma, Zenon
    <3>. QED BY <3>1, <3>2, <3>4, Zenon
  <2>. HIDE DEF e, n, s, N
  <2>5. AllOfIt
    <3>1. CASE n = Len(e)
      <4>1. e[n] - 1 = N
        <5>1. e[n] = N + 1
          BY <2>2, <3>1, Zenon
        <5>. QED BY <1>1, <5>1
      <4>2. SubSeq(s, 1, N) = s
        BY <1>1 DEF N
      <4>. QED BY <2>1, <4>1, <4>2, Zenon
    <3>2. CASE n # Len(e)
      <4>1. c = m /\ n \in 1..Len(e)-1
        BY <1>2, <1>3, <2>1, <2>2, <3>2
      <4>2. e[n] \in 1..Len(s) /\ s[e[n]] = ","
        BY <2>2, <4>1 DEF Commas, N
      <4>3. IsPrefix(SubSeq(s, 1, e[n] - 1) \o <<s[e[n]]>>, s)
        BY <1>1, <4>2, UpToElement, Zenon
      <4>. QED BY <2>1, <4>1, <4>2, <4>3, Zenon
    <3>. QED BY <3>1, <3>2
  <2>6. c < least <=> commas + 1 < least
    BY <1>2, <1>3, <2>1, <2>3
  <2>. HIDE DEF Clean, AllOfIt
  <2>. QED BY <1>6, <2>4, <2>5, <2>6, Zenon
<1>. QED BY <1>8, <1>9, Zenon

-----------------------------------------------------------------------------
(* Types: every parser gives a value of the type of its member.            *)

LEMMA NarrowedTyped ==
  ASSUME NEW n \in Int
  PROVE  /\ Uint8(n) \in UINT8 /\ Int8(n) \in INT8
         /\ Uint16(n) \in UINT16 /\ Int16(n) \in INT16
<1>1. Uint8(n) \in UINT8 /\ Int8(n) \in INT8
  BY DEF Uint8, Int8, UINT8, INT8
<1>. DEFINE size == UINT16_MAX + 1
<1>2. /\ size \in Nat \ {0} /\ size - 1 = UINT16_MAX /\ size = 2 * INT16_MAX + 2
      /\ INT16_MAX \in Nat /\ UINT16_MAX \in Nat
  BY FieldAssumption DEF UINT16_MAX
<1>. HIDE DEF size
<1>3. n % size \in 0..size - 1
  BY <1>2, Division
<1>4. Uint16(n) = n % size
  BY DEF Uint16, size
<1>5. Int16(n) = IF n % size > INT16_MAX THEN (n % size) - size ELSE n % size
  BY <1>4 DEF Int16, size
<1>. DEFINE r == n % size
<1>. HIDE DEF r
<1>6. r \in UINT16 /\ (IF r > INT16_MAX THEN r - size ELSE r) \in INT16
  BY <1>2, <1>3 DEF UINT16, INT16, r
<1>. QED BY <1>1, <1>4, <1>5, <1>6 DEF r

LEMMA IntegersRead ==
  ASSUME NEW f \in Seq(STRING)
  PROVE  /\ parse_uint(f) # <<>> => parse_uint(f)[1] \in Nat
         /\ parse_int(f) # <<>> => parse_int(f)[1] \in Int
<1>1. parse_uint(f) = UnsignedIn(f) /\ parse_int(f) = SignedIn(f)
  BY ParseUint, ParseInt
<1>2. SignedIn(f) # <<>> => SignedIn(f)[1] \in Int
  BY DEF SignedIn, INT_MIN
<1>3. UnsignedIn(f) # <<>> => UnsignedIn(f)[1] \in Nat
  <2>. SUFFICES ASSUME f # <<>>, AllDigits(f) PROVE Numeral(f) \in Nat
    BY DEF UnsignedIn
  <2>1. \A j \in 1..Len(f) : f[j] \in Digits
    BY DEF AllDigits
  <2>2. f \in Seq(Digits)
    BY <2>1
  <2>. QED BY <2>2, NumeralBasics
<1>. QED BY <1>1, <1>2, <1>3

LEMMA IntegersTyped ==
  ASSUME NEW f \in Seq(STRING)
  PROVE  /\ Byte(f, 0) \in UINT8 /\ Short(f, 0) \in UINT16
         /\ Assign(parse_int(f), Uint8, 0) \in UINT8
         /\ \A old \in INT8 : Assign(parse_int(f), Int8, old) \in INT8
         /\ \A old \in INT16 : Assign(parse_uint(f), Int16, old) \in INT16
<1>1. /\ parse_uint(f) # <<>> => parse_uint(f)[1] \in Int
      /\ parse_int(f) # <<>> => parse_int(f)[1] \in Int
  BY IntegersRead
<1>2. 0 \in UINT8 /\ 0 \in UINT16
  BY FieldAssumption DEF UINT8, UINT16, UINT16_MAX
<1>. QED BY <1>1, <1>2, NarrowedTyped DEF Byte, Short, Assign

LEMMA TextsTyped ==
  ASSUME NEW f \in Seq(STRING)
  PROVE  /\ Char(f, NUL) \in STRING \union {NUL}
         /\ \A letters : OneOf(letters, f) \in letters \union {UNKNOWN}
         /\ parse_status_valid(f) \in BOOLEAN
<1>1. f # <<>> => f[1] \in STRING
  BY ElementOfSeq
<1>. QED BY <1>1 DEF Char, Assign, parse_char, OneOf, parse_status_valid

LEMMA FloatTyped ==
  ASSUME NEW f \in Seq(STRING)
  PROVE  Decimal(f) \in Float
<1>. DEFINE a == Whole(f)
            b == Fraction(f)
            T == ToUint(TenTo(Decimals(f)))
            A == Part(a)
            B == Part(b)
            n == A[1] * T + B[1]
            body == Signless(f)
<1>1. a \in Seq(STRING) /\ b \in Seq(STRING) /\ Decimals(f) \in Nat
  BY PartsOfNumber
<1>2. parse_fixedpoint_float(f) =
        IF body \in {<<>>, <<".">>} THEN NoNumber ELSE Combined(IsNegative(f), A, B, T)
  BY DEF parse_fixedpoint_float, Whole, Fraction, Decimals, Point
<1>3. T \in Int
  <2>1. TenTo(Decimals(f)) \in Int
    BY <1>1, TenFacts
  <2>. QED BY <2>1, ConvertedInRange, Limits
<1>4. \A s \in Seq(STRING) : Part(s) # <<>> => Part(s)[1] \in Int
  BY IntegersRead DEF Part
<1>5. (A # <<>> => A[1] \in Int) /\ (B # <<>> => B[1] \in Int)
  BY <1>1, <1>4
<1>6. NoNumber \in Float
  BY Limits DEF NoNumber, Float
<1>. HIDE DEF body, A, B, T
<1>7. Combined(IsNegative(f), A, B, T) \in Float
  <2>1. CASE A = <<>> \/ B = <<>> \/ TooLarge(A[1], B[1], T)
    BY <1>6, <2>1, Zenon DEF Combined
  <2>2. CASE ~(A = <<>> \/ B = <<>> \/ TooLarge(A[1], B[1], T))
    <3>1. n \in Int
      <4>1. A[1] \in Int /\ B[1] \in Int
        BY <1>5, <2>2
      <4>. QED BY <1>3, <4>1
    <3>2. ToUint(n) \in 0..UINT_MAX /\ ~(ToUint(n) > INT_MAX)
      BY <2>2, <3>1, ConvertedInRange DEF TooLarge
    <3>3. ToInt(T) \in INT_MIN..INT_MAX
      BY <1>3, ConvertedInRange
    <3>4. Combined(IsNegative(f), A, B, T) =
            [value |-> IF IsNegative(f) THEN -ToUint(n) ELSE ToUint(n), scale |-> ToInt(T)]
      BY <2>2, Zenon DEF Combined
    <3>. HIDE DEF n
    <3>. DEFINE u == ToUint(n)
                t == ToInt(T)
                v == IF IsNegative(f) THEN -u ELSE u
    <3>. HIDE DEF u, t
    <3>5. v \in INT_MIN..INT_MAX
      BY <3>2, Limits DEF u
    <3>. HIDE DEF v
    <3>6. [value |-> v, scale |-> t] \in Float
      BY <3>3, <3>5 DEF Float, t
    <3>. QED BY <3>4, <3>6, Zenon DEF v, u, t
  <2>. QED BY <2>1, <2>2
<1>. QED BY <1>2, <1>6, <1>7 DEF Decimal

LEMMA CoordinateTyped ==
  ASSUME NEW f \in Seq(STRING), NEW dir \in Seq(STRING), NEW letters
  PROVE  Coordinate(f, dir, letters) \in CoordHas(letters)
<1>1. parse_fixedpoint_float(f) \in Float
  BY FloatTyped DEF Decimal
<1>. QED BY <1>1 DEF Coordinate, CoordHas

LEMMA TimeTyped ==
  ASSUME NEW f \in Seq(STRING)
  PROVE  parse_time(f) \in Time
<1>. DEFINE h == Pair(f, 1)
            m == Pair(f, 3)
            s == Pair(f, 5)
            micros == IF Len(f) > 7 /\ f[7] = "." THEN Millionths(SubSeq(f, 8, Len(f))) ELSE 0
            t == [hours |-> h, minutes |-> m, seconds |-> s, microseconds |-> 0,
                  valid |-> FALSE]
<1>. DEFINE M == TenTo(6)
<1>1. M \in Nat \ {0}
  BY TenFacts
<1>. HIDE DEF M
<1>2. CASE ~HasSixDigits(f)
  <2>1. parse_time(f) = NoTime
    BY <1>2, Zenon DEF parse_time
  <2>. QED BY <1>1, <2>1 DEF NoTime, Time, M
<1>3. CASE HasSixDigits(f)
  <2>1. h \in 0..99 /\ m \in 0..99 /\ s \in 0..99
    BY <1>3, PairIs DEF HasSixDigits
  <2>2. micros \in 0..M - 1
    <3>1. CASE Len(f) > 7 /\ f[7] = "."
      <4>. DEFINE g == SubSeq(f, 8, Len(f))
      <4>1. g \in Seq(STRING) /\ micros = Millionths(g)
        BY <3>1
      <4>. HIDE DEF g, micros
      <4>2. micros \in Nat /\ micros < TenTo(6)
        BY <4>1, MillionthsAre
      <4>. QED BY <1>1, <4>2 DEF M
    <3>2. CASE ~(Len(f) > 7 /\ f[7] = ".")
      <4>1. micros = 0
        BY <3>2
      <4>. HIDE DEF micros
      <4>. QED BY <1>1, <4>1
    <3>. QED BY <3>1, <3>2
  <2>3. parse_time(f) = IF h > 23 \/ m > 59 \/ s > 60 THEN t
                        ELSE [t EXCEPT !.valid = TRUE, !.microseconds = micros]
    BY <1>3 DEF parse_time
  <2>. HIDE DEF h, m, s, micros
  <2>4. CASE h > 23 \/ m > 59 \/ s > 60
    <3>1. parse_time(f) = t
      BY <2>3, <2>4
    <3>. QED BY <1>1, <2>1, <3>1 DEF Time, M
  <2>5. CASE ~(h > 23 \/ m > 59 \/ s > 60)
    <3>1. parse_time(f) = [t EXCEPT !.valid = TRUE, !.microseconds = micros]
      BY <2>3, <2>5
    <3>2. parse_time(f) = [hours |-> h, minutes |-> m, seconds |-> s,
                           microseconds |-> micros, valid |-> TRUE]
      BY <3>1
    <3>. QED BY <2>1, <2>2, <3>2 DEF Time, M
  <2>. QED BY <2>4, <2>5
<1>. QED BY <1>2, <1>3

LEMMA DatesTyped ==
  /\ NoDate \in Date
  /\ \A f \in Seq(STRING) : parse_date(f) \in Date
  /\ \A day, month, year \in Seq(STRING) : DateOf(day, month, year, NoDate) \in Date
<1>1. 0 \in UINT8 /\ 0 \in UINT16
  BY FieldAssumption DEF UINT8, UINT16, UINT16_MAX
<1>2. NoDate \in Date
  BY <1>1 DEF NoDate, Date
<1>3. ASSUME NEW f \in Seq(STRING) PROVE parse_date(f) \in Date
  <2>1. CASE ~HasSixDigits(f)
    BY <1>2, <2>1 DEF parse_date
  <2>2. CASE HasSixDigits(f)
    <3>. DEFINE d == Pair(f, 1)
                m == Pair(f, 3)
                y == Pair(f, 5)
    <3>1. d \in UINT8 /\ m \in UINT8 /\ y \in UINT8
      BY <2>2, PairIs DEF HasSixDigits, UINT8
    <3>2. parse_date(f) = [day |-> d, month |-> m, year |-> 0, year_yy |-> y,
                           valid |-> InCalendar(d, m)]
      BY <2>2 DEF parse_date
    <3>. HIDE DEF d, m, y
    <3>. QED BY <1>1, <3>1, <3>2 DEF Date, InCalendar
  <2>. QED BY <2>1, <2>2
<1>4. ASSUME NEW day \in Seq(STRING), NEW month \in Seq(STRING), NEW year \in Seq(STRING)
      PROVE  DateOf(day, month, year, NoDate) \in Date
  <2>. DEFINE d == Byte(day, 0)
              m == Byte(month, 0)
              y == Short(year, 0)
  <2>1. d \in UINT8 /\ m \in UINT8 /\ y \in UINT16
    BY IntegersTyped
  <2>2. DateOf(day, month, year, NoDate) =
          [day |-> d, month |-> m, year |-> y, year_yy |-> 0, valid |-> InCalendar(d, m)]
    BY DateIs
  <2>. HIDE DEF d, m, y
  <2>. QED BY <1>1, <2>1, <2>2 DEF Date, InCalendar
<1>. QED BY <1>2, <1>3, <1>4

LEMMA ModesTyped ==
  ASSUME NEW f \in Seq(STRING)
  PROVE  Modes(f) \in Seq(FaaModes \union {UNKNOWN}) /\ Len(Modes(f)) <= MaxModes
<1>. DEFINE n == Min({Len(f), MaxModes})
            D == FaaModes \union {UNKNOWN}
            mode(i) == OneOf(FaaModes, <<f[i]>>)
<1>1. n \in Nat /\ n <= Len(f) /\ n <= MaxModes
  <2>. DEFINE both == {Len(f), MaxModes}
  <2>1. both \in SUBSET Nat /\ both # {}
    BY LenProperties, SentenceAssumption
  <2>2. Min(both) \in both /\ \A i \in both : Min(both) <= i
    <3>. HIDE DEF both
    <3>. QED BY <2>1, LeastOf
  <2>. QED BY <2>1, <2>2
<1>2. Modes(f) = [i \in 1..n |-> mode(i)]
  BY DEF Modes
<1>3. ASSUME NEW i \in 1..n PROVE mode(i) \in D
  <2>1. f[i] \in STRING
    BY <1>1, ElementOfSeq, LenProperties
  <2>2. <<f[i]>> \in Seq(STRING)
    BY <2>1
  <2>. QED BY <2>2, TextsTyped
<1>. HIDE DEF n, D, mode
<1>4. Modes(f) \in Seq(D) /\ Len(Modes(f)) = n
  BY <1>1, <1>2, <1>3
<1>. QED BY <1>1, <1>4 DEF D

LEMMA PayloadTyped ==
  ASSUME NEW f \in Seq(STRING)
  PROVE  LET p == SubSeq(f, 1, Min({Len(f), MaxPayload}))
         IN p \in Seq(STRING) /\ Len(p) <= MaxPayload
<1>. DEFINE both == {Len(f), MaxPayload}
            n == Min(both)
<1>1. both \in SUBSET Nat /\ both # {}
  BY LenProperties, SentenceAssumption
<1>2. n \in both /\ \A i \in both : n <= i
  <2>. HIDE DEF both
  <2>. QED BY <1>1, LeastOf
<1>3. n \in Nat /\ n <= Len(f) /\ n <= MaxPayload
  BY <1>1, <1>2
<1>4. \A i \in 1..n : f[i] \in STRING
  BY <1>3, ElementOfSeq, LenProperties
<1>. HIDE DEF n
<1>5. SubSeq(f, 1, n) \in Seq(STRING) /\ Len(SubSeq(f, 1, n)) = n
  BY <1>3, <1>4
<1>. QED BY <1>3, <1>5 DEF n

(* The fields that a handler is given. *)
AreFields(f, n) ==
  /\ \E m \in Nat : m >= n /\ f \in [0..m-1 -> Seq(STRING)]
  /\ \A i \in 0..n-1 : f[i] \in Seq(STRING)
  /\ \A i \in Int : FieldAt(f, i) \in Seq(STRING)

LEMMA PrnsTyped ==
  ASSUME NEW f, AreFields(f, 17)
  PROVE  Prns(f) \in Seq(UINT8) /\ Len(Prns(f)) <= MaxSatsGsa
<1>. DEFINE N == 12
            P == {i \in 1..N : parse_uint(f[1 + i]) # <<>>}
            q == InOrder(P, N)
            both == {Len(q), MaxSatsGsa}
            n == Min(both)
            prn(k) == Uint8(parse_uint(f[1 + q[k]])[1])
<1>1. Prns(f) = [k \in 1..n |-> prn(k)]
  BY DEF Prns
<1>2. \A i \in P : parse_uint(f[1 + i]) # <<>> /\ f[1 + i] \in Seq(STRING)
  <2>1. \A i \in 1..N : 1 + i \in 0..17-1
    OBVIOUS
  <2>. QED BY <2>1 DEF AreFields
<1>3. N \in Nat /\ P \in SUBSET (1..N)
  OBVIOUS
<1>. HIDE DEF N, P
<1>4. q \in Seq(P)
  BY <1>3, InOrderIs
<1>. HIDE DEF q
<1>5. n \in Nat /\ n <= Len(q) /\ n <= MaxSatsGsa
  <2>1. both \in SUBSET Nat /\ both # {}
    BY <1>4, LenProperties, SentenceAssumption
  <2>2. Min(both) \in both /\ \A i \in both : Min(both) <= i
    <3>. HIDE DEF both
    <3>. QED BY <2>1, LeastOf
  <2>. QED BY <2>1, <2>2
<1>. HIDE DEF n
<1>6. ASSUME NEW k \in 1..n PROVE prn(k) \in UINT8
  <2>1. q[k] \in P
    BY <1>4, <1>5, ElementOfSeq, LenProperties
  <2>. DEFINE g == f[1 + q[k]]
  <2>2. parse_uint(g) # <<>> /\ g \in Seq(STRING)
    BY <1>2, <2>1
  <2>. HIDE DEF g
  <2>3. parse_uint(g)[1] \in Int
    BY <2>2, IntegersRead
  <2>4. Uint8(parse_uint(g)[1]) \in UINT8
    BY <2>3, NarrowedTyped
  <2>. QED BY <2>4, Zenon DEF g
<1>. HIDE DEF prn
<1>7. Prns(f) \in Seq(UINT8) /\ Len(Prns(f)) = n
  BY <1>1, <1>5, <1>6
<1>. QED BY <1>5, <1>7

LEMMA SatInfoTyped ==
  ASSUME NEW f, AreFields(f, 3), NEW base \in Int, parse_uint(FieldAt(f, base)) # <<>>
  PROVE  SatInfo(f, base) \in Satellite
<1>1. FieldAt(f, base) = f[base]
  <2>1. parse_uint(<<>>) = <<>>
    BY Zenon DEF parse_uint
  <2>. QED BY <2>1, Zenon DEF FieldAt
<1>2. base + 1 \in Int /\ base + 2 \in Int /\ base + 3 \in Int
  OBVIOUS
<1>3. /\ f[base] \in Seq(STRING) /\ FieldAt(f, base + 1) \in Seq(STRING)
      /\ FieldAt(f, base + 2) \in Seq(STRING) /\ FieldAt(f, base + 3) \in Seq(STRING)
  BY <1>1, <1>2 DEF AreFields
<1>4. Uint8(parse_uint(f[base])[1]) \in UINT8
  <2>1. parse_uint(f[base])[1] \in Int
    BY <1>1, <1>3, IntegersRead
  <2>. QED BY <2>1, NarrowedTyped
<1>. DEFINE low == -128
            none == -1
<1>5. low \in INT8 /\ none \in INT8 /\ none \in INT16
  BY FieldAssumption DEF INT8, INT16
<1>. HIDE DEF low, none
<1>6. /\ Assign(parse_int(FieldAt(f, base + 1)), Int8, low) \in INT8
      /\ Assign(parse_uint(FieldAt(f, base + 2)), Int16, none) \in INT16
      /\ Assign(parse_int(FieldAt(f, base + 3)), Int8, none) \in INT8
  BY <1>3, <1>5, IntegersTyped
<1>. DEFINE e == Assign(parse_int(FieldAt(f, base + 1)), Int8, low)
            a == Assign(parse_uint(FieldAt(f, base + 2)), Int16, none)
            s == Assign(parse_int(FieldAt(f, base + 3)), Int8, none)
            p == Uint8(parse_uint(f[base])[1])
<1>7. SatInfo(f, base) = [prn |-> p, elevation |-> e, azimuth |-> a, snr |-> s]
  BY Zenon DEF SatInfo, low, none
<1>. HIDE DEF e, a, s, p
<1>8. [prn |-> p, elevation |-> e, azimuth |-> a, snr |-> s] \in Satellite
  BY <1>4, <1>6 DEF Satellite, e, a, s, p
<1>. QED BY <1>7, <1>8

LEMMA SatsTyped ==
  ASSUME NEW f, AreFields(f, 3)
  PROVE  LET sats == [k \in DOMAIN Blocks(f) |-> SatInfo(f, 4 * Blocks(f)[k] - 1)]
         IN sats \in Seq(Satellite) /\ Len(sats) <= MaxSatsGsv
<1>. DEFINE N == MaxSatsGsv
            P == {k \in 1..N : parse_uint(FieldAt(f, 4 * k - 1)) # <<>>}
            q == Blocks(f)
            n == Len(q)
            sat(k) == SatInfo(f, 4 * q[k] - 1)
            sats == [k \in DOMAIN q |-> sat(k)]
<1>1. N \in Nat /\ P \in SUBSET (1..N)
  BY SentenceAssumption
<1>2. q = InOrder(P, N)
  BY DEF Blocks
<1>3. \A k \in P : k \in Int /\ parse_uint(FieldAt(f, 4 * k - 1)) # <<>>
  BY <1>1
<1>. HIDE DEF N, P, q
<1>4. q \in Seq(P) /\ n = Cardinality(P)
  BY <1>1, <1>2, InOrderIs
<1>5. n \in Nat /\ n <= N /\ DOMAIN q = 1..n
  <2>1. Cardinality(1..N) = N /\ IsFiniteSet(1..N)
    <3>1. Cardinality(1..N) = IF 1 > N THEN 0 ELSE N - 1 + 1
      BY <1>1, FS_Interval
    <3>. QED BY <1>1, <3>1, FS_Interval
  <2>2. Cardinality(P) <= Cardinality(1..N)
    BY <1>1, <2>1, FS_Subset
  <2>. QED BY <1>4, <2>1, <2>2, LenProperties
<1>6. ASSUME NEW k \in 1..n PROVE sat(k) \in Satellite
  <2>1. q[k] \in P
    BY <1>4, <1>5, ElementOfSeq
  <2>. DEFINE base == 4 * q[k] - 1
  <2>2. base \in Int /\ parse_uint(FieldAt(f, base)) # <<>>
    BY <1>3, <2>1
  <2>. HIDE DEF base
  <2>3. SatInfo(f, base) \in Satellite
    BY <2>2, SatInfoTyped
  <2>. QED BY <2>3, Zenon DEF base
<1>. HIDE DEF sat, n
<1>7. sats \in Seq(Satellite) /\ Len(sats) = n
  BY <1>5, <1>6
<1>. HIDE DEF sats
<1>8. Len(sats) <= N
  BY <1>5, <1>7
<1>. QED BY <1>7, <1>8, Zenon DEF sats, sat, q, N

(* The members by the sets they are in. *)
Bytes == {"fix_quality", "satellites_used", "system_id", "total_msgs", "msg_number",
          "total_sats", "signal_id", "tz_minutes", "failed_sat_id", "fragment_count",
          "fragment_number", "sequential_id", "fill_bits"}
Floats == {"speed_knots", "course_deg", "mag_variation", "hdop", "altitude_m",
           "geoid_sep_m", "dgps_age_sec", "pdop", "vdop", "course_true_deg",
           "course_mag_deg", "speed_kph", "err_lat_m", "err_lon_m", "err_alt_m",
           "prob_missed", "bias_m", "bias_stddev_m", "rms_range", "std_major_m",
           "std_minor_m", "orient_deg", "std_lat_m", "std_lon_m", "std_alt_m"}

LEMMA HasIs ==
  /\ Has("time") = Time /\ Has("date") = Date /\ Has("status_valid") = BOOLEAN
  /\ Has("latitude") = CoordHas({"N", "S"}) /\ Has("longitude") = CoordHas({"E", "W"})
  /\ Has("faa_mode") = FaaModes \union {UNKNOWN}
  /\ Has("nav_status") = NavStatuses \union {UNKNOWN}
  /\ Has("fix_type") = GsaFixes \union {UNKNOWN}
  /\ \A member \in {"mag_var_dir", "mode_selection", "channel"} :
       Has(member) = STRING \union {NUL}
  /\ Has("mode") = Seq(FaaModes \union {UNKNOWN})
  /\ Has("satellite_prns") = Seq(UINT8) /\ Has("sats") = Seq(Satellite)
  /\ Has("payload") = Seq(STRING)
  /\ Has("dgps_station_id") = UINT16 /\ Has("tz_hours") = INT8
  /\ \A member \in Bytes : Has(member) = UINT8
  /\ \A member \in Floats : Has(member) = Float
<1>1. /\ Has("time") = Time /\ Has("date") = Date /\ Has("status_valid") = BOOLEAN
      /\ Has("latitude") = CoordHas({"N", "S"}) /\ Has("longitude") = CoordHas({"E", "W"})
  BY DEF Has
<1>2. /\ Has("faa_mode") = FaaModes \union {UNKNOWN}
      /\ Has("nav_status") = NavStatuses \union {UNKNOWN}
      /\ Has("fix_type") = GsaFixes \union {UNKNOWN}
      /\ Has("mode") = Seq(FaaModes \union {UNKNOWN})
  BY DEF Has
<1>3. \A member \in {"mag_var_dir", "mode_selection", "channel"} :
        Has(member) = STRING \union {NUL}
  BY DEF Has
<1>4. /\ Has("satellite_prns") = Seq(UINT8) /\ Has("sats") = Seq(Satellite)
      /\ Has("payload") = Seq(STRING)
      /\ Has("dgps_station_id") = UINT16 /\ Has("tz_hours") = INT8
  BY DEF Has
<1>5. \A member \in Bytes : Has(member) = UINT8
  BY DEF Has, Bytes
<1>6. \A member \in Floats : Has(member) = Float
  BY DEF Has, Floats
<1>. QED BY <1>1, <1>2, <1>3, <1>4, <1>5, <1>6

(* What is read from the fields, by the kind of their members. *)
LEMMA ReadTyped ==
  ASSUME NEW f, NEW n \in Nat, AreFields(f, n)
  PROVE  /\ \A i \in 0..n-1 :
              /\ Decimal(f[i]) \in Float
              /\ parse_time(f[i]) \in Time /\ parse_date(f[i]) \in Date
              /\ Byte(f[i], 0) \in UINT8 /\ Short(f[i], 0) \in UINT16
              /\ Char(f[i], NUL) \in STRING \union {NUL}
              /\ parse_status_valid(f[i]) \in BOOLEAN
              /\ parse_faa_mode_field(f[i]) \in FaaModes \union {UNKNOWN}
              /\ parse_nav_status_field(f[i]) \in NavStatuses \union {UNKNOWN}
              /\ parse_gsa_fix_field(f[i]) \in GsaFixes \union {UNKNOWN}
         /\ \A i, j \in 0..n-1 :
              /\ parse_latitude(f[i], f[j]) \in CoordHas({"N", "S"})
              /\ parse_longitude(f[i], f[j]) \in CoordHas({"E", "W"})
         /\ \A i \in DOMAIN f :
              /\ Byte(f[i], 0) \in UINT8
              /\ parse_faa_mode_field(f[i]) \in FaaModes \union {UNKNOWN}
              /\ parse_nav_status_field(f[i]) \in NavStatuses \union {UNKNOWN}
<1>1. ASSUME NEW g \in Seq(STRING)
      PROVE  /\ parse_faa_mode_field(g) \in FaaModes \union {UNKNOWN}
             /\ parse_nav_status_field(g) \in NavStatuses \union {UNKNOWN}
             /\ parse_gsa_fix_field(g) \in GsaFixes \union {UNKNOWN}
  BY TextsTyped DEF parse_faa_mode_field, parse_nav_status_field, parse_gsa_fix_field
<1>2. \A i \in 0..n-1 : f[i] \in Seq(STRING)
  BY DEF AreFields
<1>3. \A i \in DOMAIN f : f[i] \in Seq(STRING)
  BY DEF AreFields
<1>4. \A g, h \in Seq(STRING) : /\ parse_latitude(g, h) \in CoordHas({"N", "S"})
                                /\ parse_longitude(g, h) \in CoordHas({"E", "W"})
  BY CoordinateTyped DEF parse_latitude, parse_longitude
<1>5. \A g \in Seq(STRING) : Byte(g, 0) \in UINT8 /\ Short(g, 0) \in UINT16
  BY IntegersTyped
<1>6. \A g \in Seq(STRING) : /\ Char(g, NUL) \in STRING \union {NUL}
                             /\ parse_status_valid(g) \in BOOLEAN
  BY TextsTyped
<1>7. \A g \in Seq(STRING) : /\ Decimal(g) \in Float /\ parse_time(g) \in Time
                             /\ parse_date(g) \in Date
  BY FloatTyped, TimeTyped, DatesTyped
<1>. QED BY <1>1, <1>2, <1>3, <1>4, <1>5, <1>6, <1>7, Zenon

LEMMA RmcTyped ==
  ASSUME NEW f, AreFields(f, 11)
  PROVE  IsDataOf("RMC", parse_rmc(f, Zero))
<1>. DEFINE d == parse_rmc(f, Zero)
<1>1. DOMAIN d = Members["RMC"]
  BY DEF parse_rmc, Members, Position
<1>2. /\ d.time \in Time /\ d.status_valid \in BOOLEAN /\ d.date \in Date
      /\ d.latitude \in CoordHas({"N", "S"}) /\ d.longitude \in CoordHas({"E", "W"})
      /\ d.speed_knots \in Float /\ d.course_deg \in Float /\ d.mag_variation \in Float
      /\ d.mag_var_dir \in STRING \union {NUL}
      /\ d.faa_mode \in FaaModes \union {UNKNOWN}
      /\ d.nav_status \in NavStatuses \union {UNKNOWN}
  BY ReadTyped DEF parse_rmc, memset, Zero
<1>. HIDE DEF d
<1>3. ASSUME NEW member \in Members["RMC"]
      PROVE  d[member] \in Has(member) /\ member \notin DOMAIN Room
  BY <1>2, HasIs DEF Members, Position, Floats, Room
<1>. QED BY <1>1, <1>3 DEF IsDataOf, d

LEMMA GgaTyped ==
  ASSUME NEW f, AreFields(f, 14)
  PROVE  IsDataOf("GGA", parse_gga(f, Zero))
<1>. DEFINE d == parse_gga(f, Zero)
<1>1. DOMAIN d = Members["GGA"]
  BY DEF parse_gga, Members, Position, Dgps
<1>2. /\ d.time \in Time
      /\ d.latitude \in CoordHas({"N", "S"}) /\ d.longitude \in CoordHas({"E", "W"})
      /\ d.fix_quality \in UINT8 /\ d.satellites_used \in UINT8
      /\ d.hdop \in Float /\ d.altitude_m \in Float /\ d.geoid_sep_m \in Float
      /\ d.dgps_age_sec \in Float /\ d.dgps_station_id \in UINT16
  BY ReadTyped DEF parse_gga, memset, Zero
<1>. HIDE DEF d
<1>3. ASSUME NEW member \in Members["GGA"]
      PROVE  d[member] \in Has(member) /\ member \notin DOMAIN Room
  BY <1>2, HasIs DEF Members, Position, Dgps, Bytes, Floats, Room
<1>. QED BY <1>1, <1>3 DEF IsDataOf, d

LEMMA GnsTyped ==
  ASSUME NEW f, AreFields(f, 12)
  PROVE  IsDataOf("GNS", parse_gns(f, Zero))
<1>. DEFINE d == parse_gns(f, Zero)
<1>1. DOMAIN d = Members["GNS"]
  BY DEF parse_gns, Members, Position, Dgps
<1>2. /\ d.time \in Time
      /\ d.latitude \in CoordHas({"N", "S"}) /\ d.longitude \in CoordHas({"E", "W"})
      /\ d.satellites_used \in UINT8
      /\ d.hdop \in Float /\ d.altitude_m \in Float /\ d.geoid_sep_m \in Float
      /\ d.dgps_age_sec \in Float /\ d.dgps_station_id \in UINT16
      /\ d.nav_status \in NavStatuses \union {UNKNOWN}
  BY ReadTyped DEF parse_gns, memset, Zero
<1>3. d.mode \in Seq(FaaModes \union {UNKNOWN}) /\ Len(d.mode) <= MaxModes
  <2>1. d.mode = IF f[5] # <<>> THEN Modes(f[5]) ELSE <<>>
    BY DEF parse_gns, memset, Zero
  <2>2. f[5] \in Seq(STRING)
    BY DEF AreFields
  <2>3. Modes(f[5]) \in Seq(FaaModes \union {UNKNOWN}) /\ Len(Modes(f[5])) <= MaxModes
    BY <2>2, ModesTyped
  <2>. HIDE DEF d
  <2>4. <<>> \in Seq(FaaModes \union {UNKNOWN}) /\ Len(<<>>) <= MaxModes
    BY SentenceAssumption
  <2>. QED BY <2>1, <2>3, <2>4, Zenon
<1>. HIDE DEF d
<1>4. ASSUME NEW member \in Members["GNS"]
      PROVE  /\ d[member] \in Has(member)
             /\ member \in DOMAIN Room => Len(d[member]) <= Room[member]
  <2>1. CASE member = "mode"
    BY <1>3, <2>1, HasIs DEF Room
  <2>2. CASE member # "mode"
    BY <1>2, <2>2, HasIs DEF Members, Position, Dgps, Bytes, Floats, Room
  <2>. QED BY <2>1, <2>2
<1>. QED BY <1>1, <1>4 DEF IsDataOf, d

LEMMA GsaTyped ==
  ASSUME NEW f, AreFields(f, 17)
  PROVE  IsDataOf("GSA", parse_gsa(f, Zero))
<1>. DEFINE d == parse_gsa(f, Zero)
<1>1. DOMAIN d = Members["GSA"]
  BY DEF parse_gsa, Members
<1>2. /\ d.mode_selection \in STRING \union {NUL} /\ d.fix_type \in GsaFixes \union {UNKNOWN}
      /\ d.pdop \in Float /\ d.hdop \in Float /\ d.vdop \in Float /\ d.system_id \in UINT8
  <2>1. 0 \in UINT8
    BY DEF UINT8
  <2>. QED BY <2>1, ReadTyped DEF parse_gsa, memset, Zero
<1>3. d.satellite_prns \in Seq(UINT8) /\ Len(d.satellite_prns) <= MaxSatsGsa
  <2>1. d.satellite_prns = Prns(f)
    BY DEF parse_gsa
  <2>. QED BY <2>1, PrnsTyped, Zenon
<1>. HIDE DEF d
<1>4. ASSUME NEW member \in Members["GSA"]
      PROVE  /\ d[member] \in Has(member)
             /\ member \in DOMAIN Room => Len(d[member]) <= Room[member]
  <2>1. CASE member = "satellite_prns"
    BY <1>3, <2>1, HasIs DEF Room
  <2>2. CASE member # "satellite_prns"
    BY <1>2, <2>2, HasIs DEF Members, Bytes, Floats, Room
  <2>. QED BY <2>1, <2>2
<1>. QED BY <1>1, <1>4 DEF IsDataOf, d

LEMMA GsvTyped ==
  ASSUME NEW f, AreFields(f, 3)
  PROVE  IsDataOf("GSV", parse_gsv(f, Zero))
<1>. DEFINE d == parse_gsv(f, Zero)
            sats == [k \in DOMAIN Blocks(f) |-> SatInfo(f, 4 * Blocks(f)[k] - 1)]
<1>1. DOMAIN d = Members["GSV"] /\ d.sats = sats
  BY DEF parse_gsv, Members
<1>2. sats \in Seq(Satellite) /\ Len(sats) <= MaxSatsGsv
  BY SatsTyped, Zenon
<1>3. d.total_msgs \in UINT8 /\ d.msg_number \in UINT8 /\ d.total_sats \in UINT8
  BY ReadTyped DEF parse_gsv, memset, Zero
<1>4. d.signal_id \in UINT8
  <2>1. d.signal_id = Byte(FieldAt(f, 3 + 4 * Len(sats)), 0)
    BY DEF parse_gsv, memset, Zero
  <2>. HIDE DEF sats, d
  <2>2. 3 + 4 * Len(sats) \in Int
    BY <1>2, LenProperties
  <2>3. FieldAt(f, 3 + 4 * Len(sats)) \in Seq(STRING)
    BY <2>2 DEF AreFields
  <2>. QED BY <2>1, <2>3, IntegersTyped
<1>. HIDE DEF d, sats
<1>5. ASSUME NEW member \in Members["GSV"]
      PROVE  /\ d[member] \in Has(member)
             /\ member \in DOMAIN Room => Len(d[member]) <= Room[member]
  <2>1. CASE member = "sats"
    BY <1>1, <1>2, <2>1, HasIs DEF Room
  <2>2. CASE member # "sats"
    BY <1>3, <1>4, <2>2, HasIs DEF Members, Bytes, Room
  <2>. QED BY <2>1, <2>2
<1>. QED BY <1>1, <1>5 DEF IsDataOf, d

LEMMA VtgTyped ==
  ASSUME NEW f, AreFields(f, 8)
  PROVE  IsDataOf("VTG", parse_vtg(f, Zero))
<1>. DEFINE d == parse_vtg(f, Zero)
<1>1. DOMAIN d = Members["VTG"]
  BY DEF parse_vtg, Members
<1>2. /\ d.course_true_deg \in Float /\ d.course_mag_deg \in Float
      /\ d.speed_knots \in Float /\ d.speed_kph \in Float
      /\ d.faa_mode \in FaaModes \union {UNKNOWN}
  BY ReadTyped DEF parse_vtg, memset, Zero
<1>. HIDE DEF d
<1>3. ASSUME NEW member \in Members["VTG"]
      PROVE  d[member] \in Has(member) /\ member \notin DOMAIN Room
  BY <1>2, HasIs DEF Members, Floats, Room
<1>. QED BY <1>1, <1>3 DEF IsDataOf, d

LEMMA GllTyped ==
  ASSUME NEW f, AreFields(f, 6)
  PROVE  IsDataOf("GLL", parse_gll(f, Zero))
<1>. DEFINE d == parse_gll(f, Zero)
<1>1. DOMAIN d = Members["GLL"]
  BY DEF parse_gll, Members, Position
<1>2. /\ d.time \in Time /\ d.status_valid \in BOOLEAN
      /\ d.latitude \in CoordHas({"N", "S"}) /\ d.longitude \in CoordHas({"E", "W"})
      /\ d.faa_mode \in FaaModes \union {UNKNOWN}
  BY ReadTyped DEF parse_gll, memset, Zero
<1>. HIDE DEF d
<1>3. ASSUME NEW member \in Members["GLL"]
      PROVE  d[member] \in Has(member) /\ member \notin DOMAIN Room
  BY <1>2, HasIs DEF Members, Position, Room
<1>. QED BY <1>1, <1>3 DEF IsDataOf, d

LEMMA ZdaTyped ==
  ASSUME NEW f, AreFields(f, 6)
  PROVE  IsDataOf("ZDA", parse_zda(f, Zero))
<1>. DEFINE d == parse_zda(f, Zero)
            time == parse_time(f[0])
            date == IF time.valid THEN DateOf(f[1], f[2], f[3], NoDate) ELSE NoDate
            hours == Assign(parse_int(f[4]), Int8, 0)
            minutes == Assign(parse_int(f[5]), Uint8, 0)
<1>1. /\ f[0] \in Seq(STRING) /\ f[1] \in Seq(STRING) /\ f[2] \in Seq(STRING)
      /\ f[3] \in Seq(STRING) /\ f[4] \in Seq(STRING) /\ f[5] \in Seq(STRING)
  BY DEF AreFields
<1>2. time \in Time /\ date \in Date
  BY <1>1, TimeTyped, DatesTyped
<1>3. hours \in INT8 /\ minutes \in UINT8 /\ 0 \in INT8 /\ 0 \in UINT8
  <2>1. 0 \in INT8 /\ 0 \in UINT8
    BY DEF INT8, UINT8
  <2>. QED BY <1>1, <2>1, IntegersTyped
<1>4. d = [time |-> time, date |-> date,
           tz_hours |-> IF date.valid THEN hours ELSE 0,
           tz_minutes |-> IF date.valid THEN minutes ELSE 0]
  BY Zenon DEF parse_zda, memset, Zero
<1>. HIDE DEF d, time, date, hours, minutes
<1>5. DOMAIN d = Members["ZDA"]
  BY <1>4 DEF Members
<1>6. ASSUME NEW member \in Members["ZDA"]
      PROVE  d[member] \in Has(member) /\ member \notin DOMAIN Room
  BY <1>2, <1>3, <1>4, HasIs DEF Members, Bytes, Room
<1>. QED BY <1>5, <1>6 DEF IsDataOf, d

LEMMA GbsTyped ==
  ASSUME NEW f, AreFields(f, 8)
  PROVE  IsDataOf("GBS", parse_gbs(f, Zero))
<1>. DEFINE d == parse_gbs(f, Zero)
<1>1. DOMAIN d = Members["GBS"]
  BY DEF parse_gbs, Members
<1>2. /\ d.time \in Time /\ d.failed_sat_id \in UINT8
      /\ d.err_lat_m \in Float /\ d.err_lon_m \in Float /\ d.err_alt_m \in Float
      /\ d.prob_missed \in Float /\ d.bias_m \in Float /\ d.bias_stddev_m \in Float
  BY ReadTyped DEF parse_gbs, memset, Zero
<1>. HIDE DEF d
<1>3. ASSUME NEW member \in Members["GBS"]
      PROVE  d[member] \in Has(member) /\ member \notin DOMAIN Room
  BY <1>2, HasIs DEF Members, Bytes, Floats, Room
<1>. QED BY <1>1, <1>3 DEF IsDataOf, d

LEMMA GstTyped ==
  ASSUME NEW f, AreFields(f, 8)
  PROVE  IsDataOf("GST", parse_gst(f, Zero))
<1>. DEFINE d == parse_gst(f, Zero)
<1>1. DOMAIN d = Members["GST"]
  BY DEF parse_gst, Members
<1>2. /\ d.time \in Time /\ d.rms_range \in Float
      /\ d.std_major_m \in Float /\ d.std_minor_m \in Float /\ d.orient_deg \in Float
      /\ d.std_lat_m \in Float /\ d.std_lon_m \in Float /\ d.std_alt_m \in Float
  BY ReadTyped DEF parse_gst, Zero
<1>. HIDE DEF d
<1>3. ASSUME NEW member \in Members["GST"]
      PROVE  d[member] \in Has(member) /\ member \notin DOMAIN Room
  BY <1>2, HasIs DEF Members, Floats, Room
<1>. QED BY <1>1, <1>3 DEF IsDataOf, d

LEMMA AisTyped ==
  ASSUME NEW f, AreFields(f, 6), NEW t \in {"VDM", "VDO"}
  PROVE  IsDataOf(t, parse_ais(f, Zero))
<1>. DEFINE d == parse_ais(f, Zero)
            cut == SubSeq(f[4], 1, Min({Len(f[4]), MaxPayload}))
<1>1. DOMAIN d = Members[t]
  BY DEF parse_ais, Members
<1>2. /\ d.fragment_count \in UINT8 /\ d.fragment_number \in UINT8
      /\ d.sequential_id \in UINT8 /\ d.channel \in STRING \union {NUL}
      /\ d.fill_bits \in UINT8
  BY ReadTyped DEF parse_ais, memset, Zero
<1>3. d.payload \in Seq(STRING) /\ Len(d.payload) <= MaxPayload
  <2>1. d.payload = IF f[4] # <<>> THEN cut ELSE <<>>
    BY DEF parse_ais, memset, Zero
  <2>2. f[4] \in Seq(STRING)
    BY DEF AreFields
  <2>3. cut \in Seq(STRING) /\ Len(cut) <= MaxPayload
    BY <2>2, PayloadTyped, Zenon
  <2>. HIDE DEF d, cut
  <2>4. <<>> \in Seq(STRING) /\ Len(<<>>) <= MaxPayload
    BY SentenceAssumption
  <2>. QED BY <2>1, <2>3, <2>4, Zenon
<1>. HIDE DEF d
<1>4. ASSUME NEW member \in Members[t]
      PROVE  /\ d[member] \in Has(member)
             /\ member \in DOMAIN Room => Len(d[member]) <= Room[member]
  <2>1. CASE member = "payload"
    BY <1>3, <2>1, HasIs DEF Room
  <2>2. CASE member # "payload"
    BY <1>2, <2>2, HasIs DEF Members, Bytes, Room
  <2>. QED BY <2>1, <2>2
<1>. QED BY <1>1, <1>4 DEF IsDataOf, d

LEMMA HandlerIs ==
  ASSUME NEW f
  PROVE  /\ Handler("RMC", f, Zero) = parse_rmc(f, Zero)
         /\ Handler("GGA", f, Zero) = parse_gga(f, Zero)
         /\ Handler("GNS", f, Zero) = parse_gns(f, Zero)
         /\ Handler("GSA", f, Zero) = parse_gsa(f, Zero)
         /\ Handler("GSV", f, Zero) = parse_gsv(f, Zero)
         /\ Handler("VTG", f, Zero) = parse_vtg(f, Zero)
         /\ Handler("GLL", f, Zero) = parse_gll(f, Zero)
         /\ Handler("ZDA", f, Zero) = parse_zda(f, Zero)
         /\ Handler("GBS", f, Zero) = parse_gbs(f, Zero)
         /\ Handler("GST", f, Zero) = parse_gst(f, Zero)
         /\ \A t \in {"VDM", "VDO"} : Handler(t, f, Zero) = parse_ais(f, Zero)
BY DEF Handler

LEMMA HandlerTyped ==
  ASSUME NEW t \in SentenceTypes, NEW body \in Seq(STRING), ~TooFewFields(t, body)
  PROVE  IsDataOf(t, Handler(t, FieldsOf(t, body), Zero))
<1>. DEFINE f == FieldsOf(t, body)
            n == Len(tokenize(body, MaxFields[t]))
            least == MinFields[t]
<1>1. n \in Nat /\ f \in [0..n-1 -> Seq(STRING)] /\ Cardinality(DOMAIN f) = n
  BY FieldsAreTexts
<1>2. least \in Nat /\ n >= least
  <2>1. least \in Nat
    BY DEF MinFields, SentenceTypes
  <2>2. ~(Cardinality(DOMAIN f) < least)
    BY DEF TooFewFields
  <2>. HIDE DEF f, n, least
  <2>. QED BY <1>1, <2>1, <2>2
<1>3. AreFields(f, least)
  <2>. HIDE DEF f, n, least
  <2>1. \A i \in 0..least-1 : f[i] \in Seq(STRING)
    BY <1>1, <1>2
  <2>2. ASSUME NEW i \in Int PROVE FieldAt(f, i) \in Seq(STRING)
    <3>1. DOMAIN f = 0..n-1 /\ \A j \in 0..n-1 : f[j] \in Seq(STRING)
      BY <1>1
    <3>2. <<>> \in Seq(STRING)
      OBVIOUS
    <3>. QED BY <3>1, <3>2, Zenon DEF FieldAt
  <2>. QED BY <1>1, <1>2, <2>1, <2>2 DEF AreFields
<1>. HIDE DEF f
<1>4. CASE t = "RMC"
  <2>1. AreFields(f, MinFields["RMC"]) /\ Handler(t, f, Zero) = parse_rmc(f, Zero)
    BY <1>3, <1>4, HandlerIs
  <2>. QED BY <1>4, <2>1, RmcTyped DEF MinFields, f
<1>5. CASE t = "GGA"
  <2>1. AreFields(f, MinFields["GGA"]) /\ Handler(t, f, Zero) = parse_gga(f, Zero)
    BY <1>3, <1>5, HandlerIs
  <2>. QED BY <1>5, <2>1, GgaTyped DEF MinFields, f
<1>6. CASE t = "GNS"
  <2>1. AreFields(f, MinFields["GNS"]) /\ Handler(t, f, Zero) = parse_gns(f, Zero)
    BY <1>3, <1>6, HandlerIs
  <2>. QED BY <1>6, <2>1, GnsTyped DEF MinFields, f
<1>7. CASE t = "GSA"
  <2>1. AreFields(f, MinFields["GSA"]) /\ Handler(t, f, Zero) = parse_gsa(f, Zero)
    BY <1>3, <1>7, HandlerIs
  <2>. QED BY <1>7, <2>1, GsaTyped DEF MinFields, f
<1>8. CASE t = "GSV"
  <2>1. AreFields(f, MinFields["GSV"]) /\ Handler(t, f, Zero) = parse_gsv(f, Zero)
    BY <1>3, <1>8, HandlerIs
  <2>. QED BY <1>8, <2>1, GsvTyped DEF MinFields, f
<1>9. CASE t = "VTG"
  <2>1. AreFields(f, MinFields["VTG"]) /\ Handler(t, f, Zero) = parse_vtg(f, Zero)
    BY <1>3, <1>9, HandlerIs
  <2>. QED BY <1>9, <2>1, VtgTyped DEF MinFields, f
<1>10. CASE t = "GLL"
  <2>1. AreFields(f, MinFields["GLL"]) /\ Handler(t, f, Zero) = parse_gll(f, Zero)
    BY <1>3, <1>10, HandlerIs
  <2>. QED BY <1>10, <2>1, GllTyped DEF MinFields, f
<1>11. CASE t = "ZDA"
  <2>1. AreFields(f, MinFields["ZDA"]) /\ Handler(t, f, Zero) = parse_zda(f, Zero)
    BY <1>3, <1>11, HandlerIs
  <2>. QED BY <1>11, <2>1, ZdaTyped DEF MinFields, f
<1>12. CASE t = "GBS"
  <2>1. AreFields(f, MinFields["GBS"]) /\ Handler(t, f, Zero) = parse_gbs(f, Zero)
    BY <1>3, <1>12, HandlerIs
  <2>. QED BY <1>12, <2>1, GbsTyped DEF MinFields, f
<1>13. CASE t = "GST"
  <2>1. AreFields(f, MinFields["GST"]) /\ Handler(t, f, Zero) = parse_gst(f, Zero)
    BY <1>3, <1>13, HandlerIs
  <2>. QED BY <1>13, <2>1, GstTyped DEF MinFields, f
<1>14. CASE t \in {"VDM", "VDO"}
  <2>1. AreFields(f, 6) /\ Handler(t, f, Zero) = parse_ais(f, Zero)
    BY <1>3, <1>14, HandlerIs DEF MinFields
  <2>. QED BY <1>14, <2>1, AisTyped DEF f
<1>. QED BY <1>4, <1>5, <1>6, <1>7, <1>8, <1>9, <1>10, <1>11, <1>12, <1>13, <1>14
         DEF SentenceTypes

LEMMA AnswerTyped ==
  ASSUME NEW sentence \in Sentence, NEW result, IsStructure(result), IsResult(result)
  PROVE  LET call == tiny_nmea_parse(sentence, result)
         IN /\ IsResult(call.result) /\ call.res \in Answers
            /\ call.res = "OK" => IsDataOf(call.result.type, call.result.data)
<1>. DEFINE typed == Typed(sentence, result)
            told == Handler(typed.type, FieldsOf(typed.type, sentence.body), Zero)
            call == tiny_nmea_parse(sentence, result)
<1>1. IsStructure(typed) /\ IsResult(typed)
  <2>1. CASE IsTyped(result)
    BY <2>1 DEF Typed
  <2>2. CASE ~IsTyped(result)
    <3>. DEFINE k == parse_talker_id(sentence.talker)
                y == parse_sentence_type(sentence.type)
    <3>1. k \in Talkers \union {UNKNOWN} /\ y \in SentenceTypes \union {UNKNOWN}
      BY DEF parse_talker_id, parse_sentence_type
    <3>2. typed = [result EXCEPT !.talker = k, !.type = y]
      BY <2>2 DEF Typed
    <3>. HIDE DEF typed, k, y
    <3>3. typed = [type |-> y, talker |-> k, data |-> result.data]
      BY <3>2 DEF IsStructure
    <3>. QED BY <3>1, <3>3 DEF IsStructure, IsResult
  <2>. QED BY <2>1, <2>2
<1>2. CASE ~IsTyped(typed)
  BY <1>1, <1>2 DEF tiny_nmea_parse, Answer, Answers
<1>3. CASE IsTyped(typed) /\ TooFewFields(typed.type, sentence.body)
  BY <1>1, <1>3 DEF tiny_nmea_parse, Answer, Answers
<1>4. CASE IsTyped(typed) /\ ~TooFewFields(typed.type, sentence.body)
  <2>1. sentence.body \in Seq(STRING)
    BY DEF Sentence
  <2>. HIDE DEF typed
  <2>2. typed.type \in SentenceTypes /\ typed.talker \in Talkers
    BY <1>4 DEF IsTyped
  <2>3. IsDataOf(typed.type, told)
    BY <1>4, <2>1, <2>2, HandlerTyped
  <2>. HIDE DEF told
  <2>4. call = [res |-> Verdict(typed.type, told),
                result |-> [typed EXCEPT !.data = told]]
    BY <1>4, HandlerClears DEF tiny_nmea_parse, Filled, Answer, typed, told
  <2>5. [typed EXCEPT !.data = told] =
           [type |-> typed.type, talker |-> typed.talker, data |-> told]
    BY <1>1 DEF IsStructure
  <2>6. Verdict(typed.type, told) \in Answers
    BY DEF Verdict, Answers
  <2>. HIDE DEF call
  <2>. QED BY <2>2, <2>3, <2>4, <2>5, <2>6 DEF IsResult, call
<1>. QED BY <1>2, <1>3, <1>4

LEMMA YearCompletedTyped ==
  ASSUME NEW result, IsStructure(result), IsResult(result),
         IsDataOf(result.type, result.data), NEW century \in Nat
  PROVE  LET r == YearCompleted(century, result)
         IN IsResult(r) /\ IsDataOf(r.type, r.data)
<1>1. CASE result.type = "RMC" /\ century > 0
  <2>. DEFINE y == Uint16(century * 100 + result.data.date.year_yy)
              d == result.data
              e == [d EXCEPT !.date.year = y]
  <2>1. IsDataOf("RMC", d)
    BY <1>1
  <2>2. DOMAIN d = Members["RMC"] /\ "date" \in DOMAIN d /\ d["date"] \in Date
    <3>1. "date" \in Members["RMC"]
      BY DEF Members
    <3>2. d["date"] \in Has("date")
      BY <2>1, <3>1, Zenon DEF IsDataOf
    <3>. QED BY <2>1, <3>1, <3>2, HasIs, Zenon DEF IsDataOf
  <2>3. y \in UINT16
    <3>. DEFINE yy == d["date"].year_yy
    <3>1. yy \in Int
      <4>. DEFINE date == d["date"]
      <4>1. date \in Date
        BY <2>2
      <4>. HIDE DEF date
      <4>2. date.year_yy \in UINT8
        BY <4>1 DEF Date
      <4>3. \A n \in UINT8 : n \in Int
        BY DEF UINT8
      <4>. QED BY <4>2, <4>3, Zenon DEF date
    <3>. HIDE DEF yy
    <3>2. century * 100 + yy \in Int
      BY <3>1
    <3>. QED BY <3>2, NarrowedTyped DEF yy
  <2>4. YearCompleted(century, result) = [result EXCEPT !.data = e]
    BY <1>1 DEF YearCompleted, IsStructure
  <2>. HIDE DEF y
  <2>5. /\ DOMAIN e = Members["RMC"]
        /\ \A member \in Members["RMC"] : member # "date" => e[member] = d[member]
        /\ e["date"] = [d["date"] EXCEPT !.year = y]
    <3>. HIDE DEF d
    <3>. QED BY <2>2
  <2>6. e["date"] \in Date
    BY <2>2, <2>3, <2>5 DEF Date
  <2>. HIDE DEF e, d
  <2>7. IsDataOf("RMC", e)
    <3>1. ASSUME NEW member \in Members["RMC"]
          PROVE  /\ e[member] \in Has(member)
                 /\ member \in DOMAIN Room => Len(e[member]) <= Room[member]
      <4>1. CASE member = "date"
        BY <2>6, <4>1, HasIs DEF Room
      <4>2. CASE member # "date"
        BY <2>1, <2>5, <4>2, Zenon DEF IsDataOf
      <4>. QED BY <4>1, <4>2
    <3>. QED BY <2>5, <3>1, Zenon DEF IsDataOf
  <2>8. [result EXCEPT !.data = e] =
          [type |-> result.type, talker |-> result.talker, data |-> e]
    BY DEF IsStructure
  <2>. DEFINE r == YearCompleted(century, result)
  <2>9. r.type = "RMC" /\ r.talker = result.talker /\ r.data = e
    BY <1>1, <2>4, <2>8
  <2>. HIDE DEF r
  <2>10. result.talker \in Talkers \union {UNKNOWN}
    BY DEF IsResult
  <2>11. IsResult(r) /\ IsDataOf(r.type, r.data)
    BY <2>7, <2>9, <2>10 DEF IsResult, SentenceTypes
  <2>. QED BY <2>11 DEF r
<1>2. CASE ~(result.type = "RMC" /\ century > 0)
  BY <1>2 DEF YearCompleted
<1>. QED BY <1>1, <1>2

LEMMA TypesFollow == ASSUME ParseInv, Next, TypeOK, ParseInv' PROVE TypeOK'
<1>1. zda_century' \in UINT8
  <2>1. dated' \in Nat /\ zda_century' = CenturyOf(dated')
    BY FieldAssumption DEF ParseInv, UINT16, UINT16_MAX
  <2>. DEFINE c == dated' \div 100
  <2>2. c \in Int
    BY <2>1
  <2>. HIDE DEF c
  <2>3. Uint8(c) \in UINT8 /\ 0 \in UINT8
    BY <2>2, NarrowedTyped DEF UINT8
  <2>. QED BY <2>1, <2>3 DEF CenturyOf, c
<1>2. CASE WorkParses
  <2>. DEFINE s == Head(feed)
              call == tiny_nmea_parse(s, FromHeader(s))
              r == call.result
  <2>1. s \in Sentence
    BY <1>2, HeadOfFeed DEF WorkParses
  <2>2. IsStructure(FromHeader(s)) /\ IsResult(FromHeader(s))
    <3>. DEFINE y == parse_sentence_type(s.type)
                k == parse_talker_id(s.talker)
    <3>1. FromHeader(s) = [Blank EXCEPT !.type = y, !.talker = k]
      BY DEF FromHeader
    <3>2. y \in SentenceTypes \union {UNKNOWN} /\ k \in Talkers \union {UNKNOWN}
      BY DEF parse_sentence_type, parse_talker_id
    <3>. HIDE DEF y, k
    <3>3. FromHeader(s) = [type |-> y, talker |-> k, data |-> <<>>]
      BY <3>1 DEF Blank
    <3>. QED BY <3>2, <3>3 DEF IsStructure, IsResult
  <2>3. /\ IsStructure(r) /\ IsResult(r) /\ call.res \in Answers
        /\ call.res = "OK" => IsDataOf(r.type, r.data)
    BY <2>1, <2>2, AnswerIs, AnswerTyped
  <2>4. /\ own' = own
        /\ out' = [by |-> "work", sentence |-> s, res |-> call.res,
                   result |-> IF call.res = "OK" THEN YearCompleted(zda_century, r) ELSE r]
    BY <1>2 DEF WorkParses
  <2>. HIDE DEF call, s
  <2>5. zda_century \in Nat
    BY DEF TypeOK, UINT8
  <2>6. CASE call.res = "OK"
    <3>. DEFINE v == YearCompleted(zda_century, r)
    <3>1. IsResult(v) /\ IsDataOf(v.type, v.data)
      BY <2>3, <2>5, <2>6, YearCompletedTyped
    <3>. HIDE DEF v
    <3>. QED BY <1>1, <2>3, <2>4, <2>6, <3>1 DEF TypeOK, v
  <2>7. CASE call.res # "OK"
    BY <1>1, <2>3, <2>4, <2>7 DEF TypeOK
  <2>. QED BY <2>6, <2>7
<1>3. ASSUME NEW given \in Givens, CallerParses(given) PROVE TypeOK'
  <2>. DEFINE s == Head(feed)
              call == tiny_nmea_parse(s, given)
              r == call.result
  <2>1. s \in Sentence
    BY <1>3, HeadOfFeed DEF CallerParses
  <2>2. IsStructure(given) /\ IsResult(given)
    BY DEF Givens, ParseInv, TypeOK, Blank, IsStructure, IsResult
  <2>3. /\ IsResult(r) /\ call.res \in Answers
        /\ call.res = "OK" => IsDataOf(r.type, r.data)
    BY <2>1, <2>2, AnswerTyped
  <2>4. /\ own' = r
        /\ out' = [by |-> "caller", sentence |-> s, res |-> call.res, result |-> r]
    BY <1>3 DEF CallerParses
  <2>. HIDE DEF call, s
  <2>. QED BY <1>1, <2>3, <2>4 DEF TypeOK
<1>. QED BY <1>2, <1>3 DEF Next, Givens

LEMMA InitTypes == ASSUME Init PROVE TypeOK
<1>1. zda_century = 0 /\ own = Blank /\ out = NoCall
  BY DEF Init
<1>2. /\ Blank.type = UNKNOWN /\ Blank.talker = UNKNOWN /\ Blank.data = <<>>
      /\ NoCall.by = "nobody" /\ NoCall.res = "OK" /\ NoCall.result = Blank
  BY DEF Blank, NoCall
<1>3. 0 \in UINT8 /\ "OK" \in Answers
  BY DEF UINT8, Answers
<1>. QED BY <1>1, <1>2, <1>3 DEF TypeOK, IsResult

(* Every member of every structure has its type, no list is longer than its *)
(* array, and what is answered OK is of the type that the answer has, also  *)
(* when the structure held another one (the handlers of sentences.c).       *)
THEOREM ParseTypes == Spec => []TypeOK
<1>1. ParseInv /\ TypeOK /\ [Next]_vars /\ ParseInv' => TypeOK'
  <2>1. CASE UNCHANGED vars
    BY <2>1 DEF vars, TypeOK, IsResult
  <2>2. CASE Next
    BY <2>2, TypesFollow
  <2>. QED BY <2>1, <2>2
<1>. QED BY <1>1, InitTypes, ParseInvariant, PTL DEF Spec

-----------------------------------------------------------------------------
(* Letters and lists.                                                      *)

(* The first character of a field, if it is one of S. *)
Letter(f, S) == IF f # <<>> /\ f[1] \in S THEN f[1] ELSE NUL

LEMMA LetterIs ==
  ASSUME NEW f \in Seq(STRING)
  PROVE  /\ Char(f, NUL) = Letter(f, STRING \union {NUL})
         /\ parse_faa_mode_field(f) = Letter(f, FaaModes \union {UNKNOWN})
         /\ parse_nav_status_field(f) = Letter(f, NavStatuses \union {UNKNOWN})
         /\ parse_gsa_fix_field(f) = Letter(f, GsaFixes \union {UNKNOWN})
<1>1. f # <<>> => f[1] \in STRING
  BY ElementOfSeq
<1>2. Char(f, NUL) = IF f = <<>> THEN NUL ELSE f[1]
  BY DEF Char, Assign, parse_char
<1>3. \A S : OneOf(S, f) = Letter(f, S \union {UNKNOWN})
  BY DEF OneOf, Letter, UNKNOWN
<1>4. Char(f, NUL) = Letter(f, STRING \union {NUL})
  BY <1>1, <1>2 DEF Letter
<1>. QED BY <1>3, <1>4 DEF parse_faa_mode_field, parse_nav_status_field, parse_gsa_fix_field

LEMMA LettersFollow ==
  ASSUME ParseInv
  PROVE  LettersAreOfTheirFields
<1>. DEFINE F(i) == FieldAt(fields, i)
            Faa == FaaModes \union {UNKNOWN}
            Nav == NavStatuses \union {UNKNOWN}
            Fix == GsaFixes \union {UNKNOWN}
            Sign == STRING \union {NUL}
            faa(i) == IF i \in DOMAIN fields THEN parse_faa_mode_field(fields[i]) ELSE UNKNOWN
            nav(i) == IF i \in DOMAIN fields THEN parse_nav_status_field(fields[i])
                      ELSE UNKNOWN
<1>. SUFFICES ASSUME Parsed, type \in DOMAIN LetterFields,
                     NEW member \in DOMAIN LetterFields[type]
              PROVE  data[member] = Letter(F(LetterFields[type][member]), Has(member))
  BY Zenon DEF LettersAreOfTheirFields, Letter
<1>1. \A i \in Int : F(i) \in Seq(STRING)
  BY FieldsAre
<1>2. \A i \in 0..MinFields[type]-1 : fields[i] = F(i)
  BY FieldsAre
<1>3. \A S : Letter(<<>>, S) = UNKNOWN
  BY DEF Letter, UNKNOWN
<1>4. ASSUME NEW i \in Int
      PROVE  faa(i) = Letter(F(i), Faa) /\ nav(i) = Letter(F(i), Nav)
  <2>1. CASE i \in DOMAIN fields
    <3>1. F(i) = fields[i]
      BY <2>1 DEF FieldAt
    <3>. HIDE DEF F
    <3>. QED BY <1>1, <2>1, <3>1, LetterIs
  <2>2. CASE i \notin DOMAIN fields
    <3>1. F(i) = <<>>
      BY <2>2 DEF FieldAt
    <3>. HIDE DEF F
    <3>. QED BY <1>3, <2>2, <3>1
  <2>. QED BY <2>1, <2>2
<1>. HIDE DEF F
<1>5. ASSUME NEW i \in 0..MinFields[type]-1
      PROVE  /\ Char(fields[i], NUL) = Letter(F(i), Sign)
             /\ parse_gsa_fix_field(fields[i]) = Letter(F(i), Fix)
  <2>1. fields[i] = F(i) /\ i \in Int
    BY <1>2
  <2>. QED BY <1>1, <2>1, LetterIs
<1>6. /\ Has("faa_mode") = Faa /\ Has("nav_status") = Nav /\ Has("fix_type") = Fix
      /\ Has("mag_var_dir") = Sign /\ Has("mode_selection") = Sign /\ Has("channel") = Sign
  BY HasIs
<1>. HIDE DEF Faa, Nav, Fix, Sign, faa, nav
<1>7. ~Completed => data = Told
  BY ParsedIs
<1>8. CASE type = "RMC"
  <2>1. /\ data.mag_var_dir = Char(fields[10], NUL)
        /\ data.faa_mode = faa(11) /\ data.nav_status = nav(12)
    <3>. DEFINE y == Uint16(zda_century * 100 + Told.date.year_yy)
    <3>1. data = Told \/ data = [Told EXCEPT !.date.year = y]
      BY <1>7, ParsedIs
    <3>2. Told = parse_rmc(fields, Zero)
      BY <1>8 DEF Told, Handler
    <3>. HIDE DEF y
    <3>. QED BY <3>1, <3>2 DEF parse_rmc, memset, Zero, faa, nav
  <2>2. 10 \in 0..MinFields[type]-1 /\ 11 \in Int /\ 12 \in Int
    BY <1>8 DEF MinFields
  <2>3. /\ data.mag_var_dir = Letter(F(10), Sign)
        /\ data.faa_mode = Letter(F(11), Faa) /\ data.nav_status = Letter(F(12), Nav)
    BY <1>4, <1>5, <2>1, <2>2
  <2>. QED BY <1>6, <1>8, <2>3 DEF LetterFields
<1>9. CASE type = "GNS"
  <2>1. data.nav_status = nav(12)
    BY <1>7, <1>9 DEF Completed, Told, Handler, parse_gns, memset, Zero, nav
  <2>2. data.nav_status = Letter(F(12), Nav)
    BY <1>4, <2>1
  <2>. QED BY <1>6, <1>9, <2>2 DEF LetterFields
<1>10. CASE type = "GSA"
  <2>1. /\ data.mode_selection = Char(fields[0], NUL)
        /\ data.fix_type = parse_gsa_fix_field(fields[1])
    BY <1>7, <1>10 DEF Completed, Told, Handler, parse_gsa, memset, Zero
  <2>2. 0 \in 0..MinFields[type]-1 /\ 1 \in 0..MinFields[type]-1
    BY <1>10 DEF MinFields
  <2>3. data.mode_selection = Letter(F(0), Sign) /\ data.fix_type = Letter(F(1), Fix)
    BY <1>5, <2>1, <2>2
  <2>. QED BY <1>6, <1>10, <2>3 DEF LetterFields
<1>11. CASE type = "VTG"
  <2>1. data.faa_mode = faa(8)
    BY <1>7, <1>11 DEF Completed, Told, Handler, parse_vtg, memset, Zero, faa
  <2>2. data.faa_mode = Letter(F(8), Faa)
    BY <1>4, <2>1
  <2>. QED BY <1>6, <1>11, <2>2 DEF LetterFields
<1>12. CASE type = "GLL"
  <2>1. data.faa_mode = faa(6)
    BY <1>7, <1>12 DEF Completed, Told, Handler, parse_gll, memset, Zero, faa
  <2>2. data.faa_mode = Letter(F(6), Faa)
    BY <1>4, <2>1
  <2>. QED BY <1>6, <1>12, <2>2 DEF LetterFields
<1>13. CASE type \in {"VDM", "VDO"}
  <2>1. data.channel = Char(fields[3], NUL)
    BY <1>7, <1>13 DEF Completed, Told, Handler, parse_ais, memset, Zero
  <2>2. 3 \in 0..MinFields[type]-1
    BY <1>13 DEF MinFields
  <2>3. data.channel = Letter(F(3), Sign)
    BY <1>5, <2>1, <2>2
  <2>. QED BY <1>6, <1>13, <2>3 DEF LetterFields
<1>. QED BY <1>8, <1>9, <1>10, <1>11, <1>12, <1>13 DEF LetterFields

(* The smaller of two numbers. *)
LEMMA SmallerOf ==
  ASSUME NEW a \in Nat, NEW b \in Nat
  PROVE  Min({a, b}) = IF a <= b THEN a ELSE b
<1>. DEFINE both == {a, b}
<1>1. both \in SUBSET Nat /\ both # {}
  OBVIOUS
<1>2. Min(both) \in both /\ \A i \in both : Min(both) <= i
  <2>. HIDE DEF both
  <2>. QED BY <1>1, LeastOf
<1>. QED BY <1>2

LEMMA ModesAre ==
  ASSUME NEW f \in Seq(STRING)
  PROVE  LET mode == IF f # <<>> THEN Modes(f) ELSE <<>>
         IN /\ Len(mode) = Min({Len(f), MaxModes})
            /\ \A i \in DOMAIN mode : mode[i] = IF f[i] \in FaaModes THEN f[i] ELSE UNKNOWN
<1>. DEFINE n == Min({Len(f), MaxModes})
            letter(i) == OneOf(FaaModes, <<f[i]>>)
<1>1. Len(f) \in Nat /\ MaxModes \in Nat
  BY LenProperties, SentenceAssumption
<1>2. n \in Nat /\ (f = <<>> => n = 0)
  BY <1>1, SmallerOf
<1>3. Modes(f) = [i \in 1..n |-> letter(i)]
  BY DEF Modes
<1>4. \A i : letter(i) = IF f[i] \in FaaModes THEN f[i] ELSE UNKNOWN
  <2>. SUFFICES ASSUME NEW i PROVE letter(i) = IF f[i] \in FaaModes THEN f[i] ELSE UNKNOWN
    OBVIOUS
  <2>1. <<f[i]>> # <<>> /\ <<f[i]>>[1] = f[i]
    OBVIOUS
  <2>. QED BY <2>1 DEF OneOf
<1>. HIDE DEF n, letter
<1>5. Len(Modes(f)) = n /\ DOMAIN Modes(f) = 1..n /\ \A i \in 1..n : Modes(f)[i] = letter(i)
  BY <1>2, <1>3
<1>6. CASE f = <<>>
  BY <1>2, <1>6 DEF n
<1>7. CASE f # <<>>
  BY <1>4, <1>5, <1>7 DEF n
<1>. QED BY <1>6, <1>7

LEMMA PayloadIs ==
  ASSUME NEW f \in Seq(STRING)
  PROVE  LET payload == IF f # <<>> THEN SubSeq(f, 1, Min({Len(f), MaxPayload})) ELSE <<>>
         IN Len(payload) = Min({Len(f), MaxPayload}) /\ IsPrefix(payload, f)
<1>. DEFINE n == Min({Len(f), MaxPayload})
            p == SubSeq(f, 1, n)
<1>1. Len(f) \in Nat /\ MaxPayload \in Nat
  BY LenProperties, SentenceAssumption
<1>2. n \in 0..Len(f) /\ (f = <<>> => n = 0)
  BY <1>1, SmallerOf
<1>. HIDE DEF n
<1>3. Len(p) = n /\ SubSeq(p, 1, n) = SubSeq(f, 1, n) /\ n <= Len(f)
  BY <1>1, <1>2
<1>4. Len(p) = n /\ IsPrefix(p, f)
  BY <1>3, Zenon DEF IsPrefix
<1>5. f = <<>> => p = <<>>
  BY <1>2, <1>3
<1>. HIDE DEF p
<1>. QED BY <1>4, <1>5 DEF n, p

(* The satellites are those of the fields that have a number, in order. *)
LEMMA PrnsAre ==
  ASSUME NEW f, AreFields(f, 17)
  PROVE  LET given == {i \in 1..12 : UnsignedIn(f[1 + i]) # <<>>}
         IN /\ Len(Prns(f)) = Min({Cardinality(given), MaxSatsGsa})
            /\ \A i \in given : Rank(given, i) <= MaxSatsGsa =>
                 Prns(f)[Rank(given, i)] = UnsignedIn(f[1 + i])[1] % 256
<1>. DEFINE N == 12
            given == {i \in 1..N : UnsignedIn(f[1 + i]) # <<>>}
            P == {i \in 1..N : parse_uint(f[1 + i]) # <<>>}
            q == InOrder(given, N)
            n == Min({Len(q), MaxSatsGsa})
            prn(k) == Uint8(parse_uint(f[1 + q[k]])[1])
<1>1. \A i \in 1..N : parse_uint(f[1 + i]) = UnsignedIn(f[1 + i])
  <2>1. \A i \in 1..N : 1 + i \in 0..17-1
    OBVIOUS
  <2>. QED BY <2>1, ParseUint DEF AreFields
<1>2. P = given
  BY <1>1
<1>3. Prns(f) = [k \in 1..n |-> prn(k)]
  <2>1. Prns(f) = [k \in 1..Min({Len(InOrder(P, N)), MaxSatsGsa}) |->
                     Uint8(parse_uint(f[1 + InOrder(P, N)[k]])[1])]
    BY DEF Prns
  <2>. HIDE DEF P, given, N
  <2>. QED BY <1>2, <2>1
<1>4. N \in Nat /\ given \in SUBSET (1..N)
  OBVIOUS
<1>. HIDE DEF N, P, given
<1>5. /\ q \in Seq(given) /\ Len(q) = Cardinality(given)
      /\ \A i \in given : Rank(given, i) \in 1..Len(q) /\ q[Rank(given, i)] = i
  BY <1>4, InOrderIs
<1>. HIDE DEF q
<1>6. n \in Nat /\ n = IF Len(q) <= MaxSatsGsa THEN Len(q) ELSE MaxSatsGsa
  <2>1. Len(q) \in Nat /\ MaxSatsGsa \in Nat
    BY <1>5, LenProperties, SentenceAssumption
  <2>. QED BY <2>1, SmallerOf
<1>7. Len(Prns(f)) = n /\ \A k \in 1..n : Prns(f)[k] = prn(k)
  <2>. HIDE DEF n, prn
  <2>. QED BY <1>3, <1>6
<1>8. Len(Prns(f)) = Min({Cardinality(given), MaxSatsGsa})
  BY <1>5, <1>7
<1>9. ASSUME NEW i \in given, Rank(given, i) <= MaxSatsGsa
      PROVE  Prns(f)[Rank(given, i)] = UnsignedIn(f[1 + i])[1] % 256
  <2>. DEFINE k == Rank(given, i)
  <2>1. k \in 1..Len(q) /\ q[k] = i
    BY <1>5
  <2>2. Len(q) \in Nat /\ MaxSatsGsa \in Nat
    BY <1>5, LenProperties, SentenceAssumption
  <2>3. k \in 1..n
    <3>. HIDE DEF n, k
    <3>. QED BY <1>6, <1>9, <2>1, <2>2 DEF k
  <2>. HIDE DEF k, n
  <2>4. Prns(f)[k] = Uint8(parse_uint(f[1 + i])[1])
    BY <1>7, <2>1, <2>3
  <2>5. parse_uint(f[1 + i]) = UnsignedIn(f[1 + i])
    BY <1>1, <1>4
  <2>. QED BY <2>4, <2>5 DEF k, Uint8
<1>. QED BY <1>8, <1>9 DEF given, N

LEMMA ListsFollow ==
  ASSUME ParseInv
  PROVE  ListsAreOfTheirFields
<1>. SUFFICES ASSUME Parsed PROVE ListsAreOfTheirFields
  BY DEF ListsAreOfTheirFields
<1>1. \A i \in 0..MinFields[type]-1 : fields[i] \in Seq(STRING)
  BY FieldsAre
<1>2. type # "RMC" => data = Told
  BY ParsedIs DEF Completed
<1>3. ASSUME type = "GNS"
      PROVE  /\ Len(data.mode) = Min({Len(fields[5]), MaxModes})
             /\ \A i \in DOMAIN data.mode :
                  data.mode[i] = IF fields[5][i] \in FaaModes THEN fields[5][i] ELSE UNKNOWN
  <2>. DEFINE f == fields[5]
              mode == IF f # <<>> THEN Modes(f) ELSE <<>>
  <2>1. data = parse_gns(fields, Zero)
    BY <1>2, <1>3 DEF Told, Handler
  <2>2. data.mode = mode
    BY <2>1 DEF parse_gns, memset, Zero
  <2>3. f \in Seq(STRING)
    BY <1>1, <1>3 DEF MinFields
  <2>. HIDE DEF f
  <2>4. /\ Len(mode) = Min({Len(f), MaxModes})
        /\ \A i \in DOMAIN mode : mode[i] = IF f[i] \in FaaModes THEN f[i] ELSE UNKNOWN
    BY <2>3, ModesAre
  <2>. HIDE DEF mode
  <2>. QED BY <2>2, <2>4 DEF f
<1>4. ASSUME type \in {"VDM", "VDO"}
      PROVE  Len(data.payload) = Min({Len(fields[4]), MaxPayload})
             /\ IsPrefix(data.payload, fields[4])
  <2>1. data = parse_ais(fields, Zero)
    BY <1>2, <1>4 DEF Told, Handler
  <2>2. data.payload = IF fields[4] # <<>>
                       THEN SubSeq(fields[4], 1, Min({Len(fields[4]), MaxPayload})) ELSE <<>>
    BY <2>1 DEF parse_ais, memset, Zero
  <2>3. fields[4] \in Seq(STRING)
    BY <1>1, <1>4 DEF MinFields
  <2>. QED BY <2>2, <2>3, PayloadIs
<1>5. ASSUME type = "GSA"
      PROVE  LET given == {i \in 1..12 : UnsignedIn(fields[1 + i]) # <<>>}
                 before(i) == Cardinality(given \intersect 1..i)
             IN /\ Len(data.satellite_prns) = Min({Cardinality(given), MaxSatsGsa})
                /\ \A i \in given : before(i) <= MaxSatsGsa =>
                     data.satellite_prns[before(i)] = UnsignedIn(fields[1 + i])[1] % 256
  <2>1. data.satellite_prns = Prns(fields)
    BY <1>2, <1>5 DEF Told, Handler, parse_gsa
  <2>2. AreFields(fields, 17)
    BY <1>5, FieldsAre DEF AreFields, MinFields
  <2>. QED BY <2>1, <2>2, PrnsAre, Zenon DEF Rank
<1>. QED BY <1>3, <1>4, <1>5, Zenon DEF ListsAreOfTheirFields

-----------------------------------------------------------------------------
(* What every answer says.                                                 *)

(* The fields of a sentence are what is between the commas of its text, up to *)
(* the fields that its type has, whatever the text; and a text is refused as *)
(* too short exactly when it has fewer commas than its type needs (tokenize). *)
THEOREM ParseTokens == Spec => []FieldsAreTheText
<1>1. ParseInv => FieldsAreTheText
  BY FieldsFollow
<1>. QED BY <1>1, ParseInvariant, PTL

(* A fixed-point number is the one in its field, or none, for every text whose *)
(* decimals a scale can hold (parse_fixedpoint_float).                      *)
THEOREM ParseNumbers == Spec => []NumbersAreExact
<1>1. ParseInv => NumbersAreExact
  BY NumbersFollow
<1>. QED BY <1>1, ParseInvariant, PTL

(* An integer is the one in its field, in the type of its member, or 0      *)
(* (parse_uint, parse_int and the narrowing of the handlers).               *)
THEOREM ParseIntegers == Spec => []IntegersAreExact
<1>1. ParseInv => IntegersAreExact
  BY IntegersFollow
<1>. QED BY <1>1, ParseInvariant, PTL

(* A time is the one in its field to the microsecond, or not valid          *)
(* (parse_time).                                                            *)
THEOREM ParseTimes == Spec => []TimesAreExact
<1>1. ParseInv => TimesAreExact
  BY TimesFollow
<1>. QED BY <1>1, ParseInvariant, PTL

(* The satellites of a GSV sentence are those of its blocks, in their order, *)
(* each with what its own block says (parse_gsv, parse_sat_info).           *)
THEOREM ParseSatellites == Spec => []SatellitesAreOfTheirBlocks
<1>1. ParseInv => SatellitesAreOfTheirBlocks
  BY SatellitesFollow
<1>. QED BY <1>1, ParseInvariant, PTL

(* A letter of an answer is that of its field, or none where the field says *)
(* none, whatever the structure held before (the memset of each handler and *)
(* the enumerations that are set only from a field that is not empty).      *)
THEOREM ParseLetters == Spec => []LettersAreOfTheirFields
<1>1. ParseInv => LettersAreOfTheirFields
  BY LettersFollow
<1>. QED BY <1>1, ParseInvariant, PTL

(* The modes, satellites and payload of an answer are those of its fields, in *)
(* order, up to the room of their arrays, and nothing of an earlier list    *)
(* (parse_gns, parse_gsa, parse_ais).                                       *)
THEOREM ParseLists == Spec => []ListsAreOfTheirFields
<1>1. ParseInv => ListsAreOfTheirFields
  BY ListsFollow
<1>. QED BY <1>1, ParseInvariant, PTL

(* The year that work gives an RMC sentence is of the century of the last valid *)
(* ZDA sentence, whether the date it completes is valid or not              *)
(* (parse_post_process).                                                    *)
THEOREM ParseYears == Spec => []YearIsOfLastZda
<1>1. ParseInv => YearIsOfLastZda
  BY YearFollows
<1>. QED BY <1>1, ParseInvariant, PTL

(* Knots are converted to the last thousandth, for every factor of conversion *)
(* (tiny_nmea_knots_to_mps, tiny_nmea_knots_to_kph).                        *)
THEOREM ParseSpeeds == Spec => []SpeedsAreConverted
<1>1. ParseInv => SpeedsAreConverted
  BY SpeedsFollow
<1>. QED BY <1>1, ParseInvariant, PTL

(* A position in fixed degrees is the degrees and minutes of its field, with *)
(* the sign of its hemisphere (tiny_nmea_coord_to_fixed_degrees).           *)
THEOREM ParseDegrees == Spec => []DegreesAreSexagesimal
<1>1. ParseInv => DegreesAreSexagesimal
  BY DegreesFollow
<1>. QED BY <1>1, ParseInvariant, PTL

(* Sums at a common scale and halves lose nothing as long as they are ints  *)
(* (fp_add, fp_div_int, fp_mul_int).                                        *)
THEOREM ParseSums == Spec => []ArithmeticIsExact
<1>1. ParseInv => ArithmeticIsExact
  BY ArithmeticFollows
<1>. QED BY <1>1, ParseInvariant, PTL

=============================================================================
