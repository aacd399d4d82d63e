------------------------------ MODULE Induction ------------------------------
(***************************************************************************)
(* Induction over the natural numbers and the functions it defines, with   *)
(* sets and functions in place of the operators of NaturalsInduction: the  *)
(* recursive definitions of the other modules are about sequences, and     *)
(* each is a function on 0..N that gives n its value from that of n - 1.   *)
(***************************************************************************)
EXTENDS Integers, WellFoundedInduction, TLAPS

(* A set of natural numbers has a least element: < is well-founded. *)
LessThan == {ss \in Nat \X Nat : ss[1] < ss[2]}

LEMMA LeastNat ==
  ASSUME NEW T \in SUBSET Nat, T # {}
  PROVE  \E x \in T : \A y \in T : x <= y
<1>1. IsWellFoundedOn(LessThan, Nat)
  BY NatLessThanWellFounded, Zenon DEF OpToRel, LessThan
<1>2. PICK x \in T : \A y \in T : ~(<<y, x>> \in LessThan)
  BY <1>1, WFMin, Zenon
<1>3. ASSUME NEW y \in T PROVE x <= y
  <2>1. x \in Nat /\ y \in Nat /\ <<y, x>> \in Nat \X Nat
    OBVIOUS
  <2>2. ~(y < x)
    BY <1>2, <2>1 DEF LessThan
  <2>. QED BY <2>1, <2>2
<1>. QED BY <1>3

(* A set that contains 0, and with a number below N the next one, contains *)
(* all up to N.                                                            *)
LEMMA UpToN ==
  ASSUME NEW N \in Nat, NEW T, 0 \in T,
         \A n \in 1..N : n - 1 \in T => n \in T
  PROVE  \A n \in 0..N : n \in T
<1>. SUFFICES ASSUME NEW n \in 0..N, n \notin T PROVE FALSE
  OBVIOUS
<1>. DEFINE Out == {m \in 0..N : m \notin T}
<1>1. Out \in SUBSET Nat /\ Out # {}
  OBVIOUS
<1>2. PICK m \in Out : \A k \in Out : m <= k
  BY <1>1, LeastNat
<1>3. m \in 1..N /\ m - 1 \in 0..N /\ ~(m <= m - 1)
  OBVIOUS
<1>4. m - 1 \in T
  BY <1>2, <1>3
<1>. QED BY <1>3, <1>4

(* The functions that go from base on by a step: there is one, for every    *)
(* function that takes a step.                                              *)
Recursions(N, T, base, step) ==
  {g \in [0..N -> T] :
     g[0] = base /\ \A n \in 1..N : g[n] = step[<<g[n - 1], n>>]}

LEMMA RecursiveFunction ==
  ASSUME NEW N \in Nat, NEW T, NEW base \in T,
         NEW step \in [T \X (1..N) -> T]
  PROVE  Recursions(N, T, base, step) # {}
<1>. DEFINE Goes(m, g) == g[0] = base /\ \A n \in 1..m : g[n] = step[<<g[n - 1], n>>]
            Good == {m \in 0..N : \E g \in [0..m -> T] : Goes(m, g)}
<1>1. 0 \in Good
  <2>. DEFINE g == [n \in 0..0 |-> base]
  <2>1. g \in [0..0 -> T] /\ g[0] = base /\ 0 \in 0..N
    OBVIOUS
  <2>2. \A n \in 1..0 : FALSE
    OBVIOUS
  <2>. QED BY <2>1, <2>2
<1>2. ASSUME NEW m \in 1..N, m - 1 \in Good PROVE m \in Good
  <2>1. PICK g \in [0..m-1 -> T] : Goes(m - 1, g)
    BY <1>2
  <2>2. <<g[m - 1], m>> \in T \X (1..N)
    OBVIOUS
  <2>. DEFINE next == step[<<g[m - 1], m>>]
              h == [n \in 0..m |-> IF n = m THEN next ELSE g[n]]
  <2>3. next \in T
    BY <2>2
  <2>. HIDE DEF next
  <2>4. h \in [0..m -> T]
    BY <2>3
  <2>5. h[0] = base
    BY <2>1
  <2>6. ASSUME NEW n \in 1..m PROVE h[n] = step[<<h[n - 1], n>>]
    <3>1. CASE n = m
      <4>1. h[n] = next /\ h[n - 1] = g[m - 1]
        BY <3>1
      <4>. QED BY <3>1, <4>1 DEF next
    <3>2. CASE n # m
      <4>1. n \in 1..m-1 /\ h[n] = g[n] /\ h[n - 1] = g[n - 1]
        BY <3>2
      <4>. QED BY <2>1, <4>1
    <3>. QED BY <3>1, <3>2
  <2>. HIDE DEF h
  <2>7. \E k \in [0..m -> T] : Goes(m, k)
    BY <2>4, <2>5, <2>6
  <2>8. m \in 0..N
    OBVIOUS
  <2>. QED BY <2>7, <2>8
<1>. HIDE DEF Good
<1>3. N \in Good
  <2>1. \A n \in 0..N : n \in Good
    BY <1>1, <1>2, UpToN
  <2>. QED BY <2>1
<1>. QED BY <1>3 DEF Good, Recursions

(* The functions that go from base on by a step for each number: there is   *)
(* one.                                                                     *)
Iterations(N, T, base, step) ==
  {g \in [0..N -> T] : g[0] = base /\ \A n \in 1..N : g[n] = step[n][g[n - 1]]}

LEMMA RecursionHolds ==
  ASSUME NEW N \in Nat, NEW T, NEW base \in T, NEW step \in [1..N -> [T -> T]]
  PROVE  Iterations(N, T, base, step) # {}
<1>. DEFINE taken == [a \in T \X (1..N) |-> step[a[2]][a[1]]]
<1>1. taken \in [T \X (1..N) -> T]
  <2>1. \A a \in T \X (1..N) : a[1] \in T /\ a[2] \in 1..N
    OBVIOUS
  <2>2. \A a \in T \X (1..N) : step[a[2]][a[1]] \in T
    BY <2>1
  <2>. QED BY <2>2
<1>2. \A x \in T, n \in 1..N : taken[<<x, n>>] = step[n][x]
  OBVIOUS
<1>. HIDE DEF taken
<1>3. PICK g : g \in Recursions(N, T, base, taken)
  <2>1. Recursions(N, T, base, taken) # {}
    BY <1>1, RecursiveFunction, Zenon
  <2>. QED BY <2>1
<1>4. /\ g \in [0..N -> T] /\ g[0] = base
      /\ \A n \in 1..N : g[n] = taken[<<g[n - 1], n>>]
  BY <1>3, Zenon DEF Recursions
<1>5. ASSUME NEW n \in 1..N PROVE g[n] = step[n][g[n - 1]]
  <2>1. n - 1 \in 0..N
    OBVIOUS
  <2>2. g[n - 1] \in T
    BY <1>4, <2>1
  <2>. QED BY <1>2, <1>4, <2>2
<1>. QED BY <1>4, <1>5 DEF Iterations
=============================================================================
