-------------------------- MODULE NmeaStream_proofs --------------------------
(***************************************************************************)
(* Good sentences are parsed: whatever pieces the sender makes its stream  *)
(* of, however it is cut into calls of tiny_nmea_feed, and whenever        *)
(* tiny_nmea_work runs, as long as the ring takes every byte.              *)
(***************************************************************************)
EXTENDS NmeaWork_proofs

-----------------------------------------------------------------------------
(* The pieces of a stream, and the place of each in it. *)

LEMMA JoinedFacts ==
  ASSUME NEW S, NEW pieces \in Seq(Seq(S))
  PROVE  /\ Joined(pieces) \in [0..Len(pieces) -> Seq(S)]
         /\ Joined(pieces)[0] = <<>>
         /\ \A n \in 1..Len(pieces) :
              Joined(pieces)[n] = Joined(pieces)[n - 1] \o pieces[n]
<1>. DEFINE N == Len(pieces)
            T == Seq(S)
            nil == <<>>
            Cat(a, n) == a \o pieces[n]
            Value(f) == [n \in 0..N |-> IF n = 0 THEN nil ELSE Cat(f[n - 1], n)]
            step == [a \in T \X (1..N) |-> Cat(a[1], a[2])]
            J == CHOOSE f : f = Value(f)
<1>1. N \in Nat /\ \A n \in 1..N : pieces[n] \in T
  BY LenProperties, ElementOfSeq
<1>2. nil \in T /\ \A a \in T, n \in 1..N : Cat(a, n) \in T
  <2>1. ASSUME NEW a \in T, NEW n \in 1..N PROVE a \o pieces[n] \in T
    BY <1>1, ConcatProperties, Zenon
  <2>. QED BY <2>1, EmptySeq
<1>3. J = Joined(pieces)
  BY Zenon DEF Joined
<1>. HIDE DEF T, N, nil, Cat
<1>4. step \in [T \X (1..N) -> T]
  BY <1>2
<1>5. PICK g \in [0..N -> T] :
        g[0] = nil /\ \A n \in 1..N : g[n] = step[<<g[n - 1], n>>]
  <2>1. N \in Nat /\ nil \in T
    BY <1>1, <1>2
  <2>. HIDE DEF step
  <2>2. Recursions(N, T, nil, step) # {}
    BY <1>4, <2>1, RecursiveFunction
  <2>. QED BY <2>2 DEF Recursions
<1>6. ASSUME NEW n \in 1..N PROVE g[n] = Cat(g[n - 1], n)
  <2>1. g[n - 1] \in T /\ <<g[n - 1], n>> \in T \X (1..N)
    BY <1>1
  <2>2. step[<<g[n - 1], n>>] = Cat(g[n - 1], n)
    BY <2>1
  <2>. HIDE DEF step
  <2>. QED BY <1>5, <2>2
<1>7. g = Value(g)
  <2>1. g = [n \in 0..N |-> g[n]]
    OBVIOUS
  <2>2. \A n \in 0..N : g[n] = IF n = 0 THEN nil ELSE Cat(g[n - 1], n)
    BY <1>1, <1>5, <1>6
  <2>. QED BY <2>1, <2>2, Zenon
<1>8. J = Value(J)
  BY <1>7, Zenon
<1>. HIDE DEF J
<1>9. \A n \in 0..N : J[n] = IF n = 0 THEN nil ELSE Cat(J[n - 1], n)
  BY <1>8, Zenon
<1>10. \A n \in 0..N : J[n] = g[n]
  <2>. DEFINE Same == {n \in 0..N : J[n] = g[n]}
  <2>1. 0 \in Same
    BY <1>1, <1>5, <1>9
  <2>2. ASSUME NEW n \in 1..N, n - 1 \in Same PROVE n \in Same
    <3>1. n # 0 /\ n \in 0..N
      BY <1>1
    <3>2. J[n] = Cat(J[n - 1], n)
      BY <1>9, <3>1, Zenon
    <3>. QED BY <1>6, <2>2, <3>1, <3>2
  <2>. HIDE DEF Same
  <2>3. \A n \in 0..N : n \in Same
    BY <1>1, <2>1, <2>2, UpToN
  <2>. QED BY <2>3 DEF Same
<1>11. J = g
  <2>1. J = [n \in 0..N |-> IF n = 0 THEN nil ELSE Cat(J[n - 1], n)]
    BY <1>8
  <2>2. DOMAIN J = 0..N /\ J = [n \in 0..N |-> J[n]]
    BY <1>9, <2>1
  <2>. QED BY <1>5, <1>10, <2>2
<1>. QED BY <1>3, <1>5, <1>6, <1>11, Zenon DEF T, N, nil, Cat

(* The bytes of one more piece. *)
LEMMA JoinedStep ==
  ASSUME NEW S, NEW pieces \in Seq(Seq(S)), NEW n \in 1..Len(pieces)
  PROVE  LET J == Joined(pieces) IN
         /\ J[n - 1] \in Seq(S) /\ J[n] \in Seq(S) /\ pieces[n] \in Seq(S)
         /\ Len(J[n]) = Len(J[n - 1]) + Len(pieces[n])
         /\ \A p \in 1..Len(J[n - 1]) : J[n][p] = J[n - 1][p]
         /\ \A p \in 1..Len(pieces[n]) : J[n][Len(J[n - 1]) + p] = pieces[n][p]
<1>. DEFINE J == Joined(pieces)
            s == J[n - 1]
            t == pieces[n]
            u == J[n]
<1>1. /\ n \in 0..Len(pieces) /\ n - 1 \in 0..Len(pieces)
      /\ t \in Seq(S)
  BY LenProperties, ElementOfSeq
<1>2. s \in Seq(S) /\ u \in Seq(S)
  BY <1>1, JoinedFacts
<1>3. u = s \o t
  BY JoinedFacts
<1>4. Len(s) \in Nat /\ Len(t) \in Nat
  BY <1>1, <1>2, LenProperties
<1>. HIDE DEF s, t, u
<1>5. /\ Len(s \o t) = Len(s) + Len(t)
      /\ \A i \in 1..Len(s)+Len(t) :
           (s \o t)[i] = IF i <= Len(s) THEN s[i] ELSE t[i - Len(s)]
  BY <1>1, <1>2, ConcatProperties, Zenon
<1>6. /\ Len(u) = Len(s) + Len(t)
      /\ \A i \in 1..Len(s)+Len(t) :
           u[i] = IF i <= Len(s) THEN s[i] ELSE t[i - Len(s)]
  BY <1>3, <1>5, Zenon
<1>7. ASSUME NEW p \in 1..Len(s) PROVE u[p] = s[p]
  BY <1>4, <1>6
<1>8. ASSUME NEW p \in 1..Len(t) PROVE u[Len(s) + p] = t[p]
  <2>1. Len(s) + p \in 1..Len(s)+Len(t) /\ ~(Len(s) + p <= Len(s))
        /\ (Len(s) + p) - Len(s) = p
    BY <1>4
  <2>. QED BY <1>6, <2>1
<1>. QED BY <1>1, <1>2, <1>6, <1>7, <1>8 DEF s, t, u

(* Fewer pieces make the beginning of what more of them make. *)
LEMMA JoinedPrefix ==
  ASSUME NEW S, NEW pieces \in Seq(Seq(S)),
         NEW i \in 0..Len(pieces), NEW m \in i..Len(pieces)
  PROVE  LET J == Joined(pieces) IN
         /\ J[i] \in Seq(S) /\ J[m] \in Seq(S)
         /\ Len(J[i]) <= Len(J[m])
         /\ \A p \in 1..Len(J[i]) : J[m][p] = J[i][p]
<1>. DEFINE J == Joined(pieces)
            N == Len(pieces)
            Good(k) == /\ Len(J[i]) <= Len(J[k])
                       /\ \A p \in 1..Len(J[i]) : J[k][p] = J[i][p]
            T == {d \in 0..N-i : Good(i + d)}
<1>1. N \in Nat /\ i \in Nat /\ i <= N /\ N - i \in Nat
  BY LenProperties
<1>2. ASSUME NEW k \in 0..N PROVE J[k] \in Seq(S) /\ Len(J[k]) \in Nat
  <2>1. J \in [0..N -> Seq(S)]
    BY JoinedFacts, Zenon
  <2>. HIDE DEF J, N
  <2>2. J[k] \in Seq(S)
    BY <2>1
  <2>. QED BY <2>2, LenProperties
<1>2a. ASSUME NEW k \in 1..Len(pieces)
       PROVE  /\ pieces[k] \in Seq(S)
              /\ Len(J[k]) = Len(J[k - 1]) + Len(pieces[k])
              /\ \A p \in 1..Len(J[k - 1]) : J[k][p] = J[k - 1][p]
  <2>1. ASSUME NEW p \in 1..Len(J[k - 1]) PROVE J[k][p] = J[k - 1][p]
    BY JoinedStep
  <2>2. pieces[k] \in Seq(S) /\ Len(J[k]) = Len(J[k - 1]) + Len(pieces[k])
    BY JoinedStep
  <2>. QED BY <2>1, <2>2
<1>. HIDE DEF J, N
<1>3. 0 \in T
  <2>1. i + 0 = i /\ Len(J[i]) \in Nat
    BY <1>1, <1>2
  <2>. QED BY <1>1, <2>1
<1>4. ASSUME NEW d \in 1..N-i, d - 1 \in T PROVE d \in T
  <2>1. i + d \in 1..N /\ (i + d) - 1 = i + (d - 1) /\ d \in 0..N-i
        /\ i + (d - 1) \in 0..N /\ i + d \in 0..N
    BY <1>1
  <2>2. Good(i + (d - 1))
    BY <1>4
  <2>. DEFINE s == J[i + (d - 1)]
              u == J[i + d]
  <2>3. /\ Len(u) = Len(s) + Len(pieces[i + d])
        /\ pieces[i + d] \in Seq(S)
        /\ \A p \in 1..Len(s) : u[p] = s[p]
    <3>. DEFINE k == i + d
    <3>1. k \in 1..Len(pieces) /\ s = J[k - 1]
      BY <2>1 DEF N
    <3>2. /\ pieces[k] \in Seq(S)
          /\ Len(J[k]) = Len(J[k - 1]) + Len(pieces[k])
          /\ \A p \in 1..Len(J[k - 1]) : J[k][p] = J[k - 1][p]
      <4>. HIDE DEF k
      <4>. QED BY <3>1, <1>2a
    <3>. HIDE DEF k
    <3>3. u = J[k]
      BY DEF k
    <3>. HIDE DEF s, u
    <3>4. /\ pieces[k] \in Seq(S) /\ Len(u) = Len(s) + Len(pieces[k])
          /\ \A p \in 1..Len(s) : u[p] = s[p]
      BY <3>1, <3>2, <3>3, Zenon
    <3>. QED BY <3>4 DEF k
  <2>4. Len(pieces[i + d]) \in Nat /\ Len(J[i]) \in Nat /\ Len(s) \in Nat
    BY <1>1, <1>2, <2>1, <2>3, LenProperties
  <2>5. Len(J[i]) <= Len(s) /\ \A p \in 1..Len(J[i]) : s[p] = J[i][p]
    BY <2>2
  <2>. HIDE DEF s, u
  <2>6. Len(J[i]) <= Len(u) /\ \A p \in 1..Len(J[i]) : u[p] = J[i][p]
    BY <2>3, <2>4, <2>5
  <2>7. Good(i + d)
    BY <2>6 DEF u
  <2>. QED BY <2>1, <2>7
<1>. HIDE DEF T
<1>5. \A d \in 0..N-i : d \in T
  BY <1>1, <1>3, <1>4, UpToN
<1>6. m - i \in 0..N-i /\ i + (m - i) = m
  BY <1>1 DEF N
<1>7. Good(i + (m - i))
  BY <1>5, <1>6, Zenon DEF T
<1>8. Good(m)
  BY <1>6, <1>7
<1>9. i \in 0..N /\ m \in 0..N
  BY <1>1 DEF N
<1>. QED BY <1>2, <1>8, <1>9 DEF J

LEMMA PlanFacts ==
  ASSUME InPlace
  PROVE  LET n == Len(plan) IN
         /\ n \in Nat /\ DOMAIN plan = 1..n
         /\ stream \in Seq(Symbols) /\ Len(stream) \in Nat
         /\ \A i \in 1..n : plan[i] \in Seq(Symbols) /\ Len(plan[i]) \in Nat
         /\ \A i \in 1..n+1 : Before(i) \in Nat
         /\ Before(1) = 0 /\ Before(n + 1) = Len(stream)
         /\ \A i \in 1..n : Before(i + 1) = Before(i) + Len(plan[i])
         /\ \A i \in 1..n+1 : \A j \in i..n+1 : Before(i) <= Before(j)
         /\ \A i \in 1..n : \A k \in 1..Len(plan[i]) :
              stream[Before(i) + k] = plan[i][k]
<1>. DEFINE n == Len(plan)
            J == Joined(plan)
<1>1. plan \in Seq(Seq(Symbols)) /\ stream = J[n]
  BY PlanAssumption DEF InPlace, Concat
<1>2. n \in Nat /\ DOMAIN plan = 1..n
  BY <1>1, LenProperties
<1>3. \A i \in 1..n : plan[i] \in Seq(Symbols) /\ Len(plan[i]) \in Nat
  BY <1>1, LenProperties, ElementOfSeq
<1>4. ASSUME NEW i \in 0..n PROVE J[i] \in Seq(Symbols) /\ Len(J[i]) \in Nat
  <2>1. J \in [0..n -> Seq(Symbols)]
    BY <1>1, JoinedFacts, Zenon
  <2>. HIDE DEF J, n
  <2>2. J[i] \in Seq(Symbols)
    BY <2>1
  <2>. QED BY <2>2, LenProperties
<1>5. J[0] = <<>> /\ Len(J[0]) = 0
  BY <1>1, JoinedFacts, EmptySeq
<1>6. \A i \in 1..n : /\ Len(J[i]) = Len(J[i - 1]) + Len(plan[i])
                      /\ \A p \in 1..Len(plan[i]) :
                           J[i][Len(J[i - 1]) + p] = plan[i][p]
  BY <1>1, JoinedStep
<1>7. ASSUME NEW i \in 0..n, NEW m \in i..n
      PROVE  Len(J[i]) <= Len(J[m]) /\ \A p \in 1..Len(J[i]) : J[m][p] = J[i][p]
  BY <1>1, JoinedPrefix
<1>. HIDE DEF J, n
<1>8. \A i : Before(i) = Len(J[i - 1])
  BY DEF Before, J
<1>9. \A i \in 1..n+1 : i - 1 \in 0..n
  BY <1>2
<1>10. \A i \in 1..n+1 : Before(i) \in Nat
  BY <1>4, <1>8, <1>9
<1>11. Before(1) = 0 /\ Before(n + 1) = Len(stream)
       /\ stream \in Seq(Symbols) /\ Len(stream) \in Nat
  <2>1. 1 - 1 = 0 /\ (n + 1) - 1 = n /\ n \in 0..n
    BY <1>2
  <2>. QED BY <1>1, <1>4, <1>5, <1>8, <2>1
<1>12. \A i \in 1..n : Before(i + 1) = Before(i) + Len(plan[i])
  <2>1. \A i \in 1..n : (i + 1) - 1 = i
    BY <1>2
  <2>. QED BY <1>6, <1>8, <2>1
<1>13. ASSUME NEW i \in 1..n+1, NEW j \in i..n+1 PROVE Before(i) <= Before(j)
  <2>1. i - 1 \in 0..n /\ j - 1 \in i-1..n
    BY <1>2
  <2>. QED BY <1>7, <1>8, <2>1
<1>14. ASSUME NEW i \in 1..n, NEW k \in 1..Len(plan[i])
       PROVE  stream[Before(i) + k] = plan[i][k]
  <2>. DEFINE p == Before(i) + k
  <2>1. Len(J[i]) = Before(i) + Len(plan[i]) /\ J[i][p] = plan[i][k]
    BY <1>6, <1>8
  <2>2. p \in 1..Len(J[i])
    <3>1. Before(i) \in Nat /\ Len(plan[i]) \in Nat
      BY <1>2, <1>3, <1>10
    <3>. QED BY <2>1, <3>1
  <2>3. i \in 0..n /\ n \in i..n
    BY <1>2
  <2>4. J[n][p] = J[i][p]
    BY <1>7, <2>2, <2>3
  <2>. QED BY <1>1, <2>1, <2>4
<1>. QED BY <1>2, <1>3, <1>10, <1>11, <1>12, <1>13, <1>14 DEF n
-----------------------------------------------------------------------------
(* A good sentence, said of the stream it is in. *)

LEMMA BodyFacts ==
  ASSUME NEW piece \in Seq(Symbols), IsWhole(piece)
  PROVE  LET L == BodyLen(piece) IN
         /\ L \in Nat /\ L \in HdrLen+2..MaxLen-1 /\ L < Len(piece)
         /\ Len(piece) \in Nat
         /\ piece[L + 1] = "E" /\ piece[HdrLen + 2] # "*"
         /\ \A k \in 1..L : piece[k] \notin {"E", "N"}
         /\ \A k \in L+1..Len(piece) : piece[k] \in {"E", "N"}
         /\ Body(piece) \in Seq(Symbols) /\ Len(Body(piece)) = L
         /\ \A k \in 1..L : Body(piece)[k] = piece[k]
         /\ IsSentence(Body(piece))
<1>. DEFINE T == {n \in 0..Len(piece)-1 : piece[n + 1] \in {"E", "N"}}
            L == BodyLen(piece)
<1>1. Len(piece) \in Nat
  BY LenProperties
<1>2. L \in HdrLen+2..MaxLen-1 /\ L \in Nat /\ L # NULL
  BY WorkAssumption DEF IsWhole, NULL
<1>3. T \in SUBSET Nat
  BY <1>1
<1>4. L = Least(T)
  BY DEF BodyLen
<1>5. L \in T /\ \A n \in T : L <= n
  <2>. HIDE DEF T, L
  <2>. QED BY <1>2, <1>3, <1>4, LeastFacts
<1>. HIDE DEF L
<1>6. L < Len(piece)
  BY <1>1, <1>2, <1>5
<1>7. ASSUME NEW k \in 1..L PROVE piece[k] \notin {"E", "N"}
  <2>1. k - 1 \in 0..Len(piece)-1 /\ (k - 1) + 1 = k /\ ~(L <= k - 1)
    BY <1>1, <1>2, <1>6
  <2>2. k - 1 \notin T
    BY <1>5, <2>1
  <2>. QED BY <2>1, <2>2
<1>8. /\ Body(piece) \in Seq(Symbols) /\ Len(Body(piece)) = L
      /\ \A k \in 1..L : Body(piece)[k] = piece[k]
  <2>1. L \in 0..Len(piece)
    BY <1>1, <1>2, <1>6
  <2>. QED BY <2>1, PrefixFacts DEF Body, L
<1>. QED BY <1>1, <1>2, <1>6, <1>7, <1>8 DEF IsWhole, L

Whole(B, L) ==
  /\ B \in Nat /\ L \in Nat /\ L \in HdrLen+2..MaxLen-1 /\ B + L < Len(stream)
  /\ stream[B + 1] = "$" /\ stream[B + HdrLen] \in Types
  /\ stream[B + HdrLen + 1] = "," /\ stream[B + HdrLen + 2] # "*"
  /\ stream[B + L + 1] = "E"
  /\ \A k \in 1..L : stream[B + k] \notin {"E", "N"}
  /\ \A k \in HdrLen+2..L : stream[B + k] = "*" =>
       /\ k = L - 2
       /\ {stream[B + L - 1], stream[B + L]} \subseteq Hex
       /\ Checksum([i \in 1..L-4 |-> stream[B + i + 1]])
            = 2 * Digit(stream[B + L - 1]) + Digit(stream[B + L])

LEMMA WholeLength ==
  ASSUME NEW B, NEW L, Whole(B, L)
  PROVE  /\ B \in Nat /\ L \in Nat /\ HdrLen \in Nat /\ HdrLen > 1 /\ MaxLen \in Nat
         /\ Data = HdrLen + 1 /\ HdrLen + 2 <= L /\ L < MaxLen
<1>1. B \in Nat /\ L \in Nat /\ L \in HdrLen+2..MaxLen-1
  BY DEF Whole
<1>2. HdrLen \in Nat /\ HdrLen > 1 /\ MaxLen \in Nat
  BY WorkAssumption
<1>. QED BY <1>1, <1>2 DEF Data

LEMMA WholeFacts ==
  ASSUME InPlace, NEW i \in 1..Len(plan), IsWhole(plan[i])
  PROVE  LET L == BodyLen(plan[i]) IN
         /\ Whole(Before(i), L)
         /\ L < Len(plan[i]) /\ Before(i + 1) = Before(i) + Len(plan[i])
         /\ Before(i + 1) <= Len(stream)
         /\ \A k \in L+1..Len(plan[i]) : stream[Before(i) + k] \in {"E", "N"}
         /\ Len(Body(plan[i])) = L /\ Body(plan[i]) \in Seq(Symbols)
         /\ \A k \in 1..L : Body(plan[i])[k] = stream[Before(i) + k]
<1>. DEFINE p == plan[i]
            L == BodyLen(p)
            B == Before(i)
            b == Body(p)
<1>1. /\ p \in Seq(Symbols) /\ Len(p) \in Nat /\ B \in Nat
      /\ Before(i + 1) = B + Len(p) /\ Before(i + 1) <= Len(stream)
      /\ Len(stream) \in Nat
      /\ \A k \in 1..Len(p) : stream[B + k] = p[k]
  <2>1. /\ Len(plan) \in Nat /\ i \in 1..Len(plan)+1 /\ i + 1 \in 1..Len(plan)+1
        /\ Len(plan) + 1 \in i+1..Len(plan)+1
    BY PlanFacts
  <2>. QED BY <2>1, PlanFacts
<1>2. /\ L \in Nat /\ L \in HdrLen+2..MaxLen-1 /\ L < Len(p)
      /\ p[L + 1] = "E" /\ p[HdrLen + 2] # "*"
      /\ \A k \in 1..L : p[k] \notin {"E", "N"}
      /\ \A k \in L+1..Len(p) : p[k] \in {"E", "N"}
      /\ b \in Seq(Symbols) /\ Len(b) = L
      /\ \A k \in 1..L : b[k] = p[k]
      /\ IsSentence(b)
  BY <1>1, BodyFacts
<1>. HIDE DEF p, L, B, b
<1>3. ASSUME NEW k \in 1..L PROVE k \in 1..Len(p) /\ b[k] = stream[B + k]
  <2>1. k \in 1..Len(p)
    BY <1>1, <1>2
  <2>. QED BY <1>1, <1>2, <2>1
<1>4. HdrLen \in Nat /\ HdrLen > 1
  BY WorkAssumption
<1>5. b[1] = "$" /\ b[HdrLen] \in Types /\ b[HdrLen + 1] = ","
  BY <1>2 DEF IsSentence
<1>6. /\ stream[B + 1] = "$" /\ stream[B + HdrLen] \in Types
      /\ stream[B + HdrLen + 1] = "," /\ stream[B + HdrLen + 2] # "*"
      /\ stream[B + L + 1] = "E"
  <2>1. /\ 1 \in 1..L /\ HdrLen \in 1..L /\ HdrLen + 1 \in 1..L
        /\ HdrLen + 2 \in 1..L /\ L + 1 \in 1..Len(p)
        /\ B + (HdrLen + 1) = B + HdrLen + 1 /\ B + (HdrLen + 2) = B + HdrLen + 2
        /\ B + (L + 1) = B + L + 1
    BY <1>1, <1>2, <1>4
  <2>2. /\ stream[B + 1] = b[1] /\ stream[B + HdrLen] = b[HdrLen]
        /\ stream[B + (HdrLen + 1)] = b[HdrLen + 1]
    BY <1>3, <2>1
  <2>3. /\ stream[B + (HdrLen + 2)] = p[HdrLen + 2]
        /\ stream[B + (L + 1)] = p[L + 1]
    BY <1>1, <1>3, <2>1
  <2>. QED BY <1>2, <1>5, <2>1, <2>2, <2>3
<1>7. \A k \in 1..L : stream[B + k] \notin {"E", "N"}
  BY <1>1, <1>2, <1>3
<1>8. ASSUME NEW k \in HdrLen+2..L, stream[B + k] = "*"
      PROVE  /\ k = L - 2
             /\ {stream[B + L - 1], stream[B + L]} \subseteq Hex
             /\ Checksum([j \in 1..L-4 |-> stream[B + j + 1]])
                  = 2 * Digit(stream[B + L - 1]) + Digit(stream[B + L])
  <2>1. k \in Stars(b) /\ k \in 1..L
    BY <1>2, <1>3, <1>4, <1>8 DEF Stars
  <2>2. /\ Stars(b) = {L - 2}
        /\ {b[(L - 2) + 1], b[(L - 2) + 2]} \subseteq Hex
        /\ Checksum([j \in 1..(L-2)-2 |-> b[j + 1]])
             = 2 * Digit(b[(L - 2) + 1]) + Digit(b[(L - 2) + 2])
    BY <1>2, <2>1, Zenon DEF IsSentence
  <2>3. k = L - 2
    BY <2>1, <2>2
  <2>4. /\ (L - 2) + 1 = L - 1 /\ (L - 2) + 2 = L /\ (L - 2) - 2 = L - 4
        /\ L - 1 \in 1..L /\ L \in 1..L /\ B + (L - 1) = B + L - 1
    BY <1>1, <1>2, <1>4, <2>3
  <2>5. b[L - 1] = stream[B + L - 1] /\ b[L] = stream[B + L]
    BY <1>3, <2>4
  <2>6. ASSUME NEW j \in 1..L-4 PROVE b[j + 1] = stream[B + j + 1]
    <3>1. j + 1 \in 1..L /\ B + (j + 1) = B + j + 1
      BY <1>1, <1>2
    <3>. QED BY <1>3, <3>1
  <2>7. [j \in 1..L-4 |-> b[j + 1]] = [j \in 1..L-4 |-> stream[B + j + 1]]
    BY <2>6
  <2>. QED BY <2>2, <2>3, <2>4, <2>5, <2>7, Zenon
<1>9. B + L < Len(stream)
  BY <1>1, <1>2
<1>10. Whole(B, L)
  BY <1>1, <1>2, <1>6, <1>7, <1>8, <1>9, Zenon DEF Whole
<1>11. \A k \in L+1..Len(p) : stream[B + k] \in {"E", "N"}
  <2>1. \A k \in L+1..Len(p) : k \in 1..Len(p)
    BY <1>1, <1>2
  <2>. QED BY <1>1, <1>2, <2>1
<1>. QED BY <1>1, <1>2, <1>3, <1>10, <1>11 DEF p, L, B, b
-----------------------------------------------------------------------------
(* What the working buffer holds of the stream, and where the state machine *)
(* finds the end and the checksum of a good sentence it has the start of.   *)

LEMMA OffsetFacts ==
  ASSUME IInv, InPlace, Lossless
  PROVE  /\ Start \in Nat /\ Popped \in Nat /\ Popped = Start + working_buf_len
         /\ Popped <= Len(stream) /\ Len(stream) \in Nat
         /\ working_buf_len \in Nat /\ working_buf_len <= MaxLen
         /\ \A o \in 0..working_buf_len-1 : At(o) = stream[Start + o + 1]
<1>1. /\ working_buf_len \in Nat /\ Len(ring) \in Nat /\ Len(accepted) \in Nat
      /\ fed \in Nat /\ fed <= Len(stream) /\ Len(stream) \in Nat
      /\ Len(accepted) <= fed /\ working_buf_len <= MaxLen
  BY ContextFacts, LenProperties DEF IInv, TypeOK, IndicesInBuffer
<1>2. Start >= 0
  BY DEF IInv, Window
<1>. HIDE DEF working_buf_len
<1>3. /\ Start \in Nat /\ Popped \in Nat /\ Popped = Start + working_buf_len
      /\ Popped <= Len(accepted) /\ Popped <= Len(stream)
  BY <1>1, <1>2 DEF Start, Popped
<1>4. ASSUME NEW o \in 0..working_buf_len-1 PROVE At(o) = stream[Start + o + 1]
  <2>1. /\ o + 1 \in 1..working_buf_len
        /\ Start + (o + 1) = Start + o + 1
        /\ Start + o + 1 \in 1..Len(accepted)
    BY <1>1, <1>3
  <2>2. ctx.working_buf[o + 1] = Start + (o + 1)
    BY <2>1 DEF IInv, Window
  <2>3. accepted[Start + o + 1] = Start + o + 1
    BY <2>1 DEF InPlace
  <2>. QED BY <2>1, <2>2, <2>3 DEF At, Sym
<1>. QED BY <1>1, <1>3, <1>4

LEMMA LineEndFound ==
  ASSUME IInv, InPlace, Lossless, NEW L, Whole(Start, L),
         NEW f \in Data..working_buf_len-1, At(f) \in Eol, Free(Eol, Data, f)
  PROVE  f = L
<1>1. /\ Start \in Nat /\ working_buf_len \in Nat /\ L \in Nat /\ HdrLen \in Nat
      /\ Data = HdrLen + 1 /\ HdrLen + 2 <= L /\ f \in Nat
  <2>1. working_buf_len \in Nat
    BY OffsetFacts
  <2>. QED BY <2>1, WholeLength
<1>2. At(f) = stream[Start + (f + 1)] /\ At(f) = "E"
  <2>1. f \in 0..working_buf_len-1 /\ Start + f + 1 = Start + (f + 1)
    BY <1>1
  <2>. QED BY <2>1, OffsetFacts DEF Eol
<1>3. ~(f < L)
  <2>. SUFFICES ASSUME f < L PROVE FALSE
    OBVIOUS
  <2>1. f + 1 \in 1..L
    BY <1>1
  <2>. QED BY <1>2, <2>1 DEF Whole
<1>4. ~(L < f)
  <2>. SUFFICES ASSUME L < f PROVE FALSE
    OBVIOUS
  <2>1. L \in Data..f-1 /\ L \in 0..working_buf_len-1
    BY <1>1
  <2>2. At(L) = "E"
    BY <2>1, OffsetFacts DEF Whole
  <2>. QED BY <2>1, <2>2 DEF Free, Eol
<1>. QED BY <1>1, <1>3, <1>4

LEMMA NoLineEndYet ==
  ASSUME IInv, InPlace, Lossless, NEW L, Whole(Start, L),
         Free(Eol, Data, working_buf_len)
  PROVE  working_buf_len <= L /\ L < MaxLen
<1>1. /\ Start \in Nat /\ working_buf_len \in Nat /\ L \in Nat /\ HdrLen \in Nat
      /\ Data = HdrLen + 1 /\ HdrLen + 2 <= L /\ L < MaxLen
  <2>1. working_buf_len \in Nat
    BY OffsetFacts
  <2>. QED BY <2>1, WholeLength
<1>2. ~(L < working_buf_len)
  <2>. SUFFICES ASSUME L < working_buf_len PROVE FALSE
    OBVIOUS
  <2>1. L \in Data..working_buf_len-1 /\ L \in 0..working_buf_len-1
    BY <1>1
  <2>2. At(L) = "E"
    BY <2>1, OffsetFacts DEF Whole
  <2>. QED BY <2>1, <2>2 DEF Free, Eol
<1>. QED BY <1>1, <1>2

LEMMA StarFound ==
  ASSUME IInv, InPlace, Lossless, NEW L, Whole(Start, L),
         NEW d \in Data..working_buf_len-1, At(d) = "*",
         Free({"*"} \cup Eol, Data, d)
  PROVE  /\ d = L - 3 /\ d > Data
         /\ L < working_buf_len =>
              /\ TwoDigits(d + 1, L)
              /\ Checksum([i \in 1..d-1 |-> At(i)])
                   = 2 * Digit(At(d + 1)) + Digit(At(d + 2))
<1>1. /\ Start \in Nat /\ working_buf_len \in Nat /\ L \in Nat /\ HdrLen \in Nat
      /\ Data = HdrLen + 1 /\ HdrLen + 2 <= L /\ d \in Nat
  <2>1. working_buf_len \in Nat
    BY OffsetFacts
  <2>. QED BY <2>1, WholeLength
<1>2. At(d) = stream[Start + (d + 1)]
  <2>1. d \in 0..working_buf_len-1 /\ Start + d + 1 = Start + (d + 1)
    BY <1>1
  <2>. QED BY <2>1, OffsetFacts
<1>3. d < L
  <2>. SUFFICES ASSUME L <= d PROVE FALSE
    BY <1>1
  <2>1. L \in 0..working_buf_len-1
    BY <1>1
  <2>2. At(L) = "E"
    BY <2>1, OffsetFacts DEF Whole
  <2>3. L # d
    BY <2>2
  <2>4. L \in Data..d-1
    BY <1>1, <2>3
  <2>. QED BY <2>2, <2>4 DEF Free, Eol
<1>4. /\ d + 1 = L - 2
      /\ {stream[Start + L - 1], stream[Start + L]} \subseteq Hex
      /\ Checksum([i \in 1..L-4 |-> stream[Start + i + 1]])
           = 2 * Digit(stream[Start + L - 1]) + Digit(stream[Start + L])
  <2>1. d + 1 \in HdrLen+2..L
    BY <1>1, <1>3
  <2>. QED BY <1>2, <2>1 DEF Whole
<1>5. d = L - 3 /\ d # Data
  <2>1. Start + HdrLen + 2 = Start + (Data + 1)
    BY <1>1
  <2>2. stream[Start + HdrLen + 2] # "*"
    BY DEF Whole
  <2>. QED BY <1>1, <1>2, <1>4, <2>1, <2>2
<1>6. ASSUME L < working_buf_len
      PROVE  /\ At(d + 1) = stream[Start + L - 1] /\ At(d + 2) = stream[Start + L]
             /\ \A i \in 1..d-1 : At(i) = stream[Start + i + 1]
  <2>1. /\ d + 1 \in 0..working_buf_len-1 /\ d + 2 \in 0..working_buf_len-1
        /\ Start + (d + 1) + 1 = Start + L - 1 /\ Start + (d + 2) + 1 = Start + L
    BY <1>1, <1>5, <1>6
  <2>2. \A i \in 1..d-1 : i \in 0..working_buf_len-1
    BY <1>1
  <2>. QED BY <2>1, <2>2, OffsetFacts
<1>7. ASSUME L < working_buf_len
      PROVE  /\ TwoDigits(d + 1, L)
             /\ Checksum([i \in 1..d-1 |-> At(i)])
                  = 2 * Digit(At(d + 1)) + Digit(At(d + 2))
  <2>0. d \in Int /\ L = d + 3
    BY <1>1, <1>5
  <2>1. L - (d + 1) = 2 /\ (d + 1) + 1 = d + 2 /\ L - 4 = d - 1
    BY <2>0
  <2>2. TwoDigits(d + 1, L)
    BY <1>4, <1>6, <1>7, <2>1 DEF TwoDigits
  <2>3. [i \in 1..d-1 |-> At(i)] = [i \in 1..d-1 |-> stream[Start + i + 1]]
    BY <1>6, <1>7
  <2>. QED BY <1>4, <1>6, <1>7, <2>1, <2>2, <2>3, Zenon
<1>. QED BY <1>1, <1>5, <1>7
-----------------------------------------------------------------------------
(* What a step does to the start of the working buffer: it stays, or bytes  *)
(* go and the next start has to be found, or it is found.                   *)

Stays == /\ Start' = Start
         /\ ctx'.parser_state = "FIND_START" <=> ctx.parser_state = "FIND_START"

Rests == /\ ctx'.parser_state = "FIND_START"
         /\ Start' \in Start..Popped /\ working_buf_len \in Nat

Finds == /\ ctx.parser_state = "FIND_START" /\ ctx'.parser_state # "FIND_START"
         /\ \E start \in 0..working_buf_len-1 :
              /\ At(start) = "$" /\ Free({"$"}, 0, start)
              /\ Start' = Start + start

LEMMA WaitingKept ==
  ASSUME NEW c \in Context
  PROVE  /\ Restart(c).waiting_for_data = c.waiting_for_data
         /\ ResetToStart(c).waiting_for_data = c.waiting_for_data
         /\ \A field : Count(c, field).waiting_for_data = c.waiting_for_data
         /\ \A n : discard_bytes(c, n).waiting_for_data = c.waiting_for_data
<1>1. ASSUME NEW d \in Context
      PROVE  Restart(d).waiting_for_data = d.waiting_for_data
  BY DEF Restart, Context
<1>2. [c EXCEPT !.working_buf = <<>>] \in Context
      /\ [c EXCEPT !.working_buf = <<>>].waiting_for_data = c.waiting_for_data
  BY EmptySeq DEF Context
<1>3. ASSUME NEW field PROVE Count(c, field).waiting_for_data = c.waiting_for_data
  BY DEF Count, Context
<1>4. ASSUME NEW n PROVE discard_bytes(c, n).waiting_for_data = c.waiting_for_data
  <2>. DEFINE w == IF n >= Len(c.working_buf) THEN <<>>
                   ELSE SubSeq(c.working_buf, n + 1, Len(c.working_buf))
  <2>1. discard_bytes(c, n) = [c EXCEPT !.working_buf = w]
    BY Zenon DEF discard_bytes
  <2>. HIDE DEF w
  <2>. QED BY <2>1 DEF Context
<1>. QED BY <1>1, <1>2, <1>3, <1>4 DEF ResetToStart

LEMMA StartFacts ==
  ASSUME IInv
  PROVE  /\ working_buf_len \in Nat /\ working_buf_len <= MaxLen
         /\ Popped \in Int /\ Start \in Int /\ Start >= 0
         /\ Popped = Start + working_buf_len
         /\ ctx \in Context /\ bytes_avail \in Nat
<1>1. /\ working_buf_len \in Nat /\ Len(ring) \in Nat /\ Len(accepted) \in Nat
  BY ContextFacts DEF IInv
<1>2. working_buf_len <= MaxLen /\ Start >= 0 /\ ctx \in Context /\ bytes_avail \in Nat
  BY DEF IInv, Window, IndicesInBuffer, TypeOK
<1>. HIDE DEF working_buf_len
<1>. QED BY <1>1, <1>2 DEF Start, Popped

(* Bytes are dropped, and the state machine looks for a start again. *)
LEMMA DropRests ==
  ASSUME IInv, NEW c \in Context, Moves(c), c.parser_state = "FIND_START",
         ~c.waiting_for_data,
         NEW n \in 0..working_buf_len, Len(c.working_buf) = working_buf_len - n
  PROVE  WaitsInVain' /\ Rests /\ Start' = Start + n
<1>1. ctx' = c /\ at' \in {"loop", "check"} /\ UNCHANGED <<accepted, ring>>
  BY DEF Moves, env
<1>2. WaitsInVain'
  BY <1>1 DEF WaitsInVain
<1>3. working_buf_len' = working_buf_len - n /\ Popped' = Popped
  BY <1>1 DEF working_buf_len, Popped
<1>4. Start' = Start + n
  <2>1. Start' = Popped' - working_buf_len'
    BY DEF Start
  <2>. HIDE DEF working_buf_len, Popped
  <2>. QED BY <1>3, <2>1, StartFacts
<1>. QED BY <1>1, <1>2, <1>4, StartFacts DEF Rests

LEMMA ResetRests ==
  ASSUME IInv, NEW c \in Context, Moves(ResetToStart(c)), ~c.waiting_for_data
  PROVE  WaitsInVain' /\ Rests /\ Start' = Popped
<1>. DEFINE d == ResetToStart(c)
<1>1. /\ d \in Context /\ d.parser_state = "FIND_START"
      /\ d.working_buf = <<>> /\ ~d.waiting_for_data
  BY ResetToStartFacts, WaitingKept
<1>2. Moves(d)
  OBVIOUS
<1>. HIDE DEF d
<1>3. Len(d.working_buf) = working_buf_len - working_buf_len
      /\ working_buf_len \in 0..working_buf_len
  BY <1>1, StartFacts, EmptySeq
<1>4. WaitsInVain' /\ Rests /\ Start' = Start + working_buf_len
  BY <1>1, <1>2, <1>3, DropRests
<1>. QED BY <1>4, StartFacts

(* The working buffer does not change. *)
LEMMA BufferStays ==
  ASSUME IInv, NEW c \in Context, Moves(c), c.working_buf = ctx.working_buf
  PROVE  /\ Start' = Start /\ working_buf_len' = working_buf_len
         /\ \A o : At(o)' = At(o)
         /\ ctx' = c /\ at' \in {"loop", "check"} /\ UNCHANGED ring
<1>1. ctx' = c /\ UNCHANGED <<stream, accepted, ring>> /\ at' \in {"loop", "check"}
  BY DEF Moves, env
<1>. QED BY <1>1 DEF Start, Popped, working_buf_len, At, Sym
-----------------------------------------------------------------------------
(* The steps of the state machine. *)

LEMMA FindStartStream ==
  ASSUME IInv, WaitsInVain, FindStart
  PROVE  /\ WaitsInVain' /\ UNCHANGED <<env, log>>
         /\ \/ Rests /\ Start' = Popped /\ Free({"$"}, 0, working_buf_len)
            \/ Finds
<1>. DEFINE start == First({"$"}, 0)
            c == [ctx EXCEPT !.has_checksum = FALSE]
            d == discard_bytes(c, start)
            e == [d EXCEPT !.parse_pos = 1,
                           !.parser_state = "FIND_TALKER_AND_TYPE"]
<1>1. /\ at = "parse" /\ ctx.parser_state = "FIND_START"
      /\ Step(IF start = NULL THEN ResetToStart(c) ELSE e)
      /\ UNCHANGED <<env, log>>
  BY DEF FindStart, In, Step
<1>2. /\ c \in Context /\ c.working_buf = ctx.working_buf
      /\ ~c.waiting_for_data
  <2>1. ~ctx.waiting_for_data
    BY <1>1 DEF WaitsInVain
  <2>. QED BY <2>1, StartFacts DEF Context
<1>3. \/ start = NULL /\ Free({"$"}, 0, working_buf_len)
      \/ /\ start \in 0..working_buf_len-1 /\ start # NULL
         /\ At(start) = "$" /\ Free({"$"}, 0, start)
  <2>1. 0 \in Nat /\ \A o \in 0..working_buf_len-1 : o # NULL
    BY DEF NULL
  <2>2. \/ start = NULL /\ Free({"$"}, 0, working_buf_len)
        \/ /\ start \in 0..working_buf_len-1
           /\ At(start) \in {"$"} /\ Free({"$"}, 0, start)
    BY <2>1, FirstFacts DEF IInv
  <2>. HIDE DEF start
  <2>. QED BY <2>1, <2>2
<1>4. CASE start = NULL /\ Free({"$"}, 0, working_buf_len)
  <2>1. Moves(ResetToStart(c))
    BY <1>1, <1>4, StepMoves DEF IInv
  <2>. HIDE DEF c
  <2>. QED BY <1>1, <1>2, <1>4, <2>1, ResetRests
<1>5. CASE /\ start \in 0..working_buf_len-1 /\ start # NULL
           /\ At(start) = "$" /\ Free({"$"}, 0, start)
  <2>1. Moves(e) /\ at' = "loop"
    BY <1>1, <1>5, StepMoves DEF IInv, Step
  <2>. HIDE DEF c, start
  <2>2. start \in 0..working_buf_len
    BY <1>5, StartFacts
  <2>3. /\ d \in Context
        /\ Len(d.working_buf) = working_buf_len - start
        /\ ~d.waiting_for_data
    BY <1>2, <2>2, DropFacts, WaitingKept DEF IInv
  <2>. HIDE DEF d
  <2>4. /\ e \in Context /\ e.working_buf = d.working_buf
        /\ e.parser_state = "FIND_TALKER_AND_TYPE" /\ ~e.waiting_for_data
    BY <2>3 DEF Context, States
  <2>. HIDE DEF e
  <2>5. ctx' = e /\ UNCHANGED <<accepted, ring>>
    BY <2>1 DEF Moves, env
  <2>6. WaitsInVain'
    BY <2>1, <2>4, <2>5 DEF WaitsInVain
  <2>7. working_buf_len' = working_buf_len - start /\ Popped' = Popped
    BY <2>3, <2>4, <2>5 DEF working_buf_len, Popped
  <2>8. Start' = Start + start
    <3>1. Start' = Popped' - working_buf_len'
      BY DEF Start
    <3>. HIDE DEF working_buf_len, Popped
    <3>. QED BY <2>2, <2>7, <3>1, StartFacts
  <2>9. Finds
    BY <1>1, <1>5, <2>4, <2>5, <2>8 DEF Finds
  <2>. QED BY <1>1, <2>6, <2>9
<1>. QED BY <1>3, <1>4, <1>5

LEMMA FindTalkerAndTypeStream ==
  ASSUME IInv, WaitsInVain, FindTalkerAndType
  PROVE  /\ WaitsInVain' /\ UNCHANGED <<env, log>>
         /\ \/ Stays
            \/ Rests /\ HdrLen < working_buf_len /\ ~HeaderValid
<1>. DEFINE c == [ctx EXCEPT !.current_type = At(HdrLen - 1)]
            short == working_buf_len - ctx.parse_pos < HdrLen
<1>1. /\ at = "parse" /\ ctx.parser_state = "FIND_TALKER_AND_TYPE"
      /\ UNCHANGED <<env, log>> /\ at' = "loop" /\ ~ctx.waiting_for_data
  BY DEF FindTalkerAndType, In, Step, WaitsInVain
<1>2. /\ ctx \in Context /\ ctx.parse_pos = 1
      /\ working_buf_len \in Nat /\ HdrLen \in Nat /\ HdrLen > 1
      /\ ctx.parse_pos < working_buf_len
  BY <1>1, StartFacts, WorkAssumption DEF IInv, IndicesInBuffer
<1>3. CASE short
  <2>. DEFINE d == [ctx EXCEPT !.waiting_for_data = TRUE]
  <2>1. Step(d)
    BY <1>3 DEF FindTalkerAndType
  <2>2. /\ d \in Context /\ d.working_buf = ctx.working_buf
        /\ d.parser_state = "FIND_TALKER_AND_TYPE"
    BY <1>1, <1>2 DEF Context
  <2>3. Moves(d)
    BY <2>1, StepMoves DEF IInv
  <2>. HIDE DEF d
  <2>4. Start' = Start /\ working_buf_len' = working_buf_len /\ ctx' = d
    BY <2>2, <2>3, BufferStays
  <2>5. working_buf_len <= HdrLen
    BY <1>2, <1>3
  <2>6. WaitsInVain'
    BY <1>1, <2>2, <2>4, <2>5 DEF WaitsInVain
  <2>. QED BY <1>1, <2>2, <2>4, <2>6 DEF Stays
<1>4. ASSUME ~short
      PROVE  /\ c \in Context /\ c.working_buf = ctx.working_buf
             /\ c.parse_pos = 1 /\ ~c.waiting_for_data
             /\ HdrLen < working_buf_len
  <2>1. HdrLen - 1 \in 0..working_buf_len-1 /\ HdrLen < working_buf_len
    BY <1>2, <1>4
  <2>2. At(HdrLen - 1) \in Symbols
    BY <2>1, AtType DEF IInv
  <2>. QED BY <1>1, <1>2, <2>1, <2>2 DEF Context
<1>5. CASE ~short /\ HeaderValid
  <2>. DEFINE p == c.parse_pos + HdrLen
              d == [c EXCEPT !.parse_pos = p, !.parser_state = "FIND_CHECKSUM_OR_END"]
  <2>1. Step([c EXCEPT !.parse_pos = @ + HdrLen,
                       !.parser_state = "FIND_CHECKSUM_OR_END"])
    BY <1>5 DEF FindTalkerAndType
  <2>. HIDE DEF c
  <2>2. Step(d)
    BY <2>1
  <2>3. p \in Nat
    BY <1>2, <1>4, <1>5
  <2>. HIDE DEF p
  <2>4. /\ d \in Context /\ d.working_buf = ctx.working_buf
        /\ d.parser_state = "FIND_CHECKSUM_OR_END" /\ ~d.waiting_for_data
    BY <1>4, <1>5, <2>3 DEF Context, States
  <2>5. Moves(d)
    BY <2>2, StepMoves DEF IInv
  <2>. HIDE DEF d
  <2>6. Start' = Start /\ ctx' = d
    BY <2>4, <2>5, BufferStays
  <2>7. WaitsInVain'
    BY <1>1, <2>4, <2>6 DEF WaitsInVain
  <2>. QED BY <1>1, <2>4, <2>6, <2>7 DEF Stays
<1>6. CASE ~short /\ ~HeaderValid
  <2>. DEFINE d == discard_bytes(c, 1)
              e == Count(d, "parse_errors")
              f == Restart(e)
  <2>1. Step(f)
    BY <1>6 DEF FindTalkerAndType
  <2>. HIDE DEF c
  <2>2. 1 \in 0..working_buf_len
    BY <1>2
  <2>3. /\ d \in Context /\ Len(d.working_buf) = working_buf_len - 1
        /\ ~d.waiting_for_data
    BY <1>4, <1>6, <2>2, DropFacts, WaitingKept DEF IInv
  <2>. HIDE DEF d
  <2>4. e \in Context /\ e.working_buf = d.working_buf /\ ~e.waiting_for_data
    BY <2>3, CountFacts, WaitingKept DEF StatNames
  <2>. HIDE DEF e
  <2>5. /\ f \in Context /\ f.working_buf = e.working_buf /\ ~f.waiting_for_data
        /\ f.parser_state = "FIND_START"
    BY <2>4, RestartFacts, WaitingKept
  <2>6. Moves(f)
    BY <2>1, StepMoves DEF IInv
  <2>. HIDE DEF f
  <2>7. WaitsInVain' /\ Rests
    BY <2>2, <2>3, <2>4, <2>5, <2>6, DropRests
  <2>. QED BY <1>1, <1>4, <1>6, <2>7
<1>. QED BY <1>3, <1>5, <1>6

LEMMA FindChecksumOrEndStream ==
  ASSUME IInv, WaitsInVain, FindChecksumOrEnd
  PROVE  WaitsInVain' /\ UNCHANGED <<env, log>> /\ Stays
<1>. DEFINE line_end == First(Eol, ctx.parse_pos)
            stop     == {"*"} \cup Eol
            data_end == First(stop, ctx.parse_pos)
            c        == [ctx EXCEPT !.line_end = line_end]
<1>1. /\ at = "parse" /\ ctx.parser_state = "FIND_CHECKSUM_OR_END"
      /\ UNCHANGED <<env, log>> /\ at' = "loop" /\ ~ctx.waiting_for_data
  BY DEF FindChecksumOrEnd, In, Step, WaitsInVain
<1>2. /\ ctx \in Context /\ ctx.parse_pos \in Nat
      /\ working_buf_len \in Nat /\ MaxLen \in Nat
      /\ working_buf_len <= MaxLen /\ ctx.parse_pos < working_buf_len
  BY <1>1, StartFacts, WorkAssumption DEF IInv, IndicesInBuffer, Context
<1>3. \/ data_end = NULL
      \/ /\ data_end \in ctx.parse_pos..working_buf_len-1
         /\ Free(stop, ctx.parse_pos, data_end)
  BY <1>2, FirstFacts DEF IInv
<1>4. \/ line_end = NULL
      \/ /\ line_end \in ctx.parse_pos..working_buf_len-1
         /\ At(line_end) \in Eol
  BY <1>2, FirstFacts DEF IInv
<1>. HIDE DEF line_end, data_end
<1>5. /\ line_end \in NULL..MaxLen /\ data_end \in NULL..MaxLen
      /\ line_end \in Int /\ data_end \in Int
  BY <1>2, <1>3, <1>4 DEF NULL
<1>6. /\ c \in Context /\ c.working_buf = ctx.working_buf
      /\ c.parse_pos = ctx.parse_pos /\ ~c.waiting_for_data
      /\ c.parser_state = "FIND_CHECKSUM_OR_END" /\ c.line_end = line_end
  BY <1>1, <1>2, <1>5 DEF Context
<1>7. CASE data_end = NULL
  <2>. DEFINE d == WaitForMore(c)
  <2>1. Step(d)
    BY <1>7 DEF FindChecksumOrEnd, line_end, data_end
  <2>. HIDE DEF c
  <2>2. /\ d \in Context /\ d.working_buf = ctx.working_buf
        /\ d.parse_pos = working_buf_len
        /\ d.parser_state = "FIND_CHECKSUM_OR_END"
    BY <1>6, WaitFacts
  <2>3. Moves(d)
    BY <2>1, StepMoves DEF IInv
  <2>. HIDE DEF d
  <2>4. Start' = Start /\ working_buf_len' = working_buf_len /\ ctx' = d
    BY <2>2, <2>3, BufferStays
  <2>5. WaitsInVain'
    BY <1>1, <2>2, <2>4 DEF WaitsInVain
  <2>. QED BY <1>1, <2>2, <2>4, <2>5 DEF Stays
<1>8. CASE data_end # NULL
  <2>. DEFINE state == IF data_end # line_end THEN "FIND_END" ELSE "SENTENCE_COMPLETE"
              has == data_end # line_end
              d == [c EXCEPT !.parse_pos = data_end,
                             !.data_end = data_end,
                             !.has_checksum = has,
                             !.parser_state = state]
  <2>1. Step(d)
    BY <1>8 DEF FindChecksumOrEnd, line_end, data_end
  <2>2. /\ state \in {"FIND_END", "SENTENCE_COMPLETE"} /\ has \in BOOLEAN
        /\ data_end \in Nat
    BY <1>2, <1>3, <1>8
  <2>. HIDE DEF c, has, state
  <2>3. /\ d \in Context /\ d.working_buf = ctx.working_buf
        /\ d.parse_pos = data_end /\ d.parser_state = state
        /\ d.line_end = line_end /\ ~d.waiting_for_data
    BY <1>5, <1>6, <2>2 DEF Context, States
  <2>4. Moves(d)
    BY <2>1, StepMoves DEF IInv
  <2>. HIDE DEF d
  <2>5. Start' = Start /\ ctx' = d /\ \A o : At(o)' = At(o)
    BY <2>3, <2>4, BufferStays
  <2>6. ASSUME line_end # NULL
        PROVE  data_end <= line_end /\ At(line_end) \in Eol
    <3>1. /\ line_end \in ctx.parse_pos..working_buf_len-1 /\ At(line_end) \in Eol
          /\ data_end \in ctx.parse_pos..working_buf_len-1
          /\ Free(stop, ctx.parse_pos, data_end)
      BY <1>3, <1>4, <1>8, <2>6
    <3>2. ~(line_end \in ctx.parse_pos..data_end-1)
      BY <3>1 DEF Free
    <3>. QED BY <1>2, <3>1, <3>2
  <2>7. WaitsInVain'
    <3>1. /\ ~ctx'.waiting_for_data /\ at' = "loop"
          /\ ctx'.line_end = line_end /\ ctx'.parse_pos = data_end
      BY <1>1, <2>3, <2>5
    <3>2. At(ctx.line_end)' = At(line_end)
      BY <2>5, <3>1
    <3>. QED BY <2>6, <3>1, <3>2 DEF WaitsInVain
  <2>. QED BY <1>1, <2>2, <2>3, <2>5, <2>7 DEF Stays
<1>. QED BY <1>7, <1>8

(* A line end before which there are no two digits that are the checksum.   *)
Rejected == \E f \in Data..working_buf_len-1 :
              /\ At(f) \in Eol /\ Free(Eol, Data, f)
              /\ ~ /\ TwoDigits(ctx.data_end + 1, f)
                   /\ Checksum([i \in 1..ctx.data_end-1 |-> At(i)])
                        = 2 * Digit(At(ctx.data_end + 1)) + Digit(At(ctx.data_end + 2))

LEMMA FindEndStream ==
  ASSUME IInv, WaitsInVain, FindEnd
  PROVE  /\ WaitsInVain' /\ UNCHANGED <<env, log>>
         /\ \/ Stays
            \/ Rests /\ Rejected
<1>. DEFINE line_end == IF ctx.line_end = NULL THEN First(Eol, ctx.parse_pos)
                        ELSE ctx.line_end
            c        == [ctx EXCEPT !.line_end = line_end]
            hi       == ctx.data_end + 1
            computed == Checksum([i \in 1..ctx.data_end-1 |-> At(i)])
            sum      == 2 * Digit(At(hi)) + Digit(At(hi + 1))
<1>1. /\ at = "parse" /\ ctx.parser_state = "FIND_END"
      /\ UNCHANGED <<env, log>> /\ at' = "loop" /\ ~ctx.waiting_for_data
  BY DEF FindEnd, In, Step, WaitsInVain
<1>2. /\ ctx \in Context /\ ctx.parse_pos \in Nat
      /\ HdrLen < ctx.data_end /\ ctx.data_end <= ctx.parse_pos
      /\ ctx.data_end \in Int /\ ctx.line_end \in Int
      /\ ctx.line_end # NULL =>
           /\ ctx.data_end <= ctx.line_end /\ ctx.line_end < working_buf_len
           /\ ctx.parse_pos <= ctx.line_end /\ At(ctx.line_end) \in Eol
      /\ working_buf_len \in Nat /\ HdrLen \in Nat /\ Data = HdrLen + 1
      /\ MaxLen \in Nat
      /\ working_buf_len <= MaxLen /\ ctx.parse_pos < working_buf_len
      /\ Free(Eol, Data, IF ctx.line_end = NULL THEN ctx.parse_pos ELSE ctx.line_end)
  BY <1>1, StartFacts, WorkAssumption
     DEF IInv, IndicesInBuffer, FoundSoFar, Context, Data, NULL, WaitsInVain
<1>3. \/ line_end = NULL
      \/ /\ line_end # NULL /\ line_end \in ctx.parse_pos..working_buf_len-1
         /\ line_end \in Data..working_buf_len-1
         /\ At(line_end) \in Eol /\ Free(Eol, Data, line_end)
  <2>1. CASE ctx.line_end = NULL
    <3>. DEFINE f == First(Eol, ctx.parse_pos)
    <3>1. line_end = f /\ Free(Eol, Data, ctx.parse_pos)
      BY <1>2, <2>1
    <3>2. \/ f = NULL
          \/ /\ f \in ctx.parse_pos..working_buf_len-1 /\ At(f) \in Eol
             /\ Free(Eol, ctx.parse_pos, f)
      BY <1>2, FirstFacts DEF IInv
    <3>. HIDE DEF f, line_end
    <3>3. CASE f # NULL
      <4>1. Free(Eol, Data, f)
        BY <1>2, <3>1, <3>2, <3>3 DEF Free
      <4>2. f \in Data..working_buf_len-1
        BY <1>2, <3>2, <3>3
      <4>. QED BY <3>1, <3>2, <3>3, <4>1, <4>2
    <3>. QED BY <3>1, <3>3
  <2>2. CASE ctx.line_end # NULL
    <3>1. line_end = ctx.line_end
      BY <2>2
    <3>. HIDE DEF line_end
    <3>. QED BY <1>2, <2>2, <3>1
  <2>. QED BY <2>1, <2>2
<1>4. /\ line_end = NULL => Step(WaitForMore(c))
      /\ line_end # NULL /\ ~TwoDigits(hi, line_end) =>
           Step(ResetToStart(Count(c, "parse_errors")))
      /\ line_end # NULL /\ TwoDigits(hi, line_end) /\ computed # sum =>
           Step(ResetToStart(Count(c, "checksum_errors")))
      /\ line_end # NULL /\ TwoDigits(hi, line_end) /\ computed = sum =>
           Step([c EXCEPT !.parser_state = "SENTENCE_COMPLETE"])
  BY DEF FindEnd
<1>. HIDE DEF line_end
<1>5. line_end \in NULL..MaxLen /\ line_end \in Int
  BY <1>2, <1>3 DEF NULL
<1>6. /\ c \in Context /\ c.working_buf = ctx.working_buf
      /\ c.parse_pos = ctx.parse_pos /\ ~c.waiting_for_data
      /\ c.parser_state = "FIND_END" /\ c.line_end = line_end
  BY <1>1, <1>2, <1>5 DEF Context
<1>6a. sum = 2 * Digit(At(ctx.data_end + 1)) + Digit(At(ctx.data_end + 2))
  <2>1. (ctx.data_end + 1) + 1 = ctx.data_end + 2
    BY <1>2
  <2>. QED BY <2>1, Zenon
<1>. HIDE DEF c, hi, computed, sum
<1>7. CASE line_end = NULL
  <2>. DEFINE d == WaitForMore(c)
  <2>1. Step(d)
    BY <1>4, <1>7
  <2>2. /\ d \in Context /\ d.working_buf = ctx.working_buf
        /\ d.parse_pos = working_buf_len
        /\ d.parser_state = "FIND_END" /\ d.line_end = NULL
    BY <1>6, <1>7, WaitFacts
  <2>3. Moves(d)
    BY <2>1, StepMoves DEF IInv
  <2>. HIDE DEF d
  <2>4. Start' = Start /\ working_buf_len' = working_buf_len /\ ctx' = d
    BY <2>2, <2>3, BufferStays
  <2>5. WaitsInVain'
    BY <1>1, <2>2, <2>4 DEF WaitsInVain
  <2>. QED BY <1>1, <2>2, <2>4, <2>5 DEF Stays
<1>8. ASSUME NEW field \in StatNames, Step(ResetToStart(Count(c, field))),
             line_end # NULL, ~(TwoDigits(hi, line_end) /\ computed = sum)
      PROVE  WaitsInVain' /\ Rests /\ Rejected
  <2>1. Count(c, field) \in Context /\ ~Count(c, field).waiting_for_data
    BY <1>6, CountFacts, WaitingKept
  <2>2. Moves(ResetToStart(Count(c, field)))
    BY <1>8, StepMoves DEF IInv
  <2>3. WaitsInVain' /\ Rests
    BY <2>1, <2>2, ResetRests
  <2>4. Rejected
    BY <1>3, <1>6a, <1>8 DEF Rejected, computed, hi
  <2>. QED BY <2>3, <2>4
<1>9. CASE line_end # NULL /\ TwoDigits(hi, line_end) /\ computed = sum
  <2>. DEFINE d == [c EXCEPT !.parser_state = "SENTENCE_COMPLETE"]
  <2>1. Step(d)
    BY <1>4, <1>9
  <2>2. /\ d \in Context /\ d.working_buf = ctx.working_buf
        /\ d.parse_pos = ctx.parse_pos /\ ~d.waiting_for_data
        /\ d.parser_state = "SENTENCE_COMPLETE" /\ d.line_end = line_end
    BY <1>6 DEF Context, States
  <2>3. Moves(d)
    BY <2>1, StepMoves DEF IInv
  <2>. HIDE DEF d
  <2>4. Start' = Start /\ ctx' = d /\ \A o : At(o)' = At(o)
    BY <2>2, <2>3, BufferStays
  <2>5. ctx.parse_pos <= line_end /\ At(line_end) \in Eol
    BY <1>2, <1>3, <1>9
  <2>6. WaitsInVain'
    <3>1. /\ ~ctx'.waiting_for_data /\ at' = "loop"
          /\ ctx'.line_end = line_end /\ ctx'.parse_pos = ctx.parse_pos
      BY <1>1, <2>2, <2>4
    <3>2. At(ctx.line_end)' = At(line_end)
      BY <2>4, <3>1
    <3>. QED BY <2>5, <3>1, <3>2 DEF WaitsInVain
  <2>. QED BY <1>1, <2>2, <2>4, <2>6 DEF Stays
<1>. QED BY <1>1, <1>4, <1>7, <1>8, <1>9 DEF StatNames

LEMMA SentenceEndFacts ==
  ASSUME IInv, ctx.parser_state = "SENTENCE_COMPLETE"
  PROVE  /\ SentenceEnd \in ctx.line_end..working_buf_len
         /\ SentenceEnd \in Nat /\ ctx.line_end \in Nat
         /\ \A o \in ctx.line_end..working_buf_len-1 :
              o # ctx.data_end /\ At(o) \notin {"E", "N"} => SentenceEnd <= o
<1>. DEFINE T == {o \in ctx.line_end..working_buf_len-1 :
                    o # ctx.data_end /\ At(o) \notin {"E", "N"}}
            n == SentenceEnd
<1>1. ctx.line_end \in Nat /\ working_buf_len \in Nat /\ ctx.line_end < working_buf_len
  BY CompleteFacts
<1>2. T \in SUBSET Nat /\ \A o \in T : o \in ctx.line_end..working_buf_len-1 /\ o # NULL
  BY <1>1 DEF NULL
<1>3. n = IF Least(T) = NULL THEN working_buf_len ELSE Least(T)
  BY DEF SentenceEnd
<1>4. \/ T = {} /\ Least(T) = NULL
      \/ Least(T) \in T /\ \A o \in T : Least(T) <= o
  BY <1>2, LeastFacts
<1>5. /\ n \in ctx.line_end..working_buf_len
      /\ \A o \in T : n <= o
  <2>1. CASE T = {} /\ Least(T) = NULL
    BY <1>1, <1>3, <2>1
  <2>2. CASE Least(T) \in T /\ \A o \in T : Least(T) <= o
    <3>. DEFINE m == Least(T)
    <3>1. m \in ctx.line_end..working_buf_len-1 /\ m # NULL /\ \A o \in T : m <= o
      BY <1>2, <2>2
    <3>2. n = m
      BY <1>3, <3>1
    <3>. HIDE DEF T, n, m
    <3>. QED BY <1>1, <3>1, <3>2
  <2>. QED BY <1>4, <2>1, <2>2
<1>6. n \in Nat
  BY <1>1, <1>5
<1>. QED BY <1>1, <1>5, <1>6

LEMMA SentenceCompleteStream ==
  ASSUME IInv, WaitsInVain, SentenceComplete
  PROVE  /\ WaitsInVain' /\ UNCHANGED env /\ Rests /\ Start' = Start + SentenceEnd
         /\ \E e \in Entry :
              /\ log' = Append(log, e)
              /\ e.parsed = Parses /\ Len(e.bytes) = ctx.line_end
              /\ \A k \in 1..ctx.line_end : e.bytes[k] = Start + k
<1>. DEFINE c == IF Parses THEN [Count(ctx, "sentences_parsed") EXCEPT
                                   !.zda_century = Century]
                 ELSE Count(ctx, "parse_errors")
            b == SubSeq(ctx.working_buf, 1, ctx.line_end)
            e == [parsed |-> Parses,
                  told |-> IF Parses THEN ctx.parse_callback ELSE ctx.error_callback,
                  type |-> ctx.current_type,
                  century |-> IF ctx.current_type = "R" THEN ctx.zda_century ELSE 0,
                  bytes |-> b]
            n == SentenceEnd
            d == discard_bytes(c, n)
            f == Restart(d)
<1>1. /\ at = "parse" /\ ctx.parser_state = "SENTENCE_COMPLETE"
      /\ Step(f) /\ log' = Append(log, e) /\ UNCHANGED env
  BY DEF SentenceComplete, In, Step
<1>2. /\ ctx.line_end \in Nat /\ ctx.line_end < working_buf_len
      /\ working_buf_len \in Nat
  BY <1>1, CompleteFacts
<1>3. n \in 0..working_buf_len
  BY <1>1, <1>2, SentenceEndFacts
<1>4. /\ ctx \in Context /\ ~ctx.waiting_for_data /\ ctx.zda_century \in {0, 1}
      /\ Parses \in BOOLEAN /\ Century \in {0, 1}
  BY <1>1 DEF IInv, TypeOK, Context, Parses, Century, Digit, WaitsInVain
<1>5. c \in Context /\ c.working_buf = ctx.working_buf /\ ~c.waiting_for_data
  <2>1. CASE Parses
    <3>. DEFINE a == Count(ctx, "sentences_parsed")
    <3>1. a \in Context /\ a.working_buf = ctx.working_buf /\ ~a.waiting_for_data
      BY <1>4, CountFacts, WaitingKept DEF StatNames
    <3>2. c = [a EXCEPT !.zda_century = Century]
      BY <2>1
    <3>. HIDE DEF a, c
    <3>. QED BY <1>4, <3>1, <3>2 DEF Context
  <2>2. CASE ~Parses
    BY <1>4, <2>2, CountFacts, WaitingKept DEF StatNames
  <2>. QED BY <2>1, <2>2
<1>. HIDE DEF c, n
<1>6. /\ d \in Context /\ Len(d.working_buf) = working_buf_len - n
      /\ ~d.waiting_for_data
  BY <1>3, <1>5, DropFacts, WaitingKept DEF IInv
<1>. HIDE DEF d
<1>7. /\ f \in Context /\ f.working_buf = d.working_buf /\ ~f.waiting_for_data
      /\ f.parser_state = "FIND_START"
  BY <1>6, RestartFacts, WaitingKept
<1>8. Moves(f)
  BY <1>1, StepMoves DEF IInv
<1>. HIDE DEF f
<1>9. WaitsInVain' /\ Rests /\ Start' = Start + n
  BY <1>3, <1>6, <1>7, <1>8, DropRests
<1>10. /\ b \in Seq(1..MaxStream) /\ Len(b) = ctx.line_end
       /\ \A k \in 1..ctx.line_end : b[k] = Start + k
  <2>1. ctx.line_end \in 0..Len(ctx.working_buf)
        /\ ctx.working_buf \in Seq(1..Len(accepted))
        /\ 1..Len(accepted) \subseteq 1..MaxStream
    BY <1>2, BufferFacts DEF IInv
  <2>2. /\ b \in Seq(1..Len(accepted)) /\ Len(b) = ctx.line_end
        /\ \A k \in 1..ctx.line_end : b[k] = ctx.working_buf[k]
    BY <2>1, PrefixFacts
  <2>3. \A k \in 1..ctx.line_end : k \in 1..working_buf_len
    BY <1>2
  <2>4. \A k \in 1..working_buf_len : ctx.working_buf[k] = Start + k
    BY DEF IInv, Window
  <2>. HIDE DEF b
  <2>5. b \in Seq(1..MaxStream)
    BY <2>1, <2>2, SeqMonotonic
  <2>. QED BY <2>2, <2>3, <2>4, <2>5
<1>11. e \in Entry /\ e.parsed = Parses /\ e.bytes = b
  <2>1. /\ ctx.parse_callback \in BOOLEAN /\ ctx.error_callback \in BOOLEAN
        /\ ctx.current_type \in Symbols
    BY <1>4 DEF Context
  <2>. HIDE DEF b
  <2>. QED BY <1>4, <1>10, <2>1 DEF Entry
<1>. HIDE DEF e, b
<1>. QED BY <1>1, <1>9, <1>10, <1>11 DEF n
-----------------------------------------------------------------------------
(* The other steps. *)

(* What was in the working buffer is still there. *)
LEMMA StaysVain ==
  ASSUME IInv, WaitsInVain,
         ctx'.parser_state = ctx.parser_state, ctx'.parse_pos = ctx.parse_pos,
         ctx'.data_end = ctx.data_end, ctx'.line_end = ctx.line_end,
         \A o \in 0..working_buf_len-1 : At(o)' = At(o),
         ctx'.waiting_for_data =>
           ctx.waiting_for_data /\ at' \in {"idle", "loop", "fill"}
           /\ working_buf_len' = working_buf_len,
         at' = "idle" /\ ring' = <<>> =>
           ctx'.waiting_for_data \/ working_buf_len' <= ctx.parse_pos
  PROVE  WaitsInVain'
<1>1. ASSUME ctx.parser_state \in {"FIND_END", "SENTENCE_COMPLETE"}, ctx.line_end # NULL
      PROVE  ctx.parse_pos <= ctx.line_end /\ At(ctx.line_end)' \in Eol
  <2>1. ctx.line_end \in 0..working_buf_len-1
    <3>1. /\ HdrLen < ctx.data_end /\ ctx.data_end <= ctx.line_end
          /\ ctx.line_end < working_buf_len
          /\ ctx.data_end \in Int /\ ctx.line_end \in Int
      BY <1>1, StartFacts DEF IInv, IndicesInBuffer, Context, NULL
    <3>. QED BY <3>1, StartFacts, WorkAssumption
  <2>2. At(ctx.line_end)' = At(ctx.line_end)
    BY <2>1
  <2>. QED BY <1>1, <2>2 DEF WaitsInVain
<1>2. ctx'.waiting_for_data =>
        /\ at' \in {"idle", "loop", "fill"}
        /\ \/ ctx'.parser_state = "FIND_TALKER_AND_TYPE" /\ working_buf_len' <= HdrLen
           \/ /\ ctx'.parser_state \in {"FIND_CHECKSUM_OR_END", "FIND_END"}
              /\ ctx'.parse_pos = working_buf_len'
  BY DEF WaitsInVain
<1>. QED BY <1>1, <1>2 DEF WaitsInVain

LEMMA QuietStream ==
  ASSUME IInv, WaitsInVain, SameState, UNCHANGED <<stream, accepted, ring>>,
         ctx'.waiting_for_data =>
           ctx.waiting_for_data /\ at' \in {"idle", "loop", "fill"},
         at' = "idle" /\ ring = <<>> =>
           ctx'.waiting_for_data \/ working_buf_len <= ctx.parse_pos
  PROVE  WaitsInVain' /\ Stays
<1>1. /\ working_buf_len' = working_buf_len /\ Popped' = Popped
      /\ \A o : At(o)' = At(o)
  BY DEF SameState, working_buf_len, Popped, At, Sym
<1>2. Stays
  BY <1>1 DEF Stays, Start, SameState
<1>3. WaitsInVain'
  BY <1>1, StaysVain DEF SameState
<1>. QED BY <1>2, <1>3

LEMMA CallStream ==
  ASSUME IInv, WaitsInVain, Call \/ Loop \/ Check \/ UNCHANGED vars
  PROVE  WaitsInVain' /\ Stays /\ UNCHANGED <<env, log>>
<1>1. SameState /\ UNCHANGED <<env, ctx, log>>
  BY DEF Call, Loop, Check, vars, SameState
<1>2. CASE Call
  BY <1>1, <1>2, QuietStream DEF Call, env
<1>3. CASE Loop
  <2>1. at' \in {"idle", "fill"} /\ (at' = "idle" => NothingToDo)
    BY <1>3 DEF Loop
  <2>. QED BY <1>1, <1>3, <2>1, QuietStream DEF Loop, env, NothingToDo
<1>4. CASE Check
  <2>1. ~ctx.waiting_for_data
    BY <1>4 DEF Check, WaitsInVain
  <2>2. at' = "idle" => working_buf_len = ctx.parse_pos
    BY <1>4 DEF Check
  <2>3. working_buf_len \in Nat
    BY StartFacts
  <2>. QED BY <1>1, <1>4, <2>1, <2>2, <2>3, QuietStream DEF Check, env
<1>5. CASE UNCHANGED vars
  <2>1. UNCHANGED <<ring, at>>
    BY <1>5 DEF vars
  <2>. QED BY <1>1, <2>1, QuietStream DEF env, WaitsInVain
<1>. QED BY <1>2, <1>3, <1>4, <1>5

LEMMA SetCallbackStream ==
  ASSUME IInv, WaitsInVain,
         NEW set \in BOOLEAN, SetParseCallback(set) \/ SetErrorCallback(set)
  PROVE  WaitsInVain' /\ Stays /\ UNCHANGED <<env, log>>
<1>1. ctx \in Context /\ UNCHANGED <<env, ring, at, log>> /\ at = "idle"
  BY StartFacts DEF SetParseCallback, SetErrorCallback
<1>2. SameState /\ ctx'.waiting_for_data = ctx.waiting_for_data
  BY <1>1 DEF SetParseCallback, SetErrorCallback, SameState, Context
<1>3. at' = "idle" /\ ring = <<>> =>
        ctx'.waiting_for_data \/ working_buf_len <= ctx.parse_pos
  BY <1>1, <1>2 DEF WaitsInVain
<1>. QED BY <1>1, <1>2, <1>3, QuietStream DEF env

LEMMA FillStream ==
  ASSUME IInv, WaitsInVain, Fill
  PROVE  /\ WaitsInVain' /\ UNCHANGED <<env, log>>
         /\ \/ Stays
            \/ Rests /\ Overran
<1>. DEFINE space  == MaxLen - working_buf_len
            to_pop == IF bytes_avail < space THEN bytes_avail ELSE space
<1>1. /\ at = "fill" /\ at' = "check" /\ UNCHANGED <<env, log>>
      /\ UNCHANGED <<stream, accepted>> /\ bytes_avail' = 0
  BY DEF Fill, env
<1>2. ctx \in Context
  BY StartFacts
<1>3. CASE to_pop > 0
  <2>1. /\ Ring!Take(to_pop)
        /\ ctx' = [ctx EXCEPT !.working_buf = @ \o got', !.waiting_for_data = FALSE]
    BY <1>3 DEF Fill
  <2>. DEFINE n == to_pop
              A == Len(accepted)
              w == ctx.working_buf
              b == w \o got'
  <2>2. /\ n \in Nat /\ n <= Len(ring) /\ ring \in Seq(1..A) /\ w \in Seq(1..A)
        /\ Len(ring) \in Nat /\ Len(w) \in Nat /\ A \in Nat
        /\ ring' = SubSeq(ring, n + 1, Len(ring)) /\ got' = SubSeq(ring, 1, n)
    <3>1. n \in Int /\ n > 0
      BY <1>3, StartFacts, WorkAssumption
    <3>2. n <= Len(ring) /\ ring' = SubSeq(ring, n + 1, Len(ring))
          /\ got' = SubSeq(ring, 1, n)
      BY <2>1 DEF Ring!Take
    <3>3. ring \in Seq(1..A) /\ w \in Seq(1..A)
      BY DEF IInv, TypeOK
    <3>4. Len(ring) \in Nat /\ Len(w) \in Nat /\ A \in Nat
      BY ContextFacts, <3>3, LenProperties DEF IInv
    <3>. HIDE DEF n
    <3>. QED BY <3>1, <3>2, <3>3, <3>4
  <2>. HIDE DEF n
  <2>3. /\ Len(ring') = Len(ring) - n
        /\ got' \in Seq(1..A) /\ Len(got') = n
    <3>1. n \in 0..Len(ring)
      BY <2>2
    <3>2. Len(SubSeq(ring, n + 1, Len(ring))) = Len(ring) - n
      BY <2>2, <3>1, SuffixFacts
    <3>3. SubSeq(ring, 1, n) \in Seq(1..A) /\ Len(SubSeq(ring, 1, n)) = n
      BY <2>2, <3>1, PrefixFacts
    <3>. QED BY <2>2, <3>2, <3>3, Zenon
  <2>4. /\ Len(b) = Len(w) + n
        /\ \A i \in 1..Len(w) : b[i] = w[i]
    <3>. DEFINE g == got'
    <3>1. w \in Seq(1..A) /\ g \in Seq(1..A) /\ Len(g) = n /\ Len(w) \in Nat /\ n \in Nat
      BY <2>2, <2>3
    <3>2. b = w \o g
      OBVIOUS
    <3>. HIDE DEF w, A, g, b
    <3>3. /\ Len(w \o g) = Len(w) + Len(g)
          /\ \A i \in 1..Len(w)+Len(g) : (w \o g)[i] =
               IF i <= Len(w) THEN w[i] ELSE g[i - Len(w)]
      BY <3>1, ConcatProperties, Zenon
    <3>. DEFINE wg == w \o g
    <3>. HIDE DEF wg
    <3>4. /\ Len(wg) = Len(w) + n
          /\ \A i \in 1..Len(w)+n : wg[i] = IF i <= Len(w) THEN w[i] ELSE g[i - Len(w)]
      BY <3>1, <3>3, Zenon DEF wg
    <3>5. \A i \in 1..Len(w) : wg[i] = w[i]
      BY <3>1, <3>4
    <3>6. b = wg
      BY <3>2, Zenon DEF wg
    <3>. QED BY <3>4, <3>5, <3>6, Zenon
  <2>5. ctx' = [ctx EXCEPT !.working_buf = b, !.waiting_for_data = FALSE]
    BY <1>2, <2>1 DEF Context
  <2>. HIDE DEF b
  <2>6. /\ ctx'.working_buf = b /\ ~ctx'.waiting_for_data
        /\ ctx'.parser_state = ctx.parser_state /\ ctx'.parse_pos = ctx.parse_pos
        /\ ctx'.data_end = ctx.data_end /\ ctx'.line_end = ctx.line_end
    BY <1>2, <2>5 DEF Context
  <2>7. Start' = Start
    <3>1. Start' = (A - Len(ring')) - Len(b)
      BY <1>1, <2>6 DEF Start, Popped, working_buf_len
    <3>2. Start = (A - Len(ring)) - Len(w)
      BY DEF Start, Popped, working_buf_len
    <3>3. Len(ring') \in Int /\ Len(b) \in Int
      BY <2>2, <2>3, <2>4
    <3>. HIDE DEF A, w
    <3>. QED BY <2>2, <2>3, <2>4, <3>1, <3>2
  <2>8. ASSUME NEW o \in 0..working_buf_len-1 PROVE At(o)' = At(o)
    <3>1. o + 1 \in 1..Len(w)
      BY StartFacts DEF working_buf_len
    <3>. QED BY <1>1, <2>4, <2>6, <3>1 DEF At, Sym
  <2>9. WaitsInVain'
    BY <1>1, <2>6, <2>8, StaysVain
  <2>. QED BY <1>1, <2>6, <2>7, <2>9 DEF Stays
<1>4. CASE ~(to_pop > 0) /\ Overran
  <2>. DEFINE c == [Count(ctx, "buffer_overflows") EXCEPT !.waiting_for_data = FALSE]
  <2>1. ctx' = ResetToStart(c) /\ UNCHANGED <<ring, got>>
    BY <1>4 DEF Fill
  <2>2. Moves(ResetToStart(c))
    BY <1>1, <2>1 DEF Moves
  <2>3. Count(ctx, "buffer_overflows") \in Context
    BY <1>2, CountFacts DEF StatNames
  <2>4. c \in Context /\ ~c.waiting_for_data
    BY <2>3 DEF Context
  <2>. HIDE DEF c
  <2>. QED BY <1>1, <1>4, <2>2, <2>4, ResetRests
<1>5. CASE ~(to_pop > 0) /\ ~Overran
  <2>1. ctx' = [ctx EXCEPT !.waiting_for_data = FALSE] /\ UNCHANGED <<ring, got>>
    BY <1>5 DEF Fill
  <2>2. SameState /\ ~ctx'.waiting_for_data
    BY <1>2, <2>1 DEF Context, SameState
  <2>. QED BY <1>1, <2>1, <2>2, QuietStream
<1>. QED BY <1>3, <1>4, <1>5

LEMMA FeedStream ==
  ASSUME IInv, InPlace, WaitsInVain, NEW n \in Chunks, Feed(n)
  PROVE  /\ WaitsInVain' /\ InPlace' /\ Stays /\ UNCHANGED <<plan, stream, log>>
         /\ Lossless' => Lossless
         /\ \A b \in 1..Len(accepted) : accepted'[b] = accepted[b]
<1>. DEFINE A == Len(accepted)
            R == Len(ring)
<1>1. PICK m \in 0..n :
        /\ n \in Nat /\ fed \in Nat /\ fed' = fed + n
        /\ UNCHANGED <<plan, stream, ctx, at, log>>
        /\ A \in Nat /\ R \in Nat /\ A <= fed
        /\ Len(accepted') = A + m
        /\ \A b \in 1..A : accepted'[b] = accepted[b]
        /\ \A b \in A+1..A+m : accepted'[b] = fed + (b - A)
        /\ ring' \in Seq(1..A+m) /\ Len(ring') = R + m
  BY FeedFacts
<1>2. m \in Nat /\ m <= n
  BY <1>1
<1>3. Start' = Start /\ working_buf_len' = working_buf_len
  <2>1. working_buf_len' = working_buf_len
    BY <1>1 DEF working_buf_len
  <2>2. Popped' = Popped
    BY <1>1, <1>2 DEF Popped
  <2>. QED BY <2>1, <2>2 DEF Start
<1>4. ASSUME NEW o \in 0..working_buf_len-1 PROVE At(o)' = At(o)
  <2>1. o + 1 \in 1..working_buf_len
    BY StartFacts
  <2>2. ctx.working_buf[o + 1] \in 1..A
    BY <2>1, ContextFacts DEF IInv
  <2>. QED BY <1>1, <2>2 DEF At, Sym
<1>5. ring' = <<>> => ring = <<>>
  <2>1. ring' = <<>> => R = 0
    BY <1>1, <1>2, EmptySeq
  <2>2. ring \in Seq(1..A)
    BY DEF IInv, TypeOK
  <2>. QED BY <2>1, <2>2, EmptySeq
<1>6. WaitsInVain'
  <2>1. ctx.waiting_for_data => at \in {"idle", "loop", "fill"}
    BY DEF WaitsInVain
  <2>2. at = "idle" /\ ring = <<>> =>
          ctx.waiting_for_data \/ working_buf_len <= ctx.parse_pos
    BY DEF WaitsInVain
  <2>. QED BY <1>1, <1>3, <1>4, <1>5, <2>1, <2>2, StaysVain
<1>7. Lossless' => m = n /\ A = fed
  BY <1>1, <1>2 DEF Lossless
<1>8. ASSUME Lossless' PROVE \A b \in 1..A+m : accepted'[b] = b
  <2>1. A = fed
    BY <1>7, <1>8
  <2>2. ASSUME NEW b \in 1..A PROVE accepted'[b] = b
    BY <1>1, <2>1 DEF InPlace, Lossless
  <2>3. ASSUME NEW b \in A+1..A+m PROVE accepted'[b] = b
    <3>1. accepted'[b] = fed + (b - A)
      BY <1>1
    <3>. QED BY <1>1, <2>1, <3>1
  <2>. QED BY <1>1, <1>2, <2>2, <2>3
<1>9. InPlace'
  <2>1. plan' \in Plans /\ stream' = Concat(plan')
    BY <1>1 DEF InPlace
  <2>. QED BY <1>1, <1>8, <2>1 DEF InPlace
<1>. QED BY <1>1, <1>3, <1>6, <1>7, <1>9 DEF Stays, Lossless

LEMMA ReinitStream ==
  ASSUME IInv, InPlace, Reinit
  PROVE  /\ WaitsInVain' /\ InPlace' /\ UNCHANGED <<plan, stream>> /\ log' = <<>>
         /\ ctx'.parser_state = "FIND_START" /\ Start' = 0
<1>1. /\ ctx' = Reset(ctx, TRUE, TRUE) /\ at = "idle" /\ at' = "idle"
      /\ ring' = <<>> /\ accepted' = <<>> /\ log' = <<>>
      /\ UNCHANGED <<plan, stream, fed>> /\ ctx \in Context
  BY StartFacts DEF Reinit
<1>2. /\ ctx'.working_buf = <<>> /\ ctx'.parse_pos = 0
      /\ ctx'.parser_state = "FIND_START"
  BY <1>1, ResetFacts
<1>3. ~ctx'.waiting_for_data
  BY <1>1 DEF Reset, Context
<1>4. working_buf_len' = 0 /\ Len(accepted') = 0 /\ Len(ring') = 0 /\ Len(<<>>) = 0
  BY <1>1, <1>2, EmptySeq DEF working_buf_len
<1>5. WaitsInVain'
  BY <1>2, <1>3, <1>4 DEF WaitsInVain
<1>6. Start' = 0
  BY <1>4 DEF Start, Popped
<1>7. InPlace'
  <2>1. plan' \in Plans /\ stream' = Concat(plan')
    BY <1>1 DEF InPlace
  <2>. QED BY <1>1, <1>4, <2>1 DEF InPlace
<1>. QED BY <1>1, <1>2, <1>5, <1>6, <1>7

(* A step that feeds nothing leaves every byte in its place. *)
LEMMA PlaceKept ==
  ASSUME InPlace, UNCHANGED env
  PROVE  /\ InPlace' /\ UNCHANGED <<plan, stream>> /\ (Lossless' => Lossless)
         /\ \A b \in 1..Len(accepted) : accepted'[b] = accepted[b]
<1>1. UNCHANGED <<plan, stream, fed, accepted>>
  BY DEF env
<1>. QED BY <1>1 DEF InPlace, Lossless

(* Every step but another tiny_nmea_init. *)
LEMMA StepStream ==
  ASSUME IInv, InPlace, WaitsInVain, [Next]_vars, ~Reinit
  PROVE  /\ WaitsInVain' /\ InPlace' /\ UNCHANGED <<plan, stream>>
         /\ Lossless' => Lossless
         /\ \A b \in 1..Len(accepted) : accepted'[b] = accepted[b]
         /\ \/ UNCHANGED log /\ Stays
            \/ UNCHANGED <<env, log>> /\ Fill /\ Rests /\ Overran
            \/ UNCHANGED <<env, log>> /\ FindStart
            \/ UNCHANGED <<env, log>> /\ FindTalkerAndType
            \/ UNCHANGED <<env, log>> /\ FindEnd
            \/ UNCHANGED env /\ SentenceComplete
<1>1. CASE \E n \in Chunks : Feed(n)
  BY <1>1, FeedStream
<1>2. CASE Call \/ Loop \/ Check \/ UNCHANGED vars
  BY <1>2, CallStream, PlaceKept
<1>3. CASE Fill
  BY <1>3, FillStream, PlaceKept
<1>4. CASE FindStart
  BY <1>4, FindStartStream, PlaceKept
<1>5. CASE FindTalkerAndType
  BY <1>5, FindTalkerAndTypeStream, PlaceKept
<1>6. CASE FindChecksumOrEnd
  BY <1>6, FindChecksumOrEndStream, PlaceKept
<1>7. CASE FindEnd
  BY <1>7, FindEndStream, PlaceKept
<1>8. CASE SentenceComplete
  BY <1>8, SentenceCompleteStream, PlaceKept
<1>9. CASE \E set \in BOOLEAN : SetParseCallback(set) \/ SetErrorCallback(set)
  BY <1>9, SetCallbackStream, PlaceKept
<1>. QED BY <1>1, <1>2, <1>3, <1>4, <1>5, <1>6, <1>7, <1>8, <1>9
         DEF Next, Work, Fsm
-----------------------------------------------------------------------------
(* The state machine and a good sentence it is in step with.                *)

(* When it rests it has nothing, or no line end after the header.           *)
LEMMA RestsBeforeLineEnd ==
  ASSUME IInv, WaitsInVain, ctx.waiting_for_data \/ working_buf_len <= ctx.parse_pos
  PROVE  \/ /\ ctx.parser_state = "FIND_START"
            /\ ~ctx.waiting_for_data /\ working_buf_len = 0
         \/ /\ ctx.parser_state # "FIND_START"
            /\ working_buf_len <= HdrLen \/ Free(Eol, Data, working_buf_len)
<1>1. /\ ctx.parser_state \in States /\ ctx.parse_pos \in Nat /\ ctx.line_end \in Int
      /\ working_buf_len \in Nat /\ HdrLen \in Nat /\ HdrLen > 1 /\ Data \in Nat
  <2>1. ctx \in Context /\ working_buf_len \in Nat
    BY StartFacts
  <2>2. MaxLen \in Nat /\ HdrLen \in Nat /\ HdrLen > 1
    BY WorkAssumption
  <2>. QED BY <2>1, <2>2 DEF Context, NULL, Data
<1>2. IndicesInBuffer /\ FoundSoFar
  BY DEF IInv
<1>. HIDE DEF working_buf_len
<1>3. CASE ctx.parser_state = "FIND_START"
  <2>1. ~ctx.waiting_for_data
    BY <1>3 DEF WaitsInVain
  <2>2. ctx.parse_pos = 0
    BY <1>2, <1>3 DEF IndicesInBuffer
  <2>. QED BY <1>1, <1>3, <2>1, <2>2
<1>4. CASE ctx.parser_state = "FIND_TALKER_AND_TYPE"
  <2>1. ctx.parse_pos = 1
    BY <1>2, <1>4 DEF IndicesInBuffer
  <2>2. ctx.waiting_for_data => working_buf_len <= HdrLen
    BY <1>4 DEF WaitsInVain
  <2>. QED BY <1>1, <1>4, <2>1, <2>2
<1>5. CASE ctx.parser_state = "FIND_CHECKSUM_OR_END"
  <2>1. working_buf_len <= ctx.parse_pos
    BY <1>1, <1>5 DEF WaitsInVain
  <2>2. Free({"*"} \cup Eol, Data, ctx.parse_pos)
    BY <1>2, <1>5 DEF FoundSoFar
  <2>. QED BY <1>1, <1>5, <2>1, <2>2 DEF Free
<1>6. CASE ctx.parser_state \in {"FIND_END", "SENTENCE_COMPLETE"}
  <2>1. working_buf_len <= ctx.parse_pos
    BY <1>1, <1>6 DEF WaitsInVain
  <2>2. ctx.line_end = NULL
    <3>. SUFFICES ASSUME ctx.line_end # NULL PROVE FALSE
      OBVIOUS
    <3>1. ctx.parse_pos <= ctx.line_end
      BY <1>6 DEF WaitsInVain
    <3>2. ctx.line_end < working_buf_len
      BY <1>2, <1>6 DEF IndicesInBuffer
    <3>. QED BY <1>1, <2>1, <3>1, <3>2
  <2>3. ctx.parser_state = "FIND_END"
    BY <1>2, <1>6, <2>2 DEF IndicesInBuffer
  <2>4. Free(Eol, Data, ctx.parse_pos)
    BY <1>2, <2>2, <2>3 DEF FoundSoFar
  <2>. QED BY <1>1, <1>6, <2>1, <2>4 DEF Free
<1>. QED BY <1>1, <1>3, <1>4, <1>5, <1>6 DEF States

LEMMA RestsInside ==
  ASSUME IInv, InPlace, Lossless, WaitsInVain,
         ctx.waiting_for_data \/ working_buf_len <= ctx.parse_pos,
         ctx.parser_state # "FIND_START", NEW L, Whole(Start, L)
  PROVE  working_buf_len <= L
<1>1. working_buf_len <= HdrLen \/ Free(Eol, Data, working_buf_len)
  BY RestsBeforeLineEnd
<1>2. working_buf_len \in Nat
  BY StartFacts
<1>. QED BY <1>1, <1>2, WholeLength, NoLineEndYet

LEMMA InStepKept ==
  ASSUME Stays, UNCHANGED <<plan, stream>>, NEW i, InStep(i)
  PROVE  InStep(i)'
BY DEF Stays, InStep, Before

(* A step keeps what was sent and accepted, and the sentences completed.    *)
Keeps == /\ UNCHANGED <<plan, stream>>
         /\ \A b \in 1..Len(accepted) : accepted'[b] = accepted[b]
         /\ \A k \in DOMAIN log : k \in DOMAIN log' /\ log'[k] = log[k]

LEMMA PieceKept ==
  ASSUME IInv, Keeps, NEW k \in DOMAIN log, NEW i
  PROVE  /\ k \in DOMAIN log' /\ log'[k] = log[k]
         /\ IsPiece(log[k], i)' <=> IsPiece(log[k], i)
<1>. DEFINE e == log[k]
<1>1. /\ DOMAIN e.bytes = 1..Len(e.bytes)
      /\ \A m \in DOMAIN e.bytes : e.bytes[m] \in 1..Len(accepted)
  BY LogFacts DEF IInv
<1>2. k \in DOMAIN log' /\ log'[k] = e
  BY DEF Keeps
<1>. HIDE DEF e
<1>3. \A m \in 1..Len(e.bytes) :
        stream'[accepted'[e.bytes[m]]] = stream[accepted[e.bytes[m]]]
  BY <1>1 DEF Keeps
<1>4. Text(log[k].bytes)' = Text(e.bytes)
  BY <1>2, <1>3 DEF Text, Sym
<1>. QED BY <1>2, <1>4 DEF IsPiece, e, Keeps

LEMMA ParsedKept ==
  ASSUME IInv, Keeps, NEW i, PieceParsed(i)
  PROVE  PieceParsed(i)'
<1>1. PICK k \in DOMAIN log : IsPiece(log[k], i) /\ log[k].bytes[1] = Before(i) + 1
  BY DEF PieceParsed
<1>2. k \in DOMAIN log' /\ log'[k] = log[k] /\ IsPiece(log[k], i)'
  BY <1>1, PieceKept
<1>3. log'[k].bytes[1] = Before(i)' + 1
  BY <1>1, <1>2 DEF Before, Keeps
<1>. QED BY <1>2, <1>3 DEF PieceParsed

LEMMA StepKeepsPast ==
  ASSUME IInv, InPlace, WaitsInVain, [Next]_vars, ~Reinit
  PROVE  Keeps
<1>1. /\ UNCHANGED <<plan, stream>>
      /\ \A b \in 1..Len(accepted) : accepted'[b] = accepted[b]
      /\ UNCHANGED log \/ SentenceComplete
  BY StepStream
<1>2. CASE SentenceComplete
  <2>1. PICK e \in Entry : log' = Append(log, e)
    BY <1>2, SentenceCompleteStream
  <2>2. log \in Seq(Entry)
    BY DEF IInv, TypeOK
  <2>3. /\ Len(log) \in Nat /\ DOMAIN log = 1..Len(log)
        /\ DOMAIN log' = 1..Len(log)+1
        /\ \A k \in 1..Len(log) : log'[k] = log[k]
    BY <2>1, <2>2, AppendProperties, LenProperties
  <2>4. \A k \in DOMAIN log : k \in DOMAIN log' /\ log'[k] = log[k]
    BY <2>3
  <2>. QED BY <1>1, <2>4 DEF Keeps
<1>3. CASE UNCHANGED log
  BY <1>1, <1>3 DEF Keeps
<1>. QED BY <1>1, <1>2, <1>3

(* A piece that the state machine is in step with, and the one after it.    *)
InStepWith(i) == /\ InStep(i)
                 /\ i <= Len(plan) => IsWhole(plan[i])
                 /\ i < Len(plan) => IsWhole(plan[i + 1])

LEMMA InStepFacts ==
  ASSUME IInv, InPlace, Lossless, NEW i, InStepWith(i)
  PROVE  /\ i \in Nat /\ i >= 1 /\ i <= Len(plan) + 1 /\ Len(plan) \in Nat
         /\ Before(i) \in Nat /\ Before(i) <= Len(stream) /\ Len(stream) \in Nat
         /\ i <= Len(plan) => /\ Whole(Before(i), BodyLen(plan[i]))
                              /\ stream[Before(i) + 1] = "$"
                              /\ plan[i] \in Seq(Symbols) /\ IsWhole(plan[i])
         /\ i = Len(plan) + 1 => Before(i) = Len(stream)
<1>. DEFINE n == Len(plan)
<1>1. n \in Nat /\ i \in 1..n+1
  BY PlanFacts DEF InStepWith, InStep
<1>2. /\ \A j \in 1..n+1 : Before(j) \in Nat
      /\ \A j \in 1..n+1 : \A k \in j..n+1 : Before(j) <= Before(k)
      /\ Before(n + 1) = Len(stream) /\ Len(stream) \in Nat
      /\ \A j \in 1..n : plan[j] \in Seq(Symbols)
  BY PlanFacts
<1>. HIDE DEF n
<1>3. i \in Nat /\ i >= 1 /\ i <= n + 1 /\ n + 1 \in i..n+1
  BY <1>1
<1>4. Before(i) \in Nat /\ Before(i) <= Len(stream)
  BY <1>1, <1>2, <1>3
<1>5. ASSUME i <= n
      PROVE  /\ Whole(Before(i), BodyLen(plan[i])) /\ stream[Before(i) + 1] = "$"
             /\ plan[i] \in Seq(Symbols) /\ IsWhole(plan[i])
  <2>1. i \in 1..n /\ IsWhole(plan[i])
    BY <1>1, <1>5 DEF InStepWith, n
  <2>2. Whole(Before(i), BodyLen(plan[i]))
    BY <2>1, WholeFacts DEF n
  <2>. QED BY <1>2, <2>1, <2>2 DEF Whole
<1>. QED BY <1>1, <1>2, <1>3, <1>4, <1>5 DEF n

LEMMA InStepOverran ==
  ASSUME IInv, InPlace, Lossless, WaitsInVain, NEW i, InStepWith(i)
  PROVE  ~Overran
<1>. SUFFICES ASSUME Overran PROVE FALSE
  OBVIOUS
<1>1. working_buf_len = MaxLen /\ ctx.waiting_for_data
  BY DEF Overran
<1>2. ctx.parser_state # "FIND_START"
  BY <1>1, RestsBeforeLineEnd
<1>3. Start = Before(i) /\ i <= Len(plan)
  BY <1>2 DEF InStepWith, InStep
<1>4. Whole(Start, BodyLen(plan[i]))
  BY <1>3, InStepFacts
<1>5. working_buf_len <= BodyLen(plan[i])
  BY <1>1, <1>2, <1>4, RestsInside
<1>. QED BY <1>1, <1>4, <1>5, WholeLength

(* Where the next start is found: at a good sentence it was looking for.    *)
LEMMA FindsStart ==
  ASSUME IInv, InPlace, Lossless, NEW B \in Nat, Start <= B,
         B < Len(stream) => stream[B + 1] = "$",
         NEW start \in 0..working_buf_len, Free({"$"}, 0, start)
  PROVE  Start + start <= B \/ B >= Len(stream)
<1>. SUFFICES ASSUME B < Start + start, B < Len(stream) PROVE FALSE
  <2>1. Start \in Nat /\ working_buf_len \in Nat /\ Len(stream) \in Nat
    BY OffsetFacts
  <2>. QED BY <2>1
<1>1. Start \in Nat /\ working_buf_len \in Nat
  BY OffsetFacts
<1>. DEFINE o == B - Start
<1>2. o \in 0..start-1 /\ o \in 0..working_buf_len-1 /\ Start + o + 1 = B + 1
  BY <1>1
<1>. HIDE DEF o
<1>3. At(o) = "$"
  BY <1>2, OffsetFacts
<1>. QED BY <1>2, <1>3 DEF Free

LEMMA InStepFindStart ==
  ASSUME IInv, InPlace, Lossless, WaitsInVain, NEW i, InStepWith(i),
         FindStart
  PROVE  InStep(i)'
<1>. DEFINE B == Before(i)
<1>1. /\ UNCHANGED <<plan, stream>> /\ ctx.parser_state = "FIND_START"
      /\ \/ Rests /\ Start' = Popped /\ Free({"$"}, 0, working_buf_len)
         \/ Finds
  <2>1. /\ UNCHANGED env
        /\ \/ Rests /\ Start' = Popped /\ Free({"$"}, 0, working_buf_len)
           \/ Finds
    BY FindStartStream
  <2>. QED BY <2>1 DEF env, FindStart, In
<1>2. B' = B /\ Len(plan') = Len(plan)
  BY <1>1 DEF Before
<1>3. /\ i \in 1..Len(plan)+1 /\ Start <= B
      /\ \A b \in Start+1..B : stream[b] # "$"
  BY <1>1 DEF InStepWith, InStep
<1>4. /\ B \in Nat /\ B <= Len(stream) /\ Len(stream) \in Nat
      /\ Start \in Nat /\ working_buf_len \in Nat
      /\ Popped = Start + working_buf_len /\ Popped <= Len(stream)
      /\ Len(plan) \in Nat
  BY InStepFacts, OffsetFacts
<1>5. B < Len(stream) => stream[B + 1] = "$" /\ i <= Len(plan)
  <2>1. i <= Len(plan) \/ i = Len(plan) + 1
    BY <1>3, <1>4
  <2>. QED BY <1>4, <2>1, InStepFacts
<1>. HIDE DEF B, working_buf_len
<1>6. CASE Rests /\ Start' = Popped /\ Free({"$"}, 0, working_buf_len)
  <2>1. working_buf_len \in 0..working_buf_len
    BY <1>4
  <2>2. Popped <= B \/ B >= Len(stream)
    BY <1>3, <1>4, <1>5, <1>6, <2>1, FindsStart
  <2>3. Start' <= B /\ Start' \in Nat /\ Start <= Start'
    BY <1>4, <1>6, <2>2
  <2>4. ASSUME NEW b \in Start'+1..B PROVE stream'[b] # "$"
    <3>. DEFINE s == Start
                t == Start'
    <3>1. s \in Nat /\ t \in Nat /\ B \in Nat /\ s <= t /\ b \in t+1..B
      BY <1>4, <2>3
    <3>. HIDE DEF s, t
    <3>2. b \in s+1..B
      BY <3>1
    <3>. QED BY <1>1, <1>3, <3>2 DEF s
  <2>. QED BY <1>2, <1>3, <1>6, <2>3, <2>4 DEF InStep, Rests, B
<1>7. CASE Finds
  <2>1. PICK start \in 0..working_buf_len-1 :
          /\ At(start) = "$" /\ Free({"$"}, 0, start)
          /\ Start' = Start + start /\ ctx'.parser_state # "FIND_START"
    BY <1>7 DEF Finds
  <2>2. start \in Nat /\ start \in 0..working_buf_len /\ start < working_buf_len
    BY <1>4, <2>1
  <2>3. stream[Start + start + 1] = "$"
    BY <2>1, OffsetFacts
  <2>4. ~(Start + start + 1 \in Start+1..B)
    BY <1>3, <2>3
  <2>5. B <= Start + start
    BY <1>3, <1>4, <2>2, <2>4
  <2>6. B < Len(stream)
    BY <1>4, <2>2, <2>5
  <2>7. Start + start <= B
    BY <1>3, <1>4, <1>5, <2>1, <2>2, <2>6, FindsStart
  <2>8. Start' = B
    BY <1>4, <2>1, <2>2, <2>5, <2>7
  <2>. QED BY <1>2, <1>3, <1>5, <2>1, <2>6, <2>8 DEF InStep, B
<1>. QED BY <1>1, <1>6, <1>7

LEMMA InStepHeader ==
  ASSUME IInv, InPlace, Lossless, NEW i, InStepWith(i),
         ctx.parser_state # "FIND_START", HdrLen < working_buf_len
  PROVE  HeaderValid
<1>1. Start = Before(i) /\ i <= Len(plan)
  BY DEF InStepWith, InStep
<1>2. PICK L : Whole(Start, L)
  BY <1>1, InStepFacts
<1>3. HdrLen \in Nat /\ HdrLen > 1 /\ working_buf_len \in Nat /\ Start \in Nat
  BY StartFacts, <1>2, WholeLength
<1>4. /\ HdrLen - 1 \in 0..working_buf_len-1 /\ HdrLen \in 0..working_buf_len-1
      /\ Start + (HdrLen - 1) + 1 = Start + HdrLen
  BY <1>3
<1>5. At(HdrLen - 1) = stream[Start + HdrLen] /\ At(HdrLen) = stream[Start + HdrLen + 1]
  BY <1>4, OffsetFacts
<1>. QED BY <1>2, <1>5 DEF HeaderValid, Whole

LEMMA InStepFindEnd ==
  ASSUME IInv, InPlace, Lossless, NEW i, InStepWith(i),
         ctx.parser_state = "FIND_END"
  PROVE  ~Rejected
<1>. SUFFICES ASSUME Rejected PROVE FALSE
  OBVIOUS
<1>1. Start = Before(i) /\ i <= Len(plan)
  BY DEF InStepWith, InStep
<1>2. PICK L : Whole(Start, L)
  BY <1>1, InStepFacts
<1>3. PICK f \in Data..working_buf_len-1 :
        /\ At(f) \in Eol /\ Free(Eol, Data, f)
        /\ ~ /\ TwoDigits(ctx.data_end + 1, f)
             /\ Checksum([k \in 1..ctx.data_end-1 |-> At(k)])
                  = 2 * Digit(At(ctx.data_end + 1)) + Digit(At(ctx.data_end + 2))
  BY DEF Rejected
<1>4. f = L
  BY <1>2, <1>3, LineEndFound
<1>5. /\ ctx.data_end \in Data..working_buf_len-1 /\ At(ctx.data_end) = "*"
      /\ Free({"*"} \cup Eol, Data, ctx.data_end)
  <2>1. /\ HdrLen < ctx.data_end /\ ctx.data_end < working_buf_len
        /\ At(ctx.data_end) = "*" /\ Free({"*"} \cup Eol, Data, ctx.data_end)
    BY DEF IInv, IndicesInBuffer, FoundSoFar
  <2>2. ctx.data_end \in Int /\ working_buf_len \in Nat /\ Data \in Nat /\ Data = HdrLen + 1
        /\ HdrLen \in Nat
    <3>1. ctx \in Context /\ working_buf_len \in Nat
      BY StartFacts
    <3>2. MaxLen \in Nat /\ HdrLen \in Nat
      BY WorkAssumption
    <3>. QED BY <3>1, <3>2 DEF Context, NULL, Data
  <2>. HIDE DEF working_buf_len
  <2>. QED BY <2>1, <2>2
<1>6. L < working_buf_len
  <2>1. working_buf_len \in Nat /\ L \in Nat
    BY StartFacts, <1>2, WholeLength
  <2>. QED BY <1>3, <1>4, <2>1
<1>. QED BY <1>2, <1>3, <1>4, <1>5, <1>6, StarFound

(* What SENTENCE_COMPLETE holds is the whole piece, and it has data.        *)
LEMMA InStepComplete ==
  ASSUME IInv, InPlace, Lossless, WaitsInVain, NEW i, InStepWith(i),
         ctx.parser_state = "SENTENCE_COMPLETE"
  PROVE  LET L == BodyLen(plan[i]) IN
         /\ Whole(Start, L) /\ Start = Before(i) /\ i \in 1..Len(plan)
         /\ ctx.line_end = L /\ ctx.data_end <= L /\ Parses
<1>. DEFINE L == BodyLen(plan[i])
<1>1. Start = Before(i) /\ i \in 1..Len(plan)+1 /\ i <= Len(plan)
  BY DEF InStepWith, InStep
<1>2. Whole(Start, L) /\ i \in 1..Len(plan)
  BY <1>1, InStepFacts
<1>. HIDE DEF L
<1>3. /\ ctx.data_end \in Nat /\ ctx.line_end \in Nat
      /\ HdrLen \in Nat /\ Data = HdrLen + 1 /\ working_buf_len \in Nat
      /\ HdrLen < ctx.data_end /\ ctx.data_end <= ctx.line_end
      /\ ctx.line_end < working_buf_len
      /\ Free({"*"} \cup Eol, Data, ctx.data_end) /\ Free(Eol, Data, ctx.line_end)
      /\ ctx.data_end = ctx.line_end \/ At(ctx.data_end) = "*"
  BY CompleteFacts
<1>4. L \in Nat /\ HdrLen + 2 <= L /\ Start \in Nat
  BY <1>2, WholeLength
<1>. HIDE DEF working_buf_len
<1>5. ctx.line_end = L
  <2>1. At(ctx.line_end) \in Eol
    <3>1. ctx.line_end # NULL
      BY <1>3 DEF NULL
    <3>. QED BY <3>1 DEF WaitsInVain
  <2>2. ctx.line_end \in Data..working_buf_len-1
    BY <1>3
  <2>. QED BY <1>2, <1>3, <2>1, <2>2, LineEndFound
<1>6. ctx.data_end > HdrLen + 1
  <2>1. CASE ctx.data_end = ctx.line_end
    BY <1>3, <1>4, <1>5, <2>1
  <2>2. CASE At(ctx.data_end) = "*"
    <3>1. ctx.data_end \in Data..working_buf_len-1
      BY <1>3
    <3>2. ctx.data_end > Data
      BY <1>2, <1>3, <2>2, <3>1, StarFound
    <3>. QED BY <1>3, <3>2
  <2>. QED BY <1>3, <2>1, <2>2
<1>7. Parses
  <2>1. /\ HdrLen + 1 \in 0..working_buf_len-1 /\ HdrLen + 2 \in 1..L
        /\ Start + (HdrLen + 1) + 1 = Start + (HdrLen + 2)
    BY <1>3, <1>4, <1>5
  <2>2. At(HdrLen + 1) # "N"
    BY <1>2, <2>1, OffsetFacts DEF Whole
  <2>3. Field = At(HdrLen + 1)
    BY <1>6 DEF Field
  <2>. QED BY <2>2, <2>3 DEF Parses
<1>. QED BY <1>1, <1>2, <1>3, <1>5, <1>7 DEF L

(* And it takes no more than the piece with it.                             *)
LEMMA InStepEnd ==
  ASSUME IInv, InPlace, Lossless, WaitsInVain, NEW i, InStepWith(i),
         ctx.parser_state = "SENTENCE_COMPLETE"
  PROVE  /\ i + 1 \in 1..Len(plan)+1
         /\ Start + SentenceEnd \in Nat /\ Start + SentenceEnd <= Before(i + 1)
         /\ \A b \in Start+SentenceEnd+1..Before(i + 1) : stream[b] # "$"
<1>. DEFINE L == BodyLen(plan[i])
            P == Len(plan[i])
            B == Before(i)
            C == Before(i + 1)
            n == SentenceEnd
<1>1. /\ Whole(Start, L) /\ Start = B /\ i \in 1..Len(plan)
      /\ ctx.line_end = L /\ ctx.data_end <= L
  BY InStepComplete
<1>2. /\ L < P /\ C = B + P /\ C <= Len(stream) /\ IsWhole(plan[i])
      /\ \A k \in L+1..P : stream[B + k] \in {"E", "N"}
  <2>1. IsWhole(plan[i])
    BY <1>1, PlanFacts DEF InStepWith
  <2>. QED BY <1>1, <2>1, WholeFacts
<1>3. /\ P \in Nat /\ Len(plan) \in Nat /\ Len(stream) \in Nat /\ C \in Nat
      /\ Before(Len(plan) + 1) = Len(stream)
  <2>1. i + 1 \in 1..Len(plan)+1
    BY <1>1, PlanFacts
  <2>. QED BY <1>1, <2>1, PlanFacts
<1>4. /\ n \in Nat /\ n >= L /\ n <= working_buf_len
      /\ \A o \in L..working_buf_len-1 :
           o # ctx.data_end /\ At(o) \notin {"E", "N"} => n <= o
  <2>1. ctx.line_end \in Nat /\ working_buf_len \in Nat
    BY CompleteFacts
  <2>. QED BY <1>1, <2>1, SentenceEndFacts
<1>5. L \in Nat /\ B \in Nat
  BY <1>1, WholeLength
<1>6. /\ working_buf_len \in Nat /\ Popped = Start + working_buf_len
      /\ Popped <= Len(stream) /\ ctx.data_end \in Nat
  BY OffsetFacts, CompleteFacts
<1>7. i < Len(plan) => stream[C + 1] = "$" /\ C < Len(stream)
  <2>. SUFFICES ASSUME i < Len(plan) PROVE stream[C + 1] = "$" /\ C < Len(stream)
    OBVIOUS
  <2>1. i + 1 \in 1..Len(plan) /\ IsWhole(plan[i + 1])
    BY <1>1, <1>3 DEF InStepWith
  <2>2. PICK M : Whole(C, M)
    BY <2>1, WholeFacts
  <2>3. M \in Nat
    BY <2>2, WholeLength
  <2>4. stream[C + 1] = "$" /\ C + M < Len(stream)
    BY <2>2 DEF Whole
  <2>. HIDE DEF C
  <2>. QED BY <1>3, <2>3, <2>4
<1>. HIDE DEF L, P, B, C, n, working_buf_len
<1>8. B + n <= C
  <2>. SUFFICES ASSUME B + n > C PROVE FALSE
    BY <1>3, <1>4, <1>5
  <2>1. P < n /\ P < working_buf_len
    BY <1>2, <1>3, <1>4, <1>5, <1>6
  <2>2. CASE i < Len(plan)
    <3>1. /\ P \in 0..working_buf_len-1 /\ P \in L..working_buf_len-1
          /\ P # ctx.data_end /\ Start + P + 1 = C + 1
      BY <1>1, <1>2, <1>3, <1>5, <1>6, <2>1
    <3>2. At(P) = "$"
      BY <1>7, <2>2, <3>1, OffsetFacts
    <3>3. n <= P
      BY <1>4, <3>1, <3>2
    <3>. QED BY <1>3, <1>4, <2>1, <3>3
  <2>3. CASE i = Len(plan)
    <3>1. C = Len(stream)
      BY <1>3, <2>3 DEF C
    <3>. QED BY <1>1, <1>3, <1>4, <1>5, <1>6, <3>1
  <2>. QED BY <1>1, <1>3, <2>2, <2>3
<1>9. ASSUME NEW b \in Start+n+1..C PROVE stream[b] # "$"
  <2>. DEFINE k == b - B
  <2>1. k \in L+1..P /\ B + k = b
    BY <1>1, <1>2, <1>3, <1>4, <1>5
  <2>. HIDE DEF k
  <2>2. stream[b] \in {"E", "N"}
    BY <1>2, <2>1
  <2>. QED BY <2>2
<1>10. i + 1 \in 1..Len(plan)+1 /\ Start + n \in Nat /\ Start + n <= C
  BY <1>1, <1>3, <1>4, <1>5, <1>8
<1>. QED BY <1>9, <1>10 DEF n, C

(* A step completes a piece: its sentence is the one put last in the log.   *)
Completes(i) == /\ Len(log') = Len(log) + 1 /\ Len(log') \in DOMAIN log'
                /\ IsPiece(log[Len(log)], i)'
                /\ log'[Len(log')].bytes[1] = Before(i) + 1

LEMMA InStepSentenceComplete ==
  ASSUME IInv, InPlace, Lossless, WaitsInVain, NEW i, InStepWith(i),
         SentenceComplete
  PROVE  i <= Len(plan) /\ Completes(i) /\ InStep(i + 1)'
<1>. DEFINE L == BodyLen(plan[i])
            n == SentenceEnd
<1>1. ctx.parser_state = "SENTENCE_COMPLETE"
  BY DEF SentenceComplete, In
<1>2. /\ Whole(Start, L) /\ Start = Before(i) /\ i \in 1..Len(plan)
      /\ ctx.line_end = L /\ Parses
  BY <1>1, InStepComplete
<1>3. UNCHANGED env /\ Rests /\ Start' = Start + n
  BY SentenceCompleteStream
<1>4. UNCHANGED <<plan, stream, accepted>>
  BY <1>3 DEF env
<1>5. PICK e \in Entry : /\ log' = Append(log, e)
                         /\ e.parsed = Parses /\ Len(e.bytes) = L
                         /\ \A k \in 1..L : e.bytes[k] = Start + k
  BY <1>2, SentenceCompleteStream
<1>6. /\ L \in Nat /\ L >= 1 /\ Start \in Nat /\ i \in Nat
      /\ Len(Body(plan[i])) = L /\ Body(plan[i]) \in Seq(Symbols)
      /\ \A k \in 1..L : Body(plan[i])[k] = stream[Before(i) + k]
  <2>1. IsWhole(plan[i]) /\ i \in Nat
    BY <1>2, PlanFacts DEF InStepWith
  <2>. QED BY <1>2, <2>1, WholeFacts, WholeLength
<1>7. \A k \in 1..L : Start + k \in 1..Len(accepted)
  <2>1. /\ ctx.line_end < working_buf_len /\ working_buf_len \in Nat
        /\ Popped = Start + working_buf_len
    BY <1>1, CompleteFacts, OffsetFacts
  <2>2. Popped <= Len(accepted) /\ Len(accepted) \in Nat
    BY ContextFacts DEF IInv, Popped
  <2>. HIDE DEF L, working_buf_len
  <2>. QED BY <1>2, <1>6, <2>1, <2>2
<1>. HIDE DEF L, n
<1>8. \A k \in 1..L : Sym(e.bytes[k]) = Body(plan[i])[k]
  <2>1. \A k \in 1..L : accepted[Start + k] = Start + k
    BY <1>7 DEF InPlace
  <2>. QED BY <1>2, <1>5, <1>6, <2>1 DEF Sym
<1>9. Text(e.bytes) = Body(plan[i])
  <2>1. Text(e.bytes) = [k \in 1..L |-> Body(plan[i])[k]]
    BY <1>5, <1>8 DEF Text
  <2>2. Body(plan[i]) = [k \in 1..L |-> Body(plan[i])[k]]
    BY <1>6
  <2>. QED BY <2>1, <2>2
<1>10. /\ Len(log') = Len(log) + 1 /\ Len(log') \in DOMAIN log'
       /\ log'[Len(log')] = e
  <2>1. log \in Seq(Entry)
    BY DEF IInv, TypeOK
  <2>2. /\ Len(log) \in Nat /\ Len(log') = Len(log) + 1
        /\ DOMAIN log' = 1..Len(log)+1 /\ log'[Len(log) + 1] = e
    BY <1>5, <2>1, AppendProperties, LenProperties
  <2>. QED BY <2>2
<1>11. Completes(i)
  <2>1. IsPiece(e, i)
    BY <1>2, <1>5, <1>9 DEF IsPiece
  <2>2. IsPiece(log[Len(log)], i)'
    BY <1>4, <1>10, <2>1 DEF IsPiece, Text, Sym
  <2>3. e.bytes[1] = Before(i) + 1
    BY <1>2, <1>5, <1>6
  <2>. QED BY <1>10, <2>2, <2>3 DEF Completes
<1>12. InStep(i + 1)'
  <2>1. /\ i + 1 \in 1..Len(plan)+1 /\ Start + n <= Before(i + 1)
        /\ \A b \in Start+n+1..Before(i + 1) : stream[b] # "$"
    BY <1>1, InStepEnd DEF n
  <2>2. Before(i + 1)' = Before(i + 1)
    BY <1>4 DEF Before
  <2>. QED BY <1>3, <1>4, <2>1, <2>2 DEF InStep, Rests
<1>13. i <= Len(plan)
  BY <1>2, PlanFacts
<1>. QED BY <1>11, <1>12, <1>13

(* Once in step with good sentences the state machine stays in step: every  *)
(* step leaves it with the same piece, or completes that one.               *)
LEMMA StepInStep ==
  ASSUME IInv, InPlace, Lossless, WaitsInVain, [Next]_vars, ~Reinit,
         NEW i, InStepWith(i)
  PROVE  \/ UNCHANGED log /\ InStep(i)'
         \/ i <= Len(plan) /\ Completes(i) /\ InStep(i + 1)'
<1>. DEFINE Same == UNCHANGED log /\ InStep(i)'
<1>1. InStep(i) /\ UNCHANGED <<plan, stream>>
  BY StepStream DEF InStepWith
<1>2. \/ UNCHANGED log /\ Stays
      \/ Fill /\ Overran
      \/ UNCHANGED log /\ FindStart
      \/ UNCHANGED log /\ FindTalkerAndType
      \/ UNCHANGED log /\ FindEnd
      \/ SentenceComplete
  BY StepStream
<1>3. CASE UNCHANGED log /\ Stays
  BY <1>1, <1>3, InStepKept
<1>4. CASE Fill /\ Overran
  BY <1>4, InStepOverran
<1>5. CASE UNCHANGED log /\ FindStart
  BY <1>5, InStepFindStart
<1>6. CASE UNCHANGED log /\ FindTalkerAndType
  <2>1. Stays
    <3>1. ctx.parser_state # "FIND_START"
      BY <1>6 DEF FindTalkerAndType, In
    <3>2. Stays \/ (HdrLen < working_buf_len /\ ~HeaderValid)
      BY <1>6, FindTalkerAndTypeStream
    <3>. QED BY <3>1, <3>2, InStepHeader
  <2>. QED BY <1>1, <1>6, <2>1, InStepKept
<1>7. CASE UNCHANGED log /\ FindEnd
  <2>1. Stays
    <3>1. ctx.parser_state = "FIND_END"
      BY <1>7 DEF FindEnd, In
    <3>2. Stays \/ Rejected
      BY <1>7, FindEndStream
    <3>. QED BY <3>1, <3>2, InStepFindEnd
  <2>. QED BY <1>1, <1>7, <2>1, InStepKept
<1>8. CASE SentenceComplete
  BY <1>8, InStepSentenceComplete
<1>. QED BY <1>2, <1>3, <1>4, <1>5, <1>6, <1>7, <1>8

LEMMA NeverOutOfStepKept ==
  ASSUME IInv, InPlace, WaitsInVain, NeverOutOfStep, [Next]_vars, ~Reinit
  PROVE  NeverOutOfStep'
<1>. SUFFICES ASSUME Lossless', Faultless'
              PROVE  /\ InStep(Len(log) + 1)'
                     /\ \A k \in DOMAIN log' : IsPiece(log[k], k)'
  BY DEF NeverOutOfStep
<1>1. Lossless /\ UNCHANGED <<plan, stream>>
  BY StepStream
<1>2. Faultless
  BY <1>1 DEF Faultless
<1>3. PICK i : i = Len(log) + 1
  OBVIOUS
<1>4. InStep(i) /\ \A k \in DOMAIN log : IsPiece(log[k], k)
  <2>1. InStep(Len(log) + 1) /\ \A k \in DOMAIN log : IsPiece(log[k], k)
    BY <1>1, <1>2 DEF NeverOutOfStep
  <2>. QED BY <1>3, <2>1
<1>5. InStepWith(i)
  <2>1. i \in 1..Len(plan)+1 /\ Len(plan) \in Nat /\ DOMAIN plan = 1..Len(plan)
    BY <1>4, PlanFacts DEF InStep
  <2>2. /\ i <= Len(plan) => i \in DOMAIN plan
        /\ i < Len(plan) => i + 1 \in DOMAIN plan
    BY <2>1
  <2>. QED BY <1>2, <1>4, <2>2 DEF InStepWith, Faultless
<1>6. ASSUME NEW k \in DOMAIN log PROVE IsPiece(log[k], k)'
  BY <1>4, PieceKept, StepKeepsPast
<1>7. /\ log \in Seq(Entry) /\ Len(log) \in Nat /\ DOMAIN log = 1..Len(log)
  BY LenProperties DEF IInv, TypeOK
<1>8. CASE UNCHANGED log /\ InStep(i)'
  <2>1. Len(log') + 1 = i /\ DOMAIN log' = DOMAIN log
    BY <1>3, <1>8
  <2>2. InStep(Len(log) + 1)'
    BY <1>8, <2>1 DEF InStep, Before
  <2>. QED BY <1>6, <2>1, <2>2
<1>9. CASE Completes(i) /\ InStep(i + 1)'
  <2>1. Len(log') = i /\ IsPiece(log[Len(log)], i)'
    BY <1>3, <1>9 DEF Completes
  <2>2. InStep(Len(log) + 1)'
    BY <1>9, <2>1 DEF InStep, Before
  <2>3. DOMAIN log' = 1..i
    <3>1. IInv'
      BY NextInvariant
    <3>2. log' \in Seq(Entry)
      BY <3>1 DEF IInv, TypeOK, Entry
    <3>. QED BY <2>1, <3>2, LenProperties
  <2>4. ASSUME NEW k \in DOMAIN log' PROVE IsPiece(log[k], k)'
    <3>1. k \in DOMAIN log \/ k = i
      BY <1>3, <1>7, <2>3
    <3>2. k = i => IsPiece(log[k], k)'
      BY <2>1 DEF IsPiece, Text, Sym
    <3>. QED BY <1>6, <3>1, <3>2
  <2>. QED BY <2>2, <2>4
<1>10. \/ UNCHANGED log /\ InStep(i)'
       \/ Completes(i) /\ InStep(i + 1)'
  BY <1>1, <1>5, StepInStep
<1>. QED BY <1>8, <1>9, <1>10
-----------------------------------------------------------------------------
(* After garbage: the first good piece that lies whole behind the start of  *)
(* the working buffer is the next to be found.                              *)

InStepFrom(g) ==
  \E i \in g..Len(plan)+1 :
    /\ InStep(i)
    /\ \A k \in g..i-1 : Before(k) >= Before(g) + MaxLen => PieceParsed(k)

LEMMA GoodPieces ==
  ASSUME InPlace, NEW g \in DOMAIN plan, GoodFrom(g), NEW i \in g..Len(plan)+1
  PROVE  /\ i \in 1..Len(plan)+1 /\ g \in Nat /\ i \in Nat /\ g \in 1..Len(plan)
         /\ i <= Len(plan) => IsWhole(plan[i])
         /\ i < Len(plan) => IsWhole(plan[i + 1])
<1>1. Len(plan) \in Nat /\ DOMAIN plan = 1..Len(plan)
  BY PlanFacts
<1>2. g \in Nat /\ g >= 1 /\ i \in Nat /\ i >= g /\ i <= Len(plan) + 1 /\ g <= Len(plan)
  BY <1>1
<1>3. i <= Len(plan) => i \in g..Len(plan)
  BY <1>1, <1>2
<1>4. i < Len(plan) => i + 1 \in g..Len(plan)
  BY <1>1, <1>2
<1>5. \A j \in g..Len(plan) : IsWhole(plan[j])
  BY DEF GoodFrom
<1>. QED BY <1>1, <1>2, <1>3, <1>4, <1>5

LEMMA InStepFromKept ==
  ASSUME IInv, InPlace, WaitsInVain, Lossless, [Next]_vars, ~Reinit,
         NEW g \in DOMAIN plan, GoodFrom(g), InStepFrom(g)
  PROVE  InStepFrom(g)'
<1>1. UNCHANGED <<plan, stream>> /\ Keeps
  BY StepStream, StepKeepsPast
<1>2. PICK i \in g..Len(plan)+1 :
        /\ InStep(i)
        /\ \A k \in g..i-1 : Before(k) >= Before(g) + MaxLen => PieceParsed(k)
  BY DEF InStepFrom
<1>3. /\ i \in Nat /\ g \in Nat /\ i >= g /\ Len(plan) \in Nat
      /\ InStepWith(i)
  BY <1>2, GoodPieces, PlanFacts DEF InStepWith
<1>4. ASSUME NEW k \in g..i-1, (Before(k) >= Before(g) + MaxLen)'
      PROVE  PieceParsed(k)'
  <2>1. Before(k) >= Before(g) + MaxLen
    BY <1>1, <1>4 DEF Before
  <2>. QED BY <1>1, <1>2, <2>1, ParsedKept
<1>5. CASE InStep(i)'
  BY <1>1, <1>2, <1>4, <1>5 DEF InStepFrom
<1>6. CASE i <= Len(plan) /\ Completes(i) /\ InStep(i + 1)'
  <2>1. PieceParsed(i)'
    <3>1. /\ Len(log') \in DOMAIN log' /\ IsPiece(log[Len(log)], i)'
          /\ log'[Len(log')].bytes[1] = Before(i)' + 1
      BY <1>1, <1>6 DEF Completes, Before
    <3>. QED BY <3>1 DEF PieceParsed
  <2>2. ASSUME NEW k \in g..(i+1)-1, (Before(k) >= Before(g) + MaxLen)'
        PROVE  PieceParsed(k)'
    <3>1. k \in g..i-1 \/ k = i
      BY <1>3
    <3>. QED BY <1>4, <2>1, <2>2, <3>1
  <2>3. i + 1 \in g..Len(plan')+1
    BY <1>1, <1>3, <1>6
  <2>. QED BY <1>6, <2>2, <2>3 DEF InStepFrom
<1>. QED BY <1>3, <1>5, <1>6, StepInStep

(* The least piece that begins at an offset or past it. *)
LEMMA NextPiece ==
  ASSUME InPlace, NEW g \in 1..Len(plan), NEW s \in Nat, s <= Len(stream)
  PROVE  \E i \in g..Len(plan)+1 :
           /\ s <= Before(i)
           /\ \A k \in g..i-1 : Before(k) < s
<1>. DEFINE N == Len(plan) + 1
            T == {i \in g..N : s <= Before(i)}
<1>1. /\ N \in Nat /\ g \in Nat /\ g <= N /\ g >= 1
      /\ Before(N) = Len(stream)
      /\ \A i \in 1..N : Before(i) \in Nat
  BY PlanFacts
<1>. HIDE DEF N
<1>2. N \in T /\ T \in SUBSET Nat
  BY <1>1
<1>3. PICK i \in T : \A j \in T : i <= j
  BY <1>2, LeastNat
<1>4. ASSUME NEW k \in g..i-1 PROVE Before(k) < s
  <2>1. k \in g..N /\ k \in 1..N /\ ~(i <= k)
    BY <1>1, <1>2, <1>3
  <2>2. k \notin T
    BY <1>3, <2>1
  <2>. QED BY <1>1, <2>1, <2>2
<1>. QED BY <1>3, <1>4 DEF N

(* A step past the start of a good piece ends at it, or looks for the next. *)
LEMMA StepPastStart ==
  ASSUME IInv, InPlace, WaitsInVain, Lossless, [Next]_vars, ~Reinit,
         NEW B \in Nat, B < Len(stream), stream[B + 1] = "$",
         Start < B, B <= Start'
  PROVE  /\ Start' \in Nat /\ Start' < B + MaxLen /\ Start' <= Len(stream)
         /\ ctx'.parser_state # "FIND_START" => Start' = B
<1>1. /\ Start \in Nat /\ working_buf_len \in Nat /\ working_buf_len <= MaxLen
      /\ Popped = Start + working_buf_len /\ Popped <= Len(stream)
      /\ Len(stream) \in Nat /\ MaxLen \in Nat
  BY OffsetFacts, WorkAssumption
<1>2. ~Stays
  BY <1>1 DEF Stays
<1>. HIDE DEF working_buf_len
<1>3. CASE Rests
  <2>1. Start' \in Start..Popped /\ ctx'.parser_state = "FIND_START"
    BY <1>3 DEF Rests
  <2>. QED BY <1>1, <2>1
<1>4. CASE Finds
  <2>1. PICK start \in 0..working_buf_len-1 :
          Free({"$"}, 0, start) /\ Start' = Start + start
    BY <1>4 DEF Finds
  <2>2. start \in Nat /\ start < working_buf_len /\ start \in 0..working_buf_len
    BY <1>1, <2>1
  <2>3. Start + start <= B
    BY <1>1, <2>1, <2>2, FindsStart
  <2>. QED BY <1>1, <2>1, <2>2, <2>3
<1>5. Stays \/ Rests \/ Finds
  <2>1. CASE FindStart
    BY <2>1, FindStartStream
  <2>2. CASE FindTalkerAndType
    BY <2>2, FindTalkerAndTypeStream
  <2>3. CASE FindEnd
    BY <2>3, FindEndStream
  <2>4. CASE SentenceComplete
    BY <2>4, SentenceCompleteStream
  <2>. QED BY <2>1, <2>2, <2>3, <2>4, StepStream
<1>. QED BY <1>2, <1>3, <1>4, <1>5

LEMMA BackInStepAgain ==
  ASSUME IInv, InPlace, WaitsInVain, Lossless, [Next]_vars, ~Reinit,
         NEW g \in DOMAIN plan, GoodFrom(g), Start < Before(g), Before(g) <= Start'
  PROVE  InStepFrom(g)'
<1>. DEFINE B == Before(g)
            n == Len(plan)
            s == Start'
            st == ctx'.parser_state
<1>1. UNCHANGED <<plan, stream>>
  BY StepStream
<1>2. /\ n \in Nat /\ g \in 1..n /\ g \in Nat /\ n + 1 \in Nat
      /\ IsWhole(plan[g])
  <2>1. n \in Nat /\ g \in 1..n
    BY PlanFacts
  <2>2. g \in g..n+1
    BY <2>1
  <2>3. g \in g..n
    BY <2>1
  <2>. QED BY <2>1, <2>3 DEF GoodFrom
<1>3. /\ \A k \in 1..n+1 : Before(k) \in Nat
      /\ \A k \in 1..n : Before(k + 1) = Before(k) + Len(plan[k])
      /\ \A k \in 1..n : Len(plan[k]) \in Nat
      /\ \A k \in 1..n : \A m \in 1..Len(plan[k]) : stream[Before(k) + m] = plan[k][m]
      /\ \A k \in 1..n+1 : \A m \in k..n+1 : Before(k) <= Before(m)
      /\ Len(stream) \in Nat
  BY PlanFacts
<1>4. PICK L : Whole(B, L)
  BY <1>2, WholeFacts
<1>5. B \in Nat /\ B < Len(stream) /\ stream[B + 1] = "$"
  <2>1. B \in Nat /\ L \in Nat /\ B + L < Len(stream) /\ stream[B + 1] = "$"
    BY <1>4, WholeLength DEF Whole
  <2>. HIDE DEF B
  <2>. QED BY <1>3, <2>1
<1>6. /\ s \in Nat /\ s < B + MaxLen /\ s <= Len(stream)
      /\ st # "FIND_START" => s = B
  BY <1>5, StepPastStart
<1>7. PICK i \in g..n+1 : s <= Before(i) /\ \A k \in g..i-1 : Before(k) < s
  BY <1>2, <1>6, NextPiece
<1>8. MaxLen \in Nat
  BY WorkAssumption
<1>. HIDE DEF B, n, s, st
<1>9. B <= s
  BY DEF B, s
<1>10. ASSUME NEW k \in g..i-1, Before(k) >= B + MaxLen PROVE FALSE
  <2>1. Before(k) < s /\ k \in 1..n+1
    BY <1>2, <1>7
  <2>. QED BY <1>3, <1>5, <1>6, <1>8, <1>10, <2>1
<1>11. ASSUME NEW b \in s+1..Before(i) PROVE stream[b] # "$"
  <2>1. i \in Nat /\ i >= g /\ i \in 1..n+1 /\ Before(i) \in Nat
    BY <1>2, <1>3, <1>7
  <2>2. i # g
    <3>. SUFFICES ASSUME i = g PROVE FALSE
      OBVIOUS
    <3>1. Before(i) = B
      BY DEF B
    <3>. QED BY <1>5, <1>6, <1>9, <2>1, <3>1
  <2>. DEFINE h == i - 1
  <2>3. h \in g..n /\ h \in g..i-1 /\ h \in 1..n /\ h + 1 = i /\ h \in 1..n+1
    BY <1>2, <2>1, <2>2
  <2>. HIDE DEF h
  <2>4. /\ Before(h) < s /\ Before(h) \in Nat /\ Before(i) = Before(h) + Len(plan[h])
        /\ Len(plan[h]) \in Nat
    BY <1>3, <1>7, <2>3
  <2>. DEFINE m == b - Before(h)
  <2>5. m \in 2..Len(plan[h]) /\ m \in 1..Len(plan[h]) /\ Before(h) + m = b
    BY <1>6, <2>1, <2>4
  <2>. HIDE DEF m
  <2>6. stream[b] = plan[h][m]
    BY <1>3, <2>3, <2>5
  <2>7. plan[h][m] # "$"
    BY <2>3, <2>5 DEF GoodFrom, n
  <2>. QED BY <2>6, <2>7
<1>12. InStep(i)'
  <2>1. i \in 1..n+1
    BY <1>2, <1>7
  <2>2. Before(i)' = Before(i) /\ Len(plan') = n
    BY <1>1 DEF Before, n
  <2>3. CASE st = "FIND_START"
    BY <1>1, <1>7, <1>11, <2>1, <2>2, <2>3 DEF InStep, s, st
  <2>4. CASE st # "FIND_START"
    <3>1. s = B
      BY <1>6, <2>4
    <3>2. i = g
      <4>. SUFFICES ASSUME i # g PROVE FALSE
        OBVIOUS
      <4>1. g \in g..i-1
        BY <1>2, <1>7
      <4>2. B < s
        BY <1>7, <4>1 DEF B
      <4>. QED BY <1>5, <3>1, <4>2
    <3>3. i <= n
      BY <1>2, <3>2
    <3>. QED BY <2>1, <2>2, <2>4, <3>1, <3>2, <3>3 DEF InStep, s, st, B
  <2>. QED BY <2>3, <2>4
<1>13. ASSUME NEW k \in g..i-1, (Before(k) >= Before(g) + MaxLen)'
       PROVE  PieceParsed(k)'
  <2>1. Before(k) >= B + MaxLen
    BY <1>1, <1>13 DEF Before, B
  <2>. QED BY <1>10, <2>1
<1>14. i \in g..Len(plan')+1
  BY <1>1, <1>7 DEF n
<1>. QED BY <1>12, <1>13, <1>14 DEF InStepFrom

LEMMA BackInStepKept ==
  ASSUME IInv, InPlace, WaitsInVain, BackInStep, [Next]_vars, ~Reinit
  PROVE  BackInStep'
<1>1. UNCHANGED <<plan, stream>> /\ (Lossless' => Lossless)
  BY StepStream
<1>2. ASSUME NEW g \in DOMAIN plan, Lossless', GoodFrom(g)', (Start >= Before(g))'
      PROVE  InStepFrom(g)'
  <2>1. Lossless /\ GoodFrom(g) /\ Before(g)' = Before(g)
    BY <1>1, <1>2 DEF GoodFrom, Before
  <2>2. Start \in Nat /\ Before(g) \in Nat
    <3>1. Len(plan) \in Nat /\ g \in 1..Len(plan) /\ g \in 1..Len(plan)+1
      BY PlanFacts
    <3>. QED BY <2>1, <3>1, PlanFacts, OffsetFacts
  <2>3. CASE Start >= Before(g)
    <3>1. InStepFrom(g)
      BY <2>1, <2>3 DEF BackInStep, InStepFrom
    <3>. QED BY <2>1, <3>1, InStepFromKept
  <2>4. CASE Start < Before(g)
    <3>1. Before(g) <= Start'
      <4>. DEFINE s == Start'
      <4>1. s >= Before(g)
        BY <1>2, <2>1
      <4>. HIDE DEF s
      <4>2. Before(g) <= s
        BY <4>1
      <4>. QED BY <4>2 DEF s
    <3>. QED BY <2>1, <2>4, <3>1, BackInStepAgain
  <2>. QED BY <2>2, <2>3, <2>4
<1>. QED BY <1>1, <1>2 DEF BackInStep, InStepFrom

(* Where it begins, and begins again, it looks for the first start there is. *)
Begins == ctx.parser_state = "FIND_START" /\ Start = 0 /\ log = <<>>

LEMMA BeginsInStep == InPlace /\ Begins => NeverOutOfStep /\ BackInStep
<1>. SUFFICES ASSUME InPlace, ctx.parser_state = "FIND_START", Start = 0, log = <<>>
              PROVE  NeverOutOfStep /\ BackInStep
  BY DEF Begins
<1>1. /\ Len(plan) \in Nat /\ DOMAIN plan = 1..Len(plan)
      /\ \A i \in 1..Len(plan)+1 : Before(i) \in Nat
      /\ Before(1) = 0
  BY PlanFacts
<1>2. ASSUME NEW i \in 1..Len(plan)+1, Before(i) = 0 PROVE InStep(i)
  <2>1. 0 + 1..0 = {}
    OBVIOUS
  <2>. QED BY <1>2, <2>1 DEF InStep
<1>3. NeverOutOfStep
  <2>1. Len(log) + 1 = 1 /\ DOMAIN log = {}
    BY EmptySeq
  <2>2. 1 \in 1..Len(plan)+1
    BY <1>1
  <2>3. InStep(Len(log) + 1)
    BY <1>1, <1>2, <2>1, <2>2
  <2>. QED BY <2>1, <2>3 DEF NeverOutOfStep
<1>4. ASSUME NEW g \in DOMAIN plan, Start >= Before(g)
      PROVE  InStepFrom(g)
  <2>1. g \in 1..Len(plan)+1 /\ g \in g..Len(plan)+1 /\ g..g-1 = {}
    BY <1>1
  <2>2. Before(g) \in Nat /\ 0 >= Before(g)
    BY <1>1, <1>4, <2>1
  <2>3. InStep(g)
    BY <1>2, <2>1, <2>2
  <2>. QED BY <2>1, <2>3 DEF InStepFrom
<1>. QED BY <1>3, <1>4 DEF BackInStep, InStepFrom

LEMMA BeginsInStepAgain ==
  ASSUME IInv, InPlace, Reinit
  PROVE  (NeverOutOfStep /\ BackInStep)'
<1>1. InPlace' /\ Begins'
  BY ReinitStream DEF Begins
<1>. QED BY <1>1, BeginsInStep, PTL

LEMMA InitStream == Init => StreamInv
<1>. SUFFICES ASSUME Init PROVE StreamInv
  OBVIOUS
<1>1. IInv
  BY InitInvariant
<1>2. /\ ctx = Reset(Blank, TRUE, TRUE) /\ accepted = <<>> /\ ring = <<>>
      /\ log = <<>> /\ plan \in Plans /\ stream = Concat(plan) /\ at = "idle"
  BY DEF Init
<1>3. /\ ctx.working_buf = <<>> /\ ctx.parse_pos = 0 /\ ~ctx.waiting_for_data
      /\ ctx.parser_state = "FIND_START"
  BY <1>2 DEF Reset, Blank
<1>4. working_buf_len = 0 /\ Len(accepted) = 0 /\ Len(ring) = 0
  BY <1>2, <1>3, EmptySeq DEF working_buf_len
<1>5. Start = 0
  BY <1>4 DEF Start, Popped
<1>6. InPlace
  BY <1>2, <1>4 DEF InPlace
<1>7. WaitsInVain
  BY <1>3, <1>4 DEF WaitsInVain
<1>8. NeverOutOfStep /\ BackInStep
  BY <1>2, <1>3, <1>5, <1>6, BeginsInStep DEF Begins
<1>. QED BY <1>1, <1>6, <1>7, <1>8 DEF StreamInv

LEMMA NextStream == StreamInv /\ [Next]_vars => StreamInv'
<1>. SUFFICES ASSUME StreamInv, [Next]_vars PROVE StreamInv'
  OBVIOUS
<1>1. IInv /\ InPlace /\ WaitsInVain /\ NeverOutOfStep /\ BackInStep
  BY DEF StreamInv
<1>2. IInv'
  BY <1>1, NextInvariant
<1>3. InPlace' /\ WaitsInVain'
  BY <1>1, ReinitStream, StepStream
<1>4. NeverOutOfStep' /\ BackInStep'
  BY <1>1, BeginsInStepAgain, NeverOutOfStepKept, BackInStepKept
<1>. QED BY <1>2, <1>3, <1>4 DEF StreamInv

(* When all that was sent has been processed there is no next start.        *)
LEMMA InStepAtTheEnd ==
  ASSUME IInv, InPlace, WaitsInVain, Lossless, Drained, NEW i, InStepWith(i)
  PROVE  i = Len(plan) + 1
<1>1. /\ Start \in Nat /\ working_buf_len \in Nat
      /\ Len(stream) = Start + working_buf_len
  <2>1. Len(accepted) = Len(stream) /\ Len(ring) = 0
    BY EmptySeq DEF Lossless, Drained
  <2>2. Popped = Len(stream)
    BY <2>1, ContextFacts DEF IInv, Popped
  <2>. QED BY <2>2, OffsetFacts
<1>2. ctx.waiting_for_data \/ working_buf_len <= ctx.parse_pos
  BY DEF WaitsInVain, Drained
<1>3. /\ i \in Nat /\ i <= Len(plan) + 1 /\ Len(plan) \in Nat
      /\ i <= Len(plan) => Whole(Before(i), BodyLen(plan[i]))
  BY InStepFacts
<1>4. ASSUME i <= Len(plan) PROVE FALSE
  <2>. DEFINE B == Before(i)
              L == BodyLen(plan[i])
  <2>1. B \in Nat /\ L \in Nat /\ B + L < Len(stream) /\ Whole(B, L)
    BY <1>3, <1>4 DEF Whole
  <2>2. CASE ctx.parser_state = "FIND_START"
    <3>1. working_buf_len = 0
      BY <1>2, <2>2, RestsBeforeLineEnd
    <3>2. Start <= B
      BY <2>2 DEF InStepWith, InStep
    <3>. HIDE DEF B, L
    <3>. QED BY <1>1, <2>1, <3>1, <3>2
  <2>3. CASE ctx.parser_state # "FIND_START"
    <3>1. Start = B
      BY <2>3 DEF InStepWith, InStep
    <3>2. working_buf_len <= L
      BY <1>2, <2>1, <2>3, <3>1, RestsInside
    <3>. HIDE DEF B, L
    <3>. QED BY <1>1, <2>1, <3>1, <3>2
  <2>. QED BY <2>2, <2>3
<1>. QED BY <1>3, <1>4

(* At rest behind the last byte, no sentence of a faultless stream is amiss. *)
LEMMA StreamInvCompletes == StreamInv => AllSentencesCompleted
<1>. SUFFICES ASSUME StreamInv, Faultless, Lossless, Drained
              PROVE  /\ Len(log) = Len(plan)
                     /\ \A i \in DOMAIN log : IsPiece(log[i], i)
  BY DEF AllSentencesCompleted
<1>1. /\ IInv /\ InPlace /\ WaitsInVain
      /\ InStep(Len(log) + 1) /\ \A i \in DOMAIN log : IsPiece(log[i], i)
  BY DEF StreamInv, NeverOutOfStep
<1>2. Len(log) \in Nat /\ Len(plan) \in Nat /\ DOMAIN plan = 1..Len(plan)
  BY <1>1, LenProperties, PlanFacts DEF IInv, TypeOK
<1>3. PICK i : i = Len(log) + 1
  OBVIOUS
<1>4. InStepWith(i)
  <2>1. /\ i <= Len(plan) => i \in DOMAIN plan
        /\ i < Len(plan) => i + 1 \in DOMAIN plan
    BY <1>2, <1>3
  <2>. QED BY <1>1, <1>3, <2>1 DEF InStepWith, Faultless
<1>5. i = Len(plan) + 1
  BY <1>1, <1>4, InStepAtTheEnd
<1>. QED BY <1>1, <1>2, <1>3, <1>5

LEMMA StreamInvResynchronises == StreamInv => Resynchronises
<1>. SUFFICES ASSUME StreamInv, Lossless, Drained, NEW g \in DOMAIN plan, GoodFrom(g),
                     NEW i \in g..Len(plan), Before(i) >= Before(g) + MaxLen
              PROVE  PieceParsed(i)
  BY DEF Resynchronises
<1>1. IInv /\ InPlace /\ WaitsInVain /\ BackInStep
  BY DEF StreamInv
<1>2. /\ Len(plan) \in Nat /\ g \in 1..Len(plan) /\ g \in Nat
      /\ i \in Nat /\ i >= g /\ i <= Len(plan)
  BY <1>1, PlanFacts
<1>3. Before(i) \in Nat /\ Before(g) \in Nat /\ Before(i) <= Len(stream)
  <2>1. i \in 1..Len(plan)+1 /\ g \in 1..Len(plan)+1 /\ Len(plan) + 1 \in i..Len(plan)+1
    BY <1>2
  <2>. QED BY <1>1, <2>1, PlanFacts
<1>4. Start >= Before(g)
  <2>1. Len(accepted) = Len(stream) /\ Len(ring) = 0
    BY EmptySeq DEF Lossless, Drained
  <2>2. Popped = Len(stream)
    BY <1>1, <2>1, ContextFacts DEF IInv, Popped
  <2>3. /\ Start \in Nat /\ working_buf_len \in Nat /\ working_buf_len <= MaxLen
        /\ Len(stream) = Start + working_buf_len /\ MaxLen \in Nat
    BY <1>1, <2>2, OffsetFacts, WorkAssumption
  <2>. HIDE DEF working_buf_len
  <2>. QED BY <1>3, <2>3
<1>5. PICK j \in g..Len(plan)+1 :
        /\ InStep(j)
        /\ \A k \in g..j-1 : Before(k) >= Before(g) + MaxLen => PieceParsed(k)
  BY <1>1, <1>4 DEF BackInStep
<1>6. InStepWith(j)
  BY <1>1, <1>5, GoodPieces DEF InStepWith
<1>7. j = Len(plan) + 1
  BY <1>1, <1>6, InStepAtTheEnd
<1>8. i \in g..j-1
  BY <1>2, <1>7
<1>. QED BY <1>5, <1>8
-----------------------------------------------------------------------------
(* The theorems. *)

(* In step with the stream: as long as the ring takes every byte, the next  *)
(* start tiny_nmea_work will find, or has found, is that of the piece after *)
(* the last completed one; with garbage among the pieces, from not more     *)
(* than a working buffer behind its last byte on.                           *)
THEOREM StreamInvariant == Spec => []StreamInv
<1>1. Init => StreamInv
  BY InitStream
<1>2. StreamInv /\ [Next]_vars => StreamInv'
  BY NextStream
<1>. QED BY <1>1, <1>2, PTL DEF Spec

(* A stream of good sentences is parsed whole and in order, however it is   *)
(* cut into calls of tiny_nmea_feed and whenever tiny_nmea_work runs.       *)
THEOREM StreamCompletes == Spec => []AllSentencesCompleted
<1>1. StreamInv => AllSentencesCompleted
  BY StreamInvCompletes
<1>. QED BY <1>1, StreamInvariant, PTL

(* After any garbage every good sentence is parsed that comes with a        *)
(* working buffer of good ones before it.                                   *)
THEOREM StreamResynchronises == Spec => []Resynchronises
<1>1. StreamInv => Resynchronises
  BY StreamInvResynchronises
<1>. QED BY <1>1, StreamInvariant, PTL
=============================================================================
