------------------------- MODULE SatTracker_proofs -------------------------
(***************************************************************************)
(* Proofs about SatTracker: the list of active satellites and its bitmask  *)
(* tell of one cycle of sentences, none is dropped before it is given to   *)
(* the application, and so the tracker implements ActiveSets.  A view that is  *)
(* published tells of one sequence.  If the receiver's clock is what its   *)
(* sentences report, lists are published when their burst is over, and if  *)
(* it reports often enough, bursts far apart are kept apart.               *)
(***************************************************************************)
EXTENDS SatTracker, Induction, SequenceTheorems, TLAPS

(* What UpTo returns. *)
LEMMA UpToIsPart ==
  ASSUME NEW S, NEW s \in Seq(S), NEW n \in Nat
  PROVE  /\ UpTo(n, s) \in Seq(S)
         /\ Len(UpTo(n, s)) = IF Len(s) < n THEN Len(s) ELSE n
         /\ \A i \in 1..Len(UpTo(n, s)) : UpTo(n, s)[i] = s[i]
<1>. DEFINE m == IF Len(s) < n THEN Len(s) ELSE n
<1>1. m \in Nat /\ m <= Len(s)
  OBVIOUS
<1>2. \A i \in 1..m : s[i] \in S
  BY <1>1, ElementOfSeq
<1>3. /\ SubSeq(s, 1, m) \in Seq(S) /\ Len(SubSeq(s, 1, m)) = m
      /\ \A i \in 1..m : SubSeq(s, 1, m)[i] = s[i]
  <2>. HIDE DEF m
  <2>. QED BY <1>1, <1>2
<1>4. UpTo(n, s) = SubSeq(s, 1, m)
  BY DEF UpTo
<1>. QED BY <1>3, <1>4

(* What does not fit is not missed when more is put behind what did. *)
LEMMA UpToTwice ==
  ASSUME NEW S, NEW s \in Seq(S), NEW t \in Seq(S), NEW n \in Nat
  PROVE  UpTo(n, UpTo(n, s) \o t) = UpTo(n, s \o t)
<1>. DEFINE u == UpTo(n, s)
<1>1. /\ u \in Seq(S) /\ Len(u) = IF Len(s) < n THEN Len(s) ELSE n
      /\ \A i \in 1..Len(u) : u[i] = s[i]
  BY UpToIsPart
<1>. HIDE DEF u
<1>2. /\ s \o t \in Seq(S) /\ Len(s \o t) = Len(s) + Len(t)
      /\ \A i \in 1..Len(s) + Len(t) :
           (s \o t)[i] = IF i <= Len(s) THEN s[i] ELSE t[i - Len(s)]
  BY ConcatProperties
<1>3. /\ u \o t \in Seq(S) /\ Len(u \o t) = Len(u) + Len(t)
      /\ \A i \in 1..Len(u) + Len(t) :
           (u \o t)[i] = IF i <= Len(u) THEN u[i] ELSE t[i - Len(u)]
  BY <1>1, ConcatProperties
<1>. DEFINE a == UpTo(n, u \o t)
            b == UpTo(n, s \o t)
<1>4. /\ a \in Seq(S) /\ Len(a) = IF Len(u \o t) < n THEN Len(u \o t) ELSE n
      /\ \A i \in 1..Len(a) : a[i] = (u \o t)[i]
  BY <1>3, UpToIsPart
<1>5. /\ b \in Seq(S) /\ Len(b) = IF Len(s \o t) < n THEN Len(s \o t) ELSE n
      /\ \A i \in 1..Len(b) : b[i] = (s \o t)[i]
  BY <1>2, UpToIsPart
<1>. HIDE DEF a, b
<1>6. Len(s) \in Nat /\ Len(t) \in Nat /\ Len(u) \in Nat
  BY <1>1
<1>7. Len(a) = Len(b)
  BY <1>1, <1>2, <1>3, <1>4, <1>5, <1>6
<1>8. ASSUME NEW i \in 1..Len(a) PROVE a[i] = b[i]
  <2>1. i \in 1..Len(u) + Len(t) /\ i \in 1..Len(s) + Len(t) /\ i <= n
    BY <1>1, <1>2, <1>3, <1>4, <1>6
  <2>2. /\ a[i] = IF i <= Len(u) THEN u[i] ELSE t[i - Len(u)]
        /\ b[i] = IF i <= Len(s) THEN s[i] ELSE t[i - Len(s)]
    BY <1>2, <1>3, <1>4, <1>5, <1>7, <2>1
  <2>3. CASE i <= Len(u)
    <3>1. u[i] = s[i] /\ i <= Len(s)
      BY <1>1, <1>6, <2>3
    <3>. QED BY <2>2, <2>3, <3>1
  <2>4. CASE ~(i <= Len(u))
    <3>1. Len(u) = Len(s)
      BY <1>1, <1>6, <2>1, <2>4
    <3>. QED BY <2>2, <2>4, <3>1
  <2>. QED BY <2>3, <2>4
<1>9. a = b
  BY <1>4, <1>5, <1>7, <1>8, SeqEqual
<1>. QED BY <1>9 DEF a, b, u

(* A list with elements behind it keeps its own, if it fits. *)
LEMMA PrefixOfCollected ==
  ASSUME NEW S, NEW s \in Seq(S), NEW t \in Seq(S), NEW n \in Nat, Len(s) <= n
  PROVE  IsPrefix(s, UpTo(n, s \o t))
<1>1. /\ s \o t \in Seq(S) /\ Len(s \o t) = Len(s) + Len(t)
      /\ \A i \in 1..Len(s) + Len(t) :
           (s \o t)[i] = IF i <= Len(s) THEN s[i] ELSE t[i - Len(s)]
  BY ConcatProperties
<1>2. /\ UpTo(n, s \o t) \in Seq(S)
      /\ Len(UpTo(n, s \o t)) = IF Len(s \o t) < n THEN Len(s \o t) ELSE n
      /\ \A i \in 1..Len(UpTo(n, s \o t)) : UpTo(n, s \o t)[i] = (s \o t)[i]
  BY <1>1, UpToIsPart
<1>. DEFINE u == UpTo(n, s \o t)
<1>3. Len(s) \in Nat /\ Len(t) \in Nat
  OBVIOUS
<1>4. Len(s) <= Len(u) /\ \A i \in 1..Len(s) : u[i] = s[i]
  BY <1>1, <1>2, <1>3
<1>5. SubSeq(s, 1, Len(s)) = SubSeq(u, 1, Len(s))
  <2>. HIDE DEF u
  <2>. QED BY <1>3, <1>4
<1>. QED BY <1>4, <1>5 DEF IsPrefix
-----------------------------------------------------------------------------
(* The satellites a sentence tells of, and their bits. *)
Told(gsa) == [i \in DOMAIN Prns(gsa) |->
                [prn |-> Prns(gsa)[i], constellation |-> Constellation(gsa)]]
Bits(gsa) == {Bit(Constellation(gsa), Prns(gsa)[i]) : i \in DOMAIN Prns(gsa)}

LEMMA ConstellationIsNat ==
  ASSUME NEW gsa PROVE Constellation(gsa) \in Nat
BY DEF Constellation, Constellations, GN, GP

(* The numbers of a sentence that are used are some of its numbers. *)
LEMMA PrnsAreUsable ==
  ASSUME NEW gsa \in GsaSentences
  PROVE  Prns(gsa) \in Seq({p \in ToSet(gsa.prns) : Usable(p)})
<1>. DEFINE s == gsa.prns
            m == Len(s)
            U == {p \in ToSet(s) : Usable(p)}
            nil == <<>>
            Grown(x, k) == IF Usable(s[k]) THEN Append(x, s[k]) ELSE x
            Value(f) == [k \in 0..m |-> IF k = 0 THEN nil ELSE Grown(f[k - 1], k)]
            step == [k \in 1..m |-> [x \in Seq(U) |-> Grown(x, k)]]
            J == CHOOSE f : f = Value(f)
<1>1. Prns(gsa) = J[m]
  BY Zenon DEF Prns
<1>2. s \in Seq(Nat)
  BY SatAssumption
<1>. HIDE DEF s
<1>3. m \in Nat /\ \A k \in 1..m : Usable(s[k]) => s[k] \in U
  <2>1. m \in Nat /\ DOMAIN s = 1..m
    BY <1>2
  <2>2. \A k \in 1..m : s[k] \in ToSet(s)
    BY <2>1 DEF ToSet
  <2>. QED BY <2>1, <2>2
<1>. HIDE DEF U, m
<1>4. nil \in Seq(U) /\ \A k \in 1..m, x \in Seq(U) : Grown(x, k) \in Seq(U)
  BY <1>3
<1>. HIDE DEF Grown, nil
<1>5. step \in [1..m -> [Seq(U) -> Seq(U)]]
  BY <1>4
<1>6. PICK g \in [0..m -> Seq(U)] :
        g[0] = nil /\ \A k \in 1..m : g[k] = step[k][g[k - 1]]
  <2>. HIDE DEF step
  <2>1. Iterations(m, Seq(U), nil, step) # {}
    BY <1>3, <1>4, <1>5, RecursionHolds
  <2>. QED BY <2>1 DEF Iterations
<1>7. \A k \in 1..m : g[k] = Grown(g[k - 1], k)
  <2>1. \A k \in 1..m : g[k - 1] \in Seq(U)
    BY <1>3
  <2>. QED BY <1>6, <2>1
<1>8. g = Value(g)
  <2>1. g = [k \in 0..m |-> g[k]]
    OBVIOUS
  <2>2. \A k \in 0..m : g[k] = IF k = 0 THEN nil ELSE Grown(g[k - 1], k)
    BY <1>3, <1>6, <1>7
  <2>. QED BY <2>1, <2>2, Zenon
<1>9. J = Value(J)
  BY <1>8, Zenon
<1>. HIDE DEF J
<1>10. J[0] = nil /\ \A k \in 1..m : J[k] = Grown(J[k - 1], k)
  BY <1>3, <1>9
<1>11. J[m] \in Seq(U)
  <2>. DEFINE T == {k \in 0..m : J[k] \in Seq(U)}
  <2>1. 0 \in T
    BY <1>3, <1>4, <1>10
  <2>2. ASSUME NEW k \in 1..m, k - 1 \in T PROVE k \in T
    BY <1>3, <1>4, <1>10, <2>2
  <2>3. \A k \in 0..m : k \in T
    <3>. HIDE DEF T
    <3>. QED BY <1>3, <2>1, <2>2, UpToN
  <2>. QED BY <1>3, <2>3
<1>. QED BY <1>1, <1>11 DEF U, s

(* What is told is a list of satellites, and their bits are set. *)
LEMMA ToldSatellites ==
  ASSUME NEW gsa \in GsaSentences
  PROVE  Told(gsa) \in Seq(Satellite) /\ Places(Told(gsa)) = Bits(gsa)
<1>. DEFINE n == Len(Prns(gsa))
            c == Constellation(gsa)
            U == {p \in ToSet(gsa.prns) : Usable(p)}
<1>1. /\ DOMAIN Prns(gsa) = 1..n /\ n \in Nat
      /\ \A i \in 1..n : Prns(gsa)[i] \in U
  <2>1. Prns(gsa) \in Seq(U)
    BY PrnsAreUsable
  <2>. HIDE DEF U
  <2>. QED BY <2>1
<1>2. \A i \in 1..n : [prn |-> Prns(gsa)[i], constellation |-> c] \in Satellite
  BY <1>1 DEF Satellite
<1>3. /\ Told(gsa) \in [1..n -> Satellite]
      /\ \A i \in 1..n : /\ Told(gsa)[i].prn = Prns(gsa)[i]
                         /\ Told(gsa)[i].constellation = c
  BY <1>1, <1>2 DEF Told
<1>4. Told(gsa) \in Seq(Satellite) /\ DOMAIN Told(gsa) = 1..n
  BY <1>1, <1>3
<1>5. \A i \in 1..n : Place(Told(gsa)[i]) = Bit(c, Prns(gsa)[i])
  BY <1>3 DEF Place
<1>6. Places(Told(gsa)) = {Bit(c, Prns(gsa)[i]) : i \in 1..n}
  BY <1>4, <1>5 DEF Places
<1>. QED BY <1>1, <1>4, <1>6 DEF Bits
-----------------------------------------------------------------------------
(* A list and a bitmask that tell of a cycle. *)
Collected(mask, list, cycle) ==
  /\ cycle \in Seq(Satellite)
  /\ list = UpTo(MaxActive, cycle)
  /\ mask = Places(cycle)

LEMMA NothingCollected == Collected({}, <<>>, <<>>)
<1>1. <<>> \in Seq(Satellite) /\ Len(<<>>) = 0 /\ DOMAIN <<>> = {}
  OBVIOUS
<1>2. UpTo(MaxActive, <<>>) = <<>>
  <2>. DEFINE nil == <<>>
              u == UpTo(MaxActive, nil)
  <2>1. MaxActive \in Nat /\ nil \in Seq(Satellite) /\ Len(nil) = 0
    BY <1>1, SatAssumption
  <2>2. /\ u \in Seq(Satellite)
        /\ Len(u) = IF Len(nil) < MaxActive THEN Len(nil) ELSE MaxActive
    <3>. HIDE DEF nil
    <3>. QED BY <2>1, UpToIsPart
  <2>. HIDE DEF u
  <2>3. u = <<>>
    BY <2>1, <2>2, EmptySeq
  <2>. QED BY <2>3 DEF u, nil
<1>3. Places(<<>>) = {}
  BY <1>1 DEF Places
<1>. QED BY <1>1, <1>2, <1>3 DEF Collected

(* What a list that is collected looks like. *)
LEMMA CollectedIs ==
  ASSUME NEW mask, NEW list, NEW cycle, Collected(mask, list, cycle)
  PROVE  /\ list \in Seq(Satellite) /\ Len(list) <= MaxActive
         /\ mask \subseteq {Place(sat) : sat \in Satellite}
         /\ list = <<>> => mask = {} /\ cycle = <<>>
<1>1. MaxActive \in Nat \ {0}
  BY SatAssumption
<1>2. /\ cycle \in Seq(Satellite) /\ list = UpTo(MaxActive, cycle)
      /\ mask = {Place(cycle[i]) : i \in DOMAIN cycle}
  BY DEF Collected, Places
<1>3. /\ list \in Seq(Satellite)
      /\ Len(list) = IF Len(cycle) < MaxActive THEN Len(cycle) ELSE MaxActive
  BY <1>1, <1>2, UpToIsPart
<1>4. Len(cycle) \in Nat /\ \A i \in DOMAIN cycle : cycle[i] \in Satellite
  BY <1>2
<1>5. list = <<>> => cycle = <<>>
  BY <1>1, <1>2, <1>3, <1>4
<1>6. cycle = <<>> => mask = {}
  BY <1>2
<1>. QED BY <1>1, <1>2, <1>3, <1>4, <1>5, <1>6

(* The satellites of a sentence are added to all three. *)
LEMMA CollectedMore ==
  ASSUME NEW mask, NEW list, NEW cycle, Collected(mask, list, cycle),
         NEW gsa \in GsaSentences
  PROVE  Collected(mask \union Bits(gsa), UpTo(MaxActive, list \o Told(gsa)),
                   cycle \o Told(gsa))
<1>. DEFINE told == Told(gsa)
            all == cycle \o told
<1>1. MaxActive \in Nat
  BY SatAssumption
<1>2. /\ cycle \in Seq(Satellite) /\ list = UpTo(MaxActive, cycle)
      /\ mask = Places(cycle)
  BY DEF Collected
<1>3. told \in Seq(Satellite) /\ Places(told) = Bits(gsa)
  BY ToldSatellites
<1>. HIDE DEF told
<1>4. /\ all \in Seq(Satellite) /\ Len(all) = Len(cycle) + Len(told)
      /\ \A i \in 1..Len(cycle) + Len(told) :
           all[i] = IF i <= Len(cycle) THEN cycle[i] ELSE told[i - Len(cycle)]
  BY <1>2, <1>3, ConcatProperties, ZenonT(30)
<1>5. UpTo(MaxActive, list \o told) = UpTo(MaxActive, all)
  BY <1>1, <1>2, <1>3, UpToTwice
<1>. HIDE DEF all
<1>6. Places(all) = Places(cycle) \union Places(told)
  <2>1. /\ DOMAIN all = 1..Len(cycle) + Len(told) /\ DOMAIN cycle = 1..Len(cycle)
        /\ DOMAIN told = 1..Len(told) /\ Len(cycle) \in Nat /\ Len(told) \in Nat
    BY <1>2, <1>3, <1>4
  <2>2. ASSUME NEW i \in DOMAIN all
        PROVE  Place(all[i]) \in Places(cycle) \union Places(told)
    <3>1. CASE i <= Len(cycle)
      <4>1. i \in DOMAIN cycle /\ all[i] = cycle[i]
        BY <1>4, <2>1, <3>1
      <4>. QED BY <4>1 DEF Places
    <3>2. CASE ~(i <= Len(cycle))
      <4>1. i - Len(cycle) \in DOMAIN told /\ all[i] = told[i - Len(cycle)]
        BY <1>4, <2>1, <3>2
      <4>. QED BY <4>1 DEF Places
    <3>. QED BY <3>1, <3>2
  <2>3. ASSUME NEW i \in DOMAIN cycle PROVE Place(cycle[i]) \in Places(all)
    <3>1. i \in DOMAIN all /\ all[i] = cycle[i]
      BY <1>4, <2>1
    <3>. QED BY <3>1 DEF Places
  <2>4. ASSUME NEW i \in DOMAIN told PROVE Place(told[i]) \in Places(all)
    <3>1. i + Len(cycle) \in DOMAIN all /\ all[i + Len(cycle)] = told[i]
      BY <1>4, <2>1
    <3>. QED BY <3>1 DEF Places
  <2>. QED BY <2>2, <2>3, <2>4 DEF Places
<1>7. Collected(mask \union Bits(gsa), UpTo(MaxActive, list \o told), all)
  BY <1>2, <1>3, <1>4, <1>5, <1>6 DEF Collected
<1>. QED BY <1>7 DEF all, told
-----------------------------------------------------------------------------
(* The actions, in terms of what they collect. *)
Repeats(gsa) == /\ ~Over(last_seen_time, last_seen_date)
                /\ sats_active_bitmask \intersect Bits(gsa) # {}
Fresh(gsa) == Over(last_seen_time, last_seen_date) \/ Repeats(gsa)

LEMMA UpdateGsa ==
  ASSUME NEW gsa, update_gsa(gsa)
  PROVE  /\ Over(last_seen_time, last_seen_date) => calls' = Delivery
         /\ Repeats(gsa) => calls' = IF cb_sats_active THEN <<Publication>> ELSE <<>>
         /\ ~Fresh(gsa) => calls' = <<>>
         /\ sats_active_bitmask' =
              (IF Fresh(gsa) THEN {} ELSE sats_active_bitmask) \union Bits(gsa)
         /\ sats_active_info' =
              UpTo(MaxActive, (IF Fresh(gsa) THEN <<>> ELSE sats_active_info)
                                \o Told(gsa))
         /\ reported' = ReportedWith(Over(last_seen_time, last_seen_date), Told(gsa))
         /\ sats_active_update_time' = last_seen_time
         /\ sats_active_update_date' = last_seen_date
         /\ active_at' = seen_at
         /\ UNCHANGED <<view, seen, config, now>>
<1>. DEFINE over == Over(last_seen_time, last_seen_date)
            conflict == AnySeen(MaskBefore(over), Constellation(gsa), Prns(gsa))
<1>1. conflict <=> Repeats(gsa)
  BY DEF AnySeen, MaskBefore, Repeats, Bits
<1>2. over \/ conflict <=> Fresh(gsa)
  BY <1>1 DEF Fresh
<1>3. /\ calls' = (IF over THEN Delivery ELSE <<>>)
                  \o (IF conflict /\ cb_sats_active THEN <<Publication>> ELSE <<>>)
      /\ sats_active_bitmask' = MaskBefore(over \/ conflict) \union Bits(gsa)
      /\ sats_active_info' =
           UpTo(MaxActive, (IF over \/ conflict THEN <<>> ELSE sats_active_info)
                             \o Told(gsa))
      /\ reported' = ReportedWith(over, Told(gsa))
      /\ sats_active_update_time' = last_seen_time
      /\ sats_active_update_date' = last_seen_date
      /\ active_at' = seen_at
      /\ UNCHANGED <<view, seen, config, now>>
  BY DEF update_gsa, Bits, Told
<1>4. over => ~Repeats(gsa)
  BY DEF Repeats
<1>5. /\ Delivery \o <<>> = Delivery /\ <<>> \o <<Publication>> = <<Publication>>
      /\ <<>> \o <<>> = <<>>
  BY DEF Delivery
<1>. HIDE DEF over, conflict
<1>6. /\ over => calls' = Delivery
      /\ Repeats(gsa) => calls' = IF cb_sats_active THEN <<Publication>> ELSE <<>>
      /\ ~Fresh(gsa) => calls' = <<>>
  BY <1>1, <1>2, <1>3, <1>4, <1>5
<1>. QED BY <1>2, <1>3, <1>6 DEF MaskBefore, Fresh, over

(* What it makes of the cycle, if the bitmask is that of the cycle. *)
LEMMA UpdateReported ==
  ASSUME NEW gsa \in GsaSentences, update_gsa(gsa),
         Collected(sats_active_bitmask, sats_active_info, reported)
  PROVE  reported' = (IF Fresh(gsa) THEN <<>> ELSE reported) \o Told(gsa)
<1>1. reported' = ReportedWith(Over(last_seen_time, last_seen_date), Told(gsa))
  BY UpdateGsa
<1>2. Told(gsa) \in Seq(Satellite) /\ Places(Told(gsa)) = Bits(gsa)
  BY ToldSatellites
<1>3. reported' = IF Fresh(gsa) THEN Told(gsa) ELSE reported \o Told(gsa)
  BY <1>1, <1>2 DEF ReportedWith, Fresh, Repeats, Collected
<1>4. <<>> \o Told(gsa) = Told(gsa)
  BY <1>2
<1>. QED BY <1>3, <1>4
-----------------------------------------------------------------------------
(* The inductive invariant, in the parts that the actions change. *)
Clock == /\ now \in Nat /\ Start <= now
         /\ seen_at \in 0 .. now /\ active_at \in 0 .. now

TimesTyped ==
  /\ sats_active_update_time \in 0 .. Day - 1 \union {NoTime}
  /\ sats_active_update_date \in Nat \union {NoDate}
  /\ last_seen_time \in 0 .. Day - 1 \union {NoTime}
  /\ last_seen_date \in Nat \union {NoDate}

Viewed == UNION {ToSet(gsv.sats) : gsv \in GsvSentences}

ViewFits ==
  /\ sats_in_view_info \in Seq(Viewed) /\ Len(sats_in_view_info) <= MaxInView
  /\ sats_in_view_total_sentences \in Nat /\ sats_in_view_last_sentence \in Nat

ConfigTyped == /\ gsa_burst_threshold \in Thresholds \union {Default}
               /\ cb_sats_in_view \in BOOLEAN /\ cb_sats_active \in BOOLEAN

SatInv == /\ Collected(sats_active_bitmask, sats_active_info, reported)
          /\ Clock /\ TimesTyped /\ ViewFits /\ ConfigTyped

LEMMA DayAndTime ==
  ASSUME NEW a \in Nat
  PROVE  a % Day \in 0 .. Day - 1 /\ a \div Day \in Nat
BY SatAssumption

(* A burst that is over leaves nothing behind, one that is not all of it. *)
LEMMA CheckKeeps ==
  ASSUME Collected(sats_active_bitmask, sats_active_info, reported),
         NEW time, NEW date, check_gsa_burst_completion(time, date)
  PROVE  Collected(sats_active_bitmask, sats_active_info, reported)'
<1>1. CASE Over(time, date)
  <2>1. sats_active_bitmask' = {} /\ sats_active_info' = <<>> /\ reported' = <<>>
    BY <1>1 DEF check_gsa_burst_completion
  <2>2. Collected(sats_active_bitmask', sats_active_info', reported')
    BY <2>1, NothingCollected
  <2>. QED BY <2>2 DEF Collected, Satellite, Places, Place
<1>2. CASE ~Over(time, date)
  BY <1>2 DEF check_gsa_burst_completion, active, Collected
<1>. QED BY <1>1, <1>2

(* What a sentence reports of the receiver's clock. *)
LEMMA ReportTyped ==
  ASSUME Clock, NEW lag \in Lags, NEW time \in Times(lag), NEW date \in Dates(lag)
  PROVE  /\ time \in 0 .. Day - 1 \union {NoTime}
         /\ date \in Nat \union {NoDate}
         /\ SeenAt(time, lag) \in 0 .. now
<1>1. lag \in Nat /\ now - lag \in 0 .. now
  BY SatAssumption DEF Clock
<1>2. /\ (now - lag) % Day \in 0 .. Day - 1 /\ (now - lag) \div Day \in Nat
  BY <1>1, DayAndTime
<1>. QED BY <1>1, <1>2 DEF Times, Dates, SeenAt, Clock

LEMMA DatetimeInvariant == SatInv /\ update_datetime => SatInv'
<1>. SUFFICES ASSUME SatInv, update_datetime PROVE SatInv'
  OBVIOUS
<1>0. PICK lag \in Lags : \E time \in Times(lag), date \in Dates(lag) :
        /\ check_gsa_burst_completion(time, date)
        /\ last_seen_date' = date /\ last_seen_time' = time
        /\ seen_at' = SeenAt(time, lag)
        /\ UNCHANGED <<stamp, view, config, now>>
  BY DEF update_datetime
<1>1. PICK time \in Times(lag), date \in Dates(lag) :
        /\ check_gsa_burst_completion(time, date)
        /\ last_seen_date' = date /\ last_seen_time' = time
        /\ seen_at' = SeenAt(time, lag)
        /\ UNCHANGED <<stamp, view, config, now>>
  BY <1>0
<1>2. Collected(sats_active_bitmask, sats_active_info, reported)'
  BY <1>1, CheckKeeps DEF SatInv
<1>3. Clock' /\ TimesTyped'
  BY <1>1, ReportTyped DEF SatInv, Clock, TimesTyped, stamp
<1>4. ViewFits' /\ ConfigTyped'
  BY <1>1 DEF SatInv, ViewFits, ConfigTyped, view, config
<1>. QED BY <1>2, <1>3, <1>4 DEF SatInv

LEMMA TimeInvariant == SatInv /\ update_time => SatInv'
<1>. SUFFICES ASSUME SatInv, update_time PROVE SatInv'
  OBVIOUS
<1>0. PICK lag \in Lags : \E time \in Times(lag) :
        /\ check_gsa_burst_completion(time, NoDate)
        /\ last_seen_time' = time
        /\ seen_at' = SeenAt(time, lag)
        /\ UNCHANGED <<last_seen_date, stamp, view, config, now>>
  BY DEF update_time
<1>1. PICK time \in Times(lag) :
        /\ check_gsa_burst_completion(time, NoDate)
        /\ last_seen_time' = time
        /\ seen_at' = SeenAt(time, lag)
        /\ UNCHANGED <<last_seen_date, stamp, view, config, now>>
  BY <1>0
<1>2. Collected(sats_active_bitmask, sats_active_info, reported)'
  BY <1>1, CheckKeeps DEF SatInv
<1>3. NoDate \in Dates(lag)
  BY DEF Dates
<1>4. Clock' /\ TimesTyped'
  BY <1>1, <1>3, ReportTyped DEF SatInv, Clock, TimesTyped, stamp
<1>5. ViewFits' /\ ConfigTyped'
  BY <1>1 DEF SatInv, ViewFits, ConfigTyped, view, config
<1>. QED BY <1>2, <1>4, <1>5 DEF SatInv

LEMMA GsvInvariant ==
  ASSUME SatInv, NEW gsv \in GsvSentences, update_gsv(gsv)
  PROVE  SatInv'
<1>. DEFINE restart == \/ gsv.msg_number = 1
                       \/ gsv.total_msgs # sats_in_view_last_sentence
            kept == IF restart THEN <<>> ELSE sats_in_view_info
            all == kept \o gsv.sats
<1>1. /\ \/ sats_in_view_info' = <<>> /\ sats_in_view_last_sentence' = 0
         \/ /\ sats_in_view_info' = UpTo(MaxInView, all)
            /\ sats_in_view_last_sentence' = gsv.msg_number
      /\ sats_in_view_total_sentences'
           \in {gsv.total_msgs, sats_in_view_total_sentences}
      /\ UNCHANGED <<active, stamp, seen, config, now>>
  BY DEF update_gsv
<1>2. /\ gsv.msg_number \in Nat /\ gsv.total_msgs \in Nat
      /\ gsv.sats \in Seq(Viewed)
  <2>1. /\ gsv.msg_number \in Nat /\ gsv.total_msgs \in Nat
        /\ gsv.sats \in Seq(ToSet(gsv.sats))
    BY GsvAssumption
  <2>2. ToSet(gsv.sats) \subseteq Viewed
    BY DEF Viewed
  <2>3. gsv.sats \in Seq(Viewed)
    <3>. HIDE DEF Viewed
    <3>. QED BY <2>1, <2>2
  <2>. QED BY <2>1, <2>3
<1>3. MaxInView \in Nat
  BY SatAssumption
<1>4. all \in Seq(Viewed)
  <2>1. kept \in Seq(Viewed)
    BY DEF SatInv, ViewFits
  <2>. HIDE DEF kept
  <2>. QED BY <1>2, <2>1
<1>. HIDE DEF all
<1>5. /\ UpTo(MaxInView, all) \in Seq(Viewed)
      /\ Len(UpTo(MaxInView, all)) <= MaxInView
  BY <1>3, <1>4, UpToIsPart
<1>6. ViewFits'
  <2>1. /\ sats_in_view_info' \in Seq(Viewed)
        /\ Len(sats_in_view_info') <= MaxInView
    <3>1. CASE sats_in_view_info' = <<>>
      BY <1>3, <3>1
    <3>2. CASE sats_in_view_info' = UpTo(MaxInView, all)
      BY <1>5, <3>2
    <3>. QED BY <1>1, <3>1, <3>2
  <2>2. sats_in_view_total_sentences' \in Nat /\ sats_in_view_last_sentence' \in Nat
    BY <1>1, <1>2 DEF SatInv, ViewFits
  <2>. QED BY <2>1, <2>2 DEF ViewFits, Viewed
<1>7. Collected(sats_active_bitmask, sats_active_info, reported)'
  BY <1>1 DEF SatInv, Collected, active
<1>8. Clock' /\ TimesTyped' /\ ConfigTyped'
  BY <1>1 DEF SatInv, Clock, TimesTyped, ConfigTyped, stamp, seen, config
<1>. QED BY <1>6, <1>7, <1>8 DEF SatInv

LEMMA GsaInvariant ==
  ASSUME SatInv, NEW gsa \in GsaSentences, update_gsa(gsa)
  PROVE  SatInv'
<1>. DEFINE mask == IF Fresh(gsa) THEN {} ELSE sats_active_bitmask
            list == IF Fresh(gsa) THEN <<>> ELSE sats_active_info
            cycle == IF Fresh(gsa) THEN <<>> ELSE reported
<1>1. /\ sats_active_bitmask' = mask \union Bits(gsa)
      /\ sats_active_info' = UpTo(MaxActive, list \o Told(gsa))
      /\ sats_active_update_time' = last_seen_time
      /\ sats_active_update_date' = last_seen_date
      /\ active_at' = seen_at
      /\ UNCHANGED <<view, seen, config, now>>
  BY UpdateGsa
<1>2. Collected(mask, list, cycle)
  BY NothingCollected DEF SatInv
<1>3. reported' = cycle \o Told(gsa)
  BY UpdateReported DEF SatInv
<1>4. Collected(sats_active_bitmask', sats_active_info', reported')
  <2>. HIDE DEF mask, list, cycle
  <2>. QED BY <1>1, <1>2, <1>3, CollectedMore
<1>5. Collected(sats_active_bitmask, sats_active_info, reported)'
  BY <1>4 DEF Collected, Satellite, Places, Place
<1>6. Clock' /\ TimesTyped' /\ ViewFits' /\ ConfigTyped'
  BY <1>1 DEF SatInv, Clock, TimesTyped, ViewFits, ConfigTyped, view, seen, config
<1>. QED BY <1>5, <1>6 DEF SatInv

LEMMA SatInitInvariant == Init => SatInv
<1>. SUFFICES ASSUME Init PROVE SatInv
  OBVIOUS
<1>1. Collected(sats_active_bitmask, sats_active_info, reported)
  BY NothingCollected DEF Init
<1>2. Clock /\ TimesTyped
  BY SatAssumption DEF Init, Clock, TimesTyped, NoTime, NoDate
<1>3. ViewFits
  <2>1. <<>> \in Seq(Viewed) /\ Len(<<>>) <= MaxInView
    <3>. HIDE DEF Viewed
    <3>. QED BY SatAssumption
  <2>. HIDE DEF Viewed
  <2>. QED BY <2>1 DEF Init, ViewFits
<1>4. ConfigTyped
  BY DEF Init, ConfigTyped
<1>. QED BY <1>1, <1>2, <1>3, <1>4 DEF SatInv

LEMMA SatNextInvariant == SatInv /\ [Next]_vars => SatInv'
<1>. SUFFICES ASSUME SatInv, [Next]_vars PROVE SatInv'
  OBVIOUS
<1>1. CASE set_gsa_threshold
  BY <1>1 DEF set_gsa_threshold, SatInv, Collected, Clock, TimesTyped, ViewFits,
              ConfigTyped, active, stamp, view, seen
<1>2. CASE register_callbacks
  BY <1>2 DEF register_callbacks, SatInv, Collected, Clock, TimesTyped, ViewFits,
              ConfigTyped, active, stamp, view, seen
<1>3. CASE update_sentence
  BY <1>3, DatetimeInvariant, TimeInvariant, GsvInvariant, GsaInvariant
     DEF update_sentence
<1>4. CASE Tick
  <2>1. /\ now' = now + 1 /\ UNCHANGED <<active, stamp, view, seen, config>>
    BY <1>4 DEF Tick
  <2>2. Clock'
    BY <2>1, SatAssumption DEF SatInv, Clock, stamp, seen
  <2>3. Collected(sats_active_bitmask, sats_active_info, reported)'
    BY <2>1 DEF SatInv, Collected, active
  <2>4. TimesTyped' /\ ViewFits' /\ ConfigTyped'
    BY <2>1 DEF SatInv, TimesTyped, ViewFits, ConfigTyped, stamp, view, seen, config
  <2>. QED BY <2>2, <2>3, <2>4 DEF SatInv
<1>5. CASE UNCHANGED vars
  BY <1>5 DEF vars, SatInv, Collected, Clock, TimesTyped, ViewFits, ConfigTyped,
              active, stamp, view, seen, config
<1>. QED BY <1>1, <1>2, <1>3, <1>4, <1>5 DEF Next

(* The list, the bitmask, the clocks and the view stay consistent under     *)
(* every sentence, for every threshold and every room in the lists.         *)
THEOREM SatInvariant == Spec => []SatInv
BY SatInitInvariant, SatNextInvariant, PTL DEF Spec

(* Every field of the tracker keeps its type, and its lists fit in their    *)
(* arrays.                                                                  *)
THEOREM SatTypes == Spec => []TypeOK
<1>1. SatInv => TypeOK
  <2>. SUFFICES ASSUME SatInv PROVE TypeOK
    OBVIOUS
  <2>1. /\ sats_active_bitmask \subseteq {Place(sat) : sat \in Satellite}
        /\ sats_active_info \in Seq(Satellite) /\ Len(sats_active_info) <= MaxActive
    BY CollectedIs DEF SatInv
  <2>2. reported \in Seq(Satellite)
    BY DEF SatInv, Collected
  <2>. QED BY <2>1, <2>2
           DEF SatInv, TypeOK, Clock, TimesTyped, ViewFits, ConfigTyped
<1>. QED BY <1>1, SatInvariant, PTL

(* The list is the first of what this cycle of sentences reported, the      *)
(* bitmask all of it: neither loses, keeps or reorders a satellite of       *)
(* another, whatever the sentences name and however often.                  *)
THEOREM SatListIsTheCycle == Spec => []ListIsTheCycle
<1>1. SatInv => ListIsTheCycle
  BY DEF SatInv, ListIsTheCycle, Collected
<1>. QED BY <1>1, SatInvariant, PTL

(* update_gsa and check_gsa_burst_completion never start the list anew      *)
(* before an application that listens was given all of it.                  *)
THEOREM SatNothingDropped == Spec => NothingDropped
<1>1. SatInv /\ [Next]_vars =>
        [/\ cb_sats_active
         /\ ~IsPrefix(sats_active_info, sats_active_info')
         => calls' = <<Publication>>]_vars
  <2>. SUFFICES ASSUME SatInv, [Next]_vars, cb_sats_active,
                       ~IsPrefix(sats_active_info, sats_active_info')
                PROVE  calls' = <<Publication>>
    OBVIOUS
  <2>1. /\ sats_active_info \in Seq(Satellite)
        /\ MaxActive \in Nat /\ Len(sats_active_info) <= MaxActive
    BY SatAssumption, CollectedIs DEF SatInv
  <2>2. sats_active_info' # sats_active_info
    BY <2>1 DEF IsPrefix
  <2>3. sats_active_info # <<>>
    <3>. SUFFICES ASSUME sats_active_info = <<>> PROVE FALSE
      OBVIOUS
    <3>1. SatInv'
      BY SatNextInvariant
    <3>2. sats_active_info' \in Seq(Satellite)
      <4>1. Collected(sats_active_bitmask, sats_active_info, reported)'
        BY <3>1 DEF SatInv
      <4>2. Collected(sats_active_bitmask', sats_active_info', reported')
        BY <4>1 DEF Collected, Satellite, Places, Place
      <4>. QED BY <4>2, CollectedIs
    <3>. QED BY <3>2 DEF IsPrefix
  <2>4. Delivery = <<Publication>>
    BY <2>3 DEF Delivery
  <2>5. CASE update_datetime \/ update_time
    <3>1. PICK time, date : check_gsa_burst_completion(time, date)
      BY <2>5 DEF update_datetime, update_time
    <3>. QED BY <2>2, <2>4, <3>1 DEF check_gsa_burst_completion, active
  <2>6. ASSUME NEW gsa \in GsaSentences, update_gsa(gsa)
        PROVE  calls' = <<Publication>>
    <3>1. CASE Over(last_seen_time, last_seen_date)
      BY <2>4, <2>6, <3>1, UpdateGsa
    <3>2. CASE Repeats(gsa)
      BY <2>6, <3>2, UpdateGsa
    <3>3. CASE ~Fresh(gsa)
      <4>1. sats_active_info' = UpTo(MaxActive, sats_active_info \o Told(gsa))
        BY <2>6, <3>3, UpdateGsa
      <4>2. Told(gsa) \in Seq(Satellite)
        BY ToldSatellites
      <4>. QED BY <2>1, <4>1, <4>2, PrefixOfCollected
    <3>. QED BY <3>1, <3>2, <3>3 DEF Fresh
  <2>7. CASE \E gsv \in GsvSentences : update_gsv(gsv)
    BY <2>2, <2>7 DEF update_gsv, active
  <2>8. CASE set_gsa_threshold \/ register_callbacks \/ Tick \/ UNCHANGED vars
    BY <2>2, <2>8 DEF set_gsa_threshold, register_callbacks, Tick, vars, active
  <2>. QED BY <2>5, <2>6, <2>7, <2>8 DEF Next, update_sentence
<1>. QED BY <1>1, SatInvariant, PTL DEF Spec, NothingDropped
-----------------------------------------------------------------------------
(* The tracker implements ActiveSets: its list is what is given of a cycle. *)
LEMMA ListedIsGiven ==
  ASSUME Collected(sats_active_bitmask, sats_active_info, reported)
  PROVE  sats_active_info = Abstract!Given
BY DEF Collected, UpTo, Abstract!Given

(* The lists delivered, as a function of the calls of a step. *)
Handed(made) == {made[i].sats : i \in {j \in DOMAIN made : made[j].cb = "active"}}

LEMMA HandedNothing == Handed(<<>>) = {}
BY DEF Handed

LEMMA HandedList == Handed(<<Publication>>) = {sats_active_info}
BY DEF Handed, Publication

(* A sentence that repeats nothing of the cycle, and calls nobody, adds to  *)
(* it.                                                                      *)
LEMMA GrowthIsCollect ==
  ASSUME Collected(sats_active_bitmask, sats_active_info, reported),
         NEW gsa \in GsaSentences, sats_active_bitmask \intersect Bits(gsa) = {},
         reported' = reported \o Told(gsa),
         calls' = <<>>, UNCHANGED cb_sats_active
  PROVE  Abstract!Collect
<1>. DEFINE told == Told(gsa)
            n == Len(reported)
<1>1. /\ reported \in Seq(Satellite) /\ DOMAIN reported = 1..n /\ n \in Nat
      /\ sats_active_bitmask = Places(reported)
  BY DEF Collected
<1>2. /\ told \in Seq(Satellite) /\ Places(told) = Bits(gsa)
      /\ DOMAIN told = 1..Len(told) /\ Len(told) \in Nat
  BY ToldSatellites
<1>3. reported' = reported \o told
  OBVIOUS
<1>. HIDE DEF told, n
<1>4. /\ reported' \in Seq(Satellite) /\ Len(reported') = n + Len(told)
      /\ \A i \in 1..n + Len(told) :
           reported'[i] = IF i <= n THEN reported[i] ELSE told[i - n]
  <2>1. /\ reported \o told \in Seq(Satellite)
        /\ Len(reported \o told) = Len(reported) + Len(told)
        /\ \A i \in 1..Len(reported) + Len(told) :
             (reported \o told)[i] = IF i <= Len(reported) THEN reported[i]
                                    ELSE told[i - Len(reported)]
    BY <1>1, <1>2, ConcatProperties, ZenonT(30)
  <2>. QED BY <1>3, <2>1 DEF n
<1>5. Len(reported) <= Len(reported')
      /\ SubSeq(reported, 1, Len(reported)) = SubSeq(reported', 1, Len(reported))
  <2>1. n = Len(reported) /\ n <= Len(reported')
    BY <1>1, <1>2, <1>4 DEF n
  <2>2. \A i \in 1..n : reported'[i] = reported[i]
    BY <1>1, <1>2, <1>4
  <2>3. SubSeq(reported, 1, n) = SubSeq(reported', 1, n)
    BY <1>1, <1>4, <2>1, <2>2
  <2>. QED BY <2>1, <2>3
<1>6. Abstract!Added \intersect ToSet(reported) = {}
  <2>. SUFFICES ASSUME NEW i \in n + 1 .. Len(reported'), NEW j \in 1..n,
                       reported'[i] = reported[j]
                PROVE  FALSE
    BY <1>1 DEF Abstract!Added, ToSet, n
  <2>1. i - n \in DOMAIN told /\ reported'[i] = told[i - n]
    BY <1>1, <1>2, <1>4
  <2>2. Place(told[i - n]) \in Bits(gsa)
    BY <1>2, <2>1 DEF Places
  <2>3. Place(reported[j]) \in sats_active_bitmask
    BY <1>1 DEF Places
  <2>. QED BY <2>1, <2>2, <2>3
<1>7. Handed(calls') = {}
  BY HandedNothing
<1>. QED BY <1>4, <1>5, <1>6, <1>7
         DEF Abstract!Collect, Abstract!IsPrefix, Abstract!ToSet, ToSet, Handed

(* A step that starts the list anew hands over the one before it, if there *)
(* is one and the application listens.                                     *)
LEMMA ResetIsHandOver ==
  ASSUME Collected(sats_active_bitmask, sats_active_info, reported),
         cb_sats_active \in BOOLEAN, reported' \in Seq(Satellite),
         sats_active_info # <<>>, UNCHANGED cb_sats_active,
         calls' = IF cb_sats_active THEN <<Publication>> ELSE <<>>
  PROVE  Abstract!HandOver
<1>1. sats_active_info = Abstract!Given
  BY ListedIsGiven
<1>2. reported # <<>>
  <2>. SUFFICES ASSUME reported = <<>> PROVE sats_active_info = <<>>
    OBVIOUS
  <2>1. sats_active_info = UpTo(MaxActive, <<>>)
    BY DEF Collected
  <2>. QED BY <2>1, NothingCollected DEF Collected
<1>3. CASE cb_sats_active
  <2>1. Handed(calls') = {sats_active_info}
    BY <1>3, HandedList
  <2>. QED BY <1>1, <1>2, <1>3, <2>1 DEF Abstract!HandOver, Handed
<1>4. CASE ~cb_sats_active
  <2>1. Handed(calls') = {}
    BY <1>4, HandedNothing
  <2>. QED BY <1>2, <1>4, <2>1 DEF Abstract!HandOver, Handed
<1>. QED BY <1>3, <1>4

(* A step that changes no cycle, and hands none over, is quiet. *)
LEMMA QuietStep ==
  ASSUME UNCHANGED <<reported, cb_sats_active>>, Handed(calls') = {}
  PROVE  Abstract!Quiet
BY DEF Abstract!Quiet, Handed

LEMMA CheckImplements ==
  ASSUME SatInv, NEW time, NEW date,
         check_gsa_burst_completion(time, date), UNCHANGED cb_sats_active
  PROVE  Abstract!Next
<1>1. /\ Collected(sats_active_bitmask, sats_active_info, reported)
      /\ cb_sats_active \in BOOLEAN
  BY DEF SatInv, ConfigTyped
<1>2. CASE Over(time, date) /\ sats_active_info # <<>>
  <2>1. calls' = IF cb_sats_active THEN <<Publication>> ELSE <<>>
    BY <1>2 DEF check_gsa_burst_completion, Delivery
  <2>2. reported' \in Seq(Satellite)
    BY <1>2 DEF check_gsa_burst_completion
  <2>. QED BY <1>1, <1>2, <2>1, <2>2, ResetIsHandOver DEF Abstract!Next
<1>3. CASE ~Over(time, date) \/ sats_active_info = <<>>
  <2>1. calls' = <<>>
    BY <1>3 DEF check_gsa_burst_completion, Delivery
  <2>2. reported' = reported
    BY <1>1, <1>3, CollectedIs DEF check_gsa_burst_completion, active
  <2>. QED BY <2>1, <2>2, HandedNothing, QuietStep DEF Abstract!Next
<1>. QED BY <1>2, <1>3

LEMMA GsaImplements ==
  ASSUME SatInv, NEW gsa \in GsaSentences, update_gsa(gsa)
  PROVE  Abstract!Next
<1>1. /\ Collected(sats_active_bitmask, sats_active_info, reported)
      /\ cb_sats_active \in BOOLEAN
  BY DEF SatInv, ConfigTyped
<1>2. UNCHANGED cb_sats_active
  BY UpdateGsa DEF config
<1>3. Told(gsa) \in Seq(Satellite)
  BY ToldSatellites
<1>4. reported' = (IF Fresh(gsa) THEN <<>> ELSE reported) \o Told(gsa)
  BY <1>1, UpdateReported
<1>5. CASE Fresh(gsa) /\ sats_active_info # <<>>
  <2>1. calls' = IF cb_sats_active THEN <<Publication>> ELSE <<>>
    <3>1. CASE Over(last_seen_time, last_seen_date)
      BY <1>5, <3>1, UpdateGsa DEF Delivery
    <3>2. CASE Repeats(gsa)
      BY <3>2, UpdateGsa
    <3>. QED BY <1>5, <3>1, <3>2 DEF Fresh
  <2>2. reported' \in Seq(Satellite)
    BY <1>3, <1>4, <1>5
  <2>. QED BY <1>1, <1>2, <1>5, <2>1, <2>2, ResetIsHandOver DEF Abstract!Next
<1>6. CASE ~Fresh(gsa) \/ sats_active_info = <<>>
  <2>1. sats_active_info = <<>> => sats_active_bitmask = {} /\ reported = <<>>
    BY <1>1, CollectedIs
  <2>2. ~Repeats(gsa)
    BY <1>6, <2>1 DEF Fresh, Repeats
  <2>3. calls' = <<>>
    <3>1. CASE Over(last_seen_time, last_seen_date)
      BY <1>6, <3>1, UpdateGsa DEF Delivery, Fresh
    <3>2. CASE ~Fresh(gsa)
      BY <3>2, UpdateGsa
    <3>. QED BY <2>2, <3>1, <3>2 DEF Fresh
  <2>4. reported' = reported \o Told(gsa)
    BY <1>4, <1>6, <2>1
  <2>5. sats_active_bitmask \intersect Bits(gsa) = {}
    BY <1>6, <2>1 DEF Fresh, Repeats
  <2>. QED BY <1>1, <1>2, <2>3, <2>4, <2>5, GrowthIsCollect DEF Abstract!Next
<1>. QED BY <1>5, <1>6

LEMMA GsvImplements ==
  ASSUME NEW gsv, update_gsv(gsv)
  PROVE  Abstract!Next
<1>1. UNCHANGED <<reported, cb_sats_active>>
  BY DEF update_gsv, active, config
<1>2. \A i \in DOMAIN calls' : calls'[i].cb = "view"
  BY DEF update_gsv
<1>3. Handed(calls') = {}
  BY <1>2 DEF Handed
<1>. QED BY <1>1, <1>3, QuietStep DEF Abstract!Next

LEMMA SatNextImplements ==
  ASSUME SatInv, [Next]_vars
  PROVE  [Abstract!Next]_Abstract!vars
<1>1. CASE set_gsa_threshold \/ Tick
  <2>1. calls' = <<>> /\ UNCHANGED <<reported, cb_sats_active>>
    BY <1>1 DEF set_gsa_threshold, Tick, active, config
  <2>. QED BY <2>1, HandedNothing, QuietStep DEF Abstract!Next
<1>2. CASE register_callbacks
  <2>1. /\ calls' = <<>> /\ cb_sats_active' \in BOOLEAN
        /\ reported' = reported
    BY <1>2 DEF register_callbacks, active
  <2>2. Handed(calls') = {}
    BY <2>1, HandedNothing
  <2>. QED BY <2>1, <2>2 DEF Abstract!Next, Abstract!Register, Handed
<1>3. CASE update_datetime \/ update_time
  <2>1. PICK time, date : check_gsa_burst_completion(time, date)
    BY <1>3 DEF update_datetime, update_time
  <2>2. UNCHANGED cb_sats_active
    BY <1>3 DEF update_datetime, update_time, config
  <2>. QED BY <2>1, <2>2, CheckImplements
<1>4. CASE \E gsv \in GsvSentences : update_gsv(gsv)
  BY <1>4, GsvImplements
<1>5. CASE \E gsa \in GsaSentences : update_gsa(gsa)
  BY <1>5, GsaImplements
<1>6. CASE UNCHANGED vars
  BY <1>6 DEF vars, active, config, Abstract!vars
<1>. QED BY <1>1, <1>2, <1>3, <1>4, <1>5, <1>6 DEF Next, update_sentence

(* The tracker implements the cycles its header promises, whatever the rows *)
(* of its bitmask are made of.                                              *)
THEOREM SatKeepsPromises == Spec => KeepsPromises
<1>1. Init => Abstract!Init
  BY DEF Init, Abstract!Init
<1>2. SatInv /\ [Next]_vars => [Abstract!Next]_Abstract!vars
  BY SatNextImplements
<1>. QED BY <1>1, <1>2, SatInvariant, PTL DEF Spec, KeepsPromises, Abstract!Spec
-----------------------------------------------------------------------------
(* The satellites in view.                                                  *)

(* A sequence of one list is flattened to that list. *)
LEMMA FlattenOne ==
  ASSUME NEW s
  PROVE  FlattenSeq(<<s>>) = s
<1>. DEFINE seqs == <<s>>
            Step(f, i) == IF i = 1 THEN seqs[i] ELSE f[i - 1] \o seqs[i]
            flatten == CHOOSE f : f = [i \in 1..1 |-> Step(f, i)]
            g == [i \in 1..1 |-> s]
<1>1. g = [i \in 1..1 |-> Step(g, i)]
  OBVIOUS
<1>2. flatten = [i \in 1..1 |-> Step(flatten, i)]
  <2>. HIDE DEF g, Step
  <2>. QED BY <1>1
<1>3. flatten[1] = s
  <2>1. flatten[1] = Step(flatten, 1)
    <3>. HIDE DEF Step, flatten
    <3>. QED BY <1>2
  <2>. QED BY <2>1
<1>4. FlattenSeq(<<s>>) = flatten[1]
  <2>1. Len(seqs) = 1
    OBVIOUS
  <2>. QED BY <2>1 DEF FlattenSeq
<1>. QED BY <1>3, <1>4

(* The view that is published is that of one message, which is all of its  *)
(* sequence: update_gsv starts anew at every message of a longer one, since *)
(* it compares the number of messages with that of the last message heard. *)
LEMMA ViewOfOneMessage ==
  ASSUME Next, NEW i \in DOMAIN calls', calls'[i].cb = "view"
  PROVE  \E gsv \in GsvSentences :
            /\ gsv.total_msgs = 1 /\ heard' = <<gsv>>
            /\ calls'[i].sats = UpTo(MaxInView, gsv.sats)
<1>1. ASSUME NEW gsv \in GsvSentences, update_gsv(gsv)
      PROVE  /\ gsv.total_msgs = 1 /\ heard' = <<gsv>>
             /\ calls'[i].sats = UpTo(MaxInView, gsv.sats)
  <2>. DEFINE restart == \/ gsv.msg_number = 1
                         \/ gsv.total_msgs # sats_in_view_last_sentence
              last == IF restart THEN 0 ELSE sats_in_view_last_sentence
              kept == IF restart THEN <<>> ELSE sats_in_view_info
              all == UpTo(MaxInView, kept \o gsv.sats)
  <2>1. /\ gsv.msg_number = last + 1 /\ gsv.msg_number = gsv.total_msgs
        /\ calls' = <<[cb |-> "view", sats |-> all, date |-> last_seen_date,
                       time |-> last_seen_time]>>
    <3>. HIDE DEF all
    <3>. QED BY <1>1 DEF update_gsv, Continues, all
  <2>2. restart
    BY <2>1, GsvAssumption
  <2>3. gsv.msg_number = 1 /\ gsv.total_msgs = 1
    BY <2>1, <2>2
  <2>4. heard' = <<gsv>>
    BY <1>1, <2>3 DEF update_gsv, HeardWith
  <2>5. <<>> \o gsv.sats = gsv.sats
    BY GsvAssumption
  <2>6. all = UpTo(MaxInView, gsv.sats)
    BY <2>2, <2>5
  <2>7. calls'[i].sats = all
    <3>. HIDE DEF all
    <3>. QED BY <2>1
  <2>. QED BY <2>3, <2>4, <2>6, <2>7
<1>2. Publication.cb # "view" /\ calls'[i] # Publication
  BY DEF Publication
<1>3. ASSUME calls' \in {<<>>, <<Publication>>} PROVE FALSE
  <2>. HIDE DEF Publication
  <2>. QED BY <1>2, <1>3
<1>4. ASSUME NEW time, NEW date, check_gsa_burst_completion(time, date) PROVE FALSE
  BY <1>4, <1>3 DEF check_gsa_burst_completion, Delivery
<1>5. ASSUME NEW gsa \in GsaSentences, update_gsa(gsa) PROVE FALSE
  <2>1. \A t \in {<<>>, <<Publication>>} : t \o <<>> = t /\ <<>> \o t = t
    <3>. HIDE DEF Publication
    <3>. QED OBVIOUS
  <2>2. Delivery \in {<<>>, <<Publication>>}
    BY DEF Delivery
  <2>3. calls' \in {<<>>, <<Publication>>}
    <3>. HIDE DEF Publication
    <3>. QED BY <1>5, <2>1, <2>2, UpdateGsa DEF Fresh
  <2>. QED BY <1>3, <2>3
<1>6. CASE set_gsa_threshold \/ register_callbacks \/ Tick
  BY <1>6, <1>3 DEF set_gsa_threshold, register_callbacks, Tick
<1>7. CASE update_datetime \/ update_time
  BY <1>4, <1>7 DEF update_datetime, update_time
<1>. QED BY <1>1, <1>5, <1>6, <1>7 DEF Next, update_sentence

(* A view that is published tells of messages 1 to total_msgs of one        *)
(* sequence, all of which were heard, in order and without another.         *)
THEOREM SatViewIsTheSequence == Spec => ViewIsTheSequence
<1>1. ASSUME Next, NEW i \in DOMAIN calls', calls'[i].cb = "view"
      PROVE  /\ heard' # <<>> /\ Len(heard') = heard'[1].total_msgs
             /\ calls'[i].sats =
                  UpTo(MaxInView, FlattenSeq([k \in DOMAIN heard' |-> heard'[k].sats]))
  <2>1. PICK gsv \in GsvSentences :
            /\ gsv.total_msgs = 1 /\ heard' = <<gsv>>
            /\ calls'[i].sats = UpTo(MaxInView, gsv.sats)
    BY <1>1, ViewOfOneMessage
  <2>2. [k \in DOMAIN heard' |-> heard'[k].sats] = <<gsv.sats>>
    BY <2>1
  <2>. QED BY <2>1, <2>2, FlattenOne
<1>2. [Next]_vars =>
        [\A i \in DOMAIN calls' : calls'[i].cb = "view" =>
           /\ heard' # <<>> /\ Len(heard') = heard'[1].total_msgs
           /\ calls'[i].sats =
                UpTo(MaxInView,
                     FlattenSeq([k \in DOMAIN heard' |-> heard'[k].sats]))]_vars
  BY <1>1
<1>. QED BY <1>2, PTL DEF Spec, ViewIsTheSequence
-----------------------------------------------------------------------------
(* Two moments and the times and days they are reported as.                 *)

LEMMA DayParts ==
  ASSUME NEW a \in Nat
  PROVE  /\ a = Day * (a \div Day) + (a % Day)
         /\ a % Day \in Nat /\ a % Day < Day /\ a \div Day \in Nat
         /\ Day \in Nat /\ Day > 0
BY SatAssumption

LEMMA TwoMoments ==
  ASSUME NEW a \in Nat, NEW s \in Nat, a <= s
  PROVE  LET da == a \div Day
             ds == s \div Day
         IN /\ da <= ds
            /\ da = ds => SameDay(a % Day, s % Day) = s - a
            /\ da # ds => NextDay(a % Day, s % Day) <= s - a
            /\ s - a < Day => ds \in {da, da + 1}
            /\ ds = da + 1 => NextDay(a % Day, s % Day) = s - a
            /\ SameDay(a % Day, s % Day) <= s - a
            /\ NextDay(a % Day, s % Day) > 0
<1>. DEFINE d == Day
            p == a \div Day
            q == s \div Day
            x == a % Day
            y == s % Day
<1>1. /\ a = d * p + x /\ s = d * q + y /\ x \in Nat /\ y \in Nat /\ x < d /\ y < d
      /\ p \in Nat /\ q \in Nat /\ d \in Nat /\ d > 0
  BY DayParts
<1>. HIDE DEF d, p, q, x, y
<1>2. s - a = d * (q - p) + y - x
  BY <1>1
<1>3. ASSUME q < p PROVE FALSE
  <2>1. d * (p - q) >= d
    BY <1>1, <1>3
  <2>2. d * (q - p) = 0 - d * (p - q)
    BY <1>1
  <2>. DEFINE m == d * (p - q)
  <2>. HIDE DEF m
  <2>. QED BY <1>1, <1>2, <2>1, <2>2 DEF m
<1>4. q # p => d * (q - p) >= d
  BY <1>1, <1>3
<1>5. q = p => d * (q - p) = 0
  BY <1>1
<1>6. q = p + 1 => d * (q - p) = d
  BY <1>1
<1>7. q >= p + 2 => d * (q - p) >= 2 * d
  BY <1>1
<1>. DEFINE m == d * (q - p)
<1>8. m \in Int /\ s - a = m + y - x
  BY <1>1, <1>2
<1>. HIDE DEF m
<1>9. /\ p <= q
      /\ p = q => y - x = s - a
      /\ p # q => y + d - x <= s - a
      /\ s - a < d => q \in {p, p + 1}
      /\ q = p + 1 => y + d - x = s - a
      /\ y - x <= s - a
      /\ y + d - x > 0
  BY <1>1, <1>3, <1>4, <1>5, <1>6, <1>7, <1>8 DEF m
<1>. QED BY <1>9 DEF d, p, q, x, y, SameDay, NextDay

(* What get_time_delta_ms makes of them: nothing longer than the time that  *)
(* passed, when the days are right or unknown, and that time exactly when   *)
(* it is shorter than the span in which a rollover is believed.             *)
LEMMA DeltaIsElapsed ==
  ASSUME NEW a \in Nat, NEW s \in Nat, a <= s,
         NEW old \in Nat \union {NoDate}, NEW new \in Nat \union {NoDate}
  PROVE  LET delta == get_time_delta_ms(a % Day, old, s % Day, new)
         IN /\ /\ old \in {a \div Day, NoDate}
               /\ new # NoDate => (old # NoDate => old <= new) /\ new <= s \div Day
               => delta <= s - a
            /\ /\ s - a < Rollover
               /\ new \in {s \div Day, NoDate}
               /\ old # NoDate => old <= a \div Day
               => delta >= s - a
<1>. DEFINE x == a % Day
            y == s % Day
            p == a \div Day
            q == s \div Day
            same == SameDay(x, y)
            next == NextDay(x, y)
            dated == old # NoDate /\ new # NoDate
            wrapped == IF dated THEN old # new ELSE y < x /\ next < Rollover
            delta == get_time_delta_ms(x, old, y, new)
<1>1. delta = IF wrapped THEN next ELSE same
  <2>1. x # NoTime /\ y # NoTime
    BY DayParts DEF NoTime
  <2>. QED BY <2>1 DEF get_time_delta_ms
<1>2. /\ p <= q
      /\ p = q => same = s - a
      /\ p # q => next <= s - a
      /\ s - a < Day => q \in {p, p + 1}
      /\ q = p + 1 => next = s - a
      /\ same <= s - a
  BY TwoMoments
<1>3. /\ x \in Nat /\ y \in Nat /\ p \in Nat /\ q \in Nat /\ Day \in Nat
      /\ next = y + Day - x /\ same = y - x
      /\ Rollover \in Nat /\ Rollover <= Day
  BY DayParts, SatAssumption DEF NextDay, SameDay
<1>4. old \in Int /\ new \in Int /\ (old # NoDate => old \in Nat) /\ (new # NoDate => new \in Nat)
      /\ NoDate = -1
  BY DEF NoDate
<1>. HIDE DEF x, y, p, q, same, next, delta
<1>5. ASSUME old \in {p, NoDate}, new # NoDate => (old # NoDate => old <= new) /\ new <= q
      PROVE  delta <= s - a
  <2>1. CASE dated
    BY <1>1, <1>2, <1>3, <1>4, <1>5, <2>1
  <2>2. CASE ~dated
    BY <1>1, <1>2, <1>3, <1>4, <2>2
  <2>. QED BY <2>1, <2>2
<1>6. ASSUME s - a < Rollover, new \in {q, NoDate}, old # NoDate => old <= p
      PROVE  delta >= s - a
  <2>1. CASE dated
    BY <1>1, <1>2, <1>3, <1>4, <1>6, <2>1
  <2>2. CASE ~dated
    BY <1>1, <1>2, <1>3, <1>4, <1>6, <2>2
  <2>. QED BY <2>1, <2>2
<1>. QED BY <1>5, <1>6 DEF x, y, p, q, delta

(* The receiver reports its times when it takes them.                       *)
Punctual == Lags = {0}

(* What is known of a time is of the moment it was taken at, dates do not   *)
(* go back, and none is of a day to come.                                   *)
TimesOfTheClock ==
  /\ active_at <= seen_at /\ now - seen_at <= MaxGap
  /\ last_seen_time \in {NoTime, seen_at % Day}
  /\ sats_active_update_time \in {NoTime, active_at % Day}
  /\ last_seen_date <= now \div Day /\ sats_active_update_date <= now \div Day
  /\ last_seen_time # NoTime => last_seen_date <= seen_at \div Day
  /\ sats_active_update_time # NoTime => sats_active_update_date <= active_at \div Day
  /\ sats_active_update_date # NoDate /\ last_seen_date # NoDate =>
       sats_active_update_date <= last_seen_date

(* A burst is never so old that a midnight in it is not believed.           *)
WithinRollover ==
  sats_active_bitmask # {} /\ sats_active_update_time # NoTime =>
    seen_at + MaxGap < active_at + Rollover

LEMMA LaterDay ==
  ASSUME NEW a \in Nat, NEW s \in Nat, a <= s
  PROVE  a \div Day <= s \div Day
BY TwoMoments

LEMMA InitTimes == Init => TimesOfTheClock /\ WithinRollover
<1>. SUFFICES ASSUME Init PROVE TimesOfTheClock /\ WithinRollover
  OBVIOUS
<1>1. Start \in Nat /\ Start \div Day \in Nat /\ MaxGap \in Nat
  BY SatAssumption, DayParts
<1>. QED BY <1>1 DEF Init, TimesOfTheClock, WithinRollover, NoTime, NoDate

(* A sentence with a time, and with a date or not. *)
Report(time, date) ==
  /\ check_gsa_burst_completion(time, date)
  /\ last_seen_time' = time
  /\ seen_at' = IF time = NoTime THEN seen_at ELSE now
  /\ time \in {now % Day, NoTime}
  /\ date \in {now \div Day, NoDate}
  /\ last_seen_date' = date \/ (date = NoDate /\ UNCHANGED last_seen_date)
  /\ UNCHANGED <<stamp, view, config, now>>

LEMMA ReportsAre ==
  ASSUME Punctual, SatInv, update_datetime \/ update_time
  PROVE  \E time, date : Report(time, date)
<1>1. now \in Nat /\ now - 0 = now
  BY DEF SatInv, Clock
<1>2. CASE update_datetime
  <2>1. PICK lag \in Lags : \E time \in Times(lag), date \in Dates(lag) :
          /\ check_gsa_burst_completion(time, date)
          /\ last_seen_date' = date
          /\ last_seen_time' = time
          /\ seen_at' = SeenAt(time, lag)
          /\ UNCHANGED <<stamp, view, config, now>>
    BY <1>2 DEF update_datetime
  <2>2. lag = 0
    BY DEF Punctual
  <2>3. PICK time \in Times(0), date \in Dates(0) :
          /\ check_gsa_burst_completion(time, date)
          /\ last_seen_date' = date
          /\ last_seen_time' = time
          /\ seen_at' = SeenAt(time, 0)
          /\ UNCHANGED <<stamp, view, config, now>>
    BY <2>1, <2>2
  <2>4. Report(time, date)
    BY <1>1, <2>3 DEF Report, Times, Dates, SeenAt
  <2>. QED BY <2>4
<1>3. CASE update_time
  <2>1. PICK lag \in Lags : \E time \in Times(lag) :
          /\ check_gsa_burst_completion(time, NoDate)
          /\ last_seen_time' = time
          /\ seen_at' = SeenAt(time, lag)
          /\ UNCHANGED <<last_seen_date, stamp, view, config, now>>
    BY <1>3 DEF update_time
  <2>2. lag = 0
    BY DEF Punctual
  <2>3. PICK time \in Times(0) :
          /\ check_gsa_burst_completion(time, NoDate)
          /\ last_seen_time' = time
          /\ seen_at' = SeenAt(time, 0)
          /\ UNCHANGED <<last_seen_date, stamp, view, config, now>>
    BY <2>1, <2>2
  <2>4. Report(time, NoDate)
    BY <1>1, <2>3 DEF Report, Times, SeenAt
  <2>. QED BY <2>4
<1>. QED BY <1>2, <1>3

(* When the code takes a burst to be over, at a moment s.                   *)
LEMMA OverIsOverdue ==
  ASSUME SatInv, TimesOfTheClock, NEW s \in Nat, active_at <= s,
         NEW time \in {s % Day, NoTime}, NEW date \in Nat \union {NoDate},
         Over(time, date),
         DateIsCurrent(sats_active_update_date, active_at),
         time # NoTime /\ date # NoDate =>
           /\ date <= s \div Day
           /\ sats_active_update_date # NoDate => sats_active_update_date <= date
  PROVE  time # NoTime /\ s - active_at > gsa_burst_threshold
<1>1. active_at \in Nat /\ sats_active_update_date \in Nat \union {NoDate}
  BY DEF SatInv, Clock, TimesTyped
<1>2. gsa_burst_threshold \in Nat
  BY SatAssumption DEF SatInv, ConfigTyped
<1>. DEFINE delta(t) == get_time_delta_ms(t, sats_active_update_date, time, date)
<1>3. delta(sats_active_update_time) > gsa_burst_threshold
  BY DEF Over
<1>4. sats_active_update_time # NoTime /\ time # NoTime
  BY <1>2, <1>3 DEF get_time_delta_ms
<1>5. sats_active_update_time = active_at % Day /\ time = s % Day
  BY <1>4 DEF TimesOfTheClock
<1>6. delta(active_at % Day) <= s - active_at
  BY <1>1, <1>4, <1>5, DeltaIsElapsed DEF DateIsCurrent
<1>7. delta(active_at % Day) > gsa_burst_threshold
  BY <1>3, <1>5
<1>8. delta(active_at % Day) \in Int
  <2>1. active_at % Day \in Nat /\ s % Day \in Nat /\ Day \in Nat
    BY <1>1, DayParts
  <2>. QED BY <1>5, <2>1 DEF get_time_delta_ms, SameDay, NextDay
<1>. HIDE DEF delta
<1>. QED BY <1>1, <1>2, <1>4, <1>6, <1>7, <1>8

LEMMA OverdueIsOver ==
  ASSUME SatInv, TimesOfTheClock, NEW s \in Nat, active_at <= s,
         NEW time \in {s % Day, NoTime}, NEW date,
         DateIsCurrent(date, s), s - active_at < Rollover, ~Over(time, date),
         sats_active_update_time # NoTime, time # NoTime
  PROVE  s - active_at <= gsa_burst_threshold
<1>1. /\ active_at \in Nat /\ sats_active_update_date \in Nat \union {NoDate}
      /\ date \in Nat \union {NoDate}
  BY DayParts DEF SatInv, Clock, TimesTyped, DateIsCurrent
<1>2. gsa_burst_threshold \in Nat
  BY SatAssumption DEF SatInv, ConfigTyped
<1>. DEFINE delta == get_time_delta_ms(active_at % Day, sats_active_update_date,
                                       s % Day, date)
<1>3. sats_active_update_time = active_at % Day /\ time = s % Day
  BY DEF TimesOfTheClock
<1>4. ~(delta > gsa_burst_threshold)
  BY <1>3 DEF Over
<1>5. delta >= s - active_at
  BY <1>1, DeltaIsElapsed DEF TimesOfTheClock, DateIsCurrent
<1>6. delta \in Int
  <2>1. active_at % Day \in Nat /\ s % Day \in Nat /\ Day \in Nat
    BY <1>1, DayParts
  <2>. QED BY <2>1 DEF get_time_delta_ms, SameDay, NextDay
<1>. HIDE DEF delta
<1>. QED BY <1>1, <1>2, <1>4, <1>5, <1>6

LEMMA ReportTimes ==
  ASSUME SatInv, TimesOfTheClock, NEW time, NEW date, Report(time, date)
  PROVE  TimesOfTheClock'
<1>1. /\ now \in Nat /\ now \div Day \in Nat /\ MaxGap \in Nat
      /\ seen_at \in Nat /\ seen_at <= now
      /\ active_at \in Nat /\ sats_active_update_date \in Int /\ last_seen_date \in Int
  BY DayParts, SatAssumption DEF SatInv, Clock, TimesTyped, NoDate
<1>2. /\ UNCHANGED <<sats_active_update_time, sats_active_update_date, active_at, now>>
      /\ last_seen_time' = time /\ time \in {now % Day, NoTime}
      /\ date \in {now \div Day, NoDate}
      /\ last_seen_date' = date \/ (date = NoDate /\ UNCHANGED last_seen_date)
      /\ seen_at' = IF time = NoTime THEN seen_at ELSE now
  BY DEF Report, stamp
<1>3. active_at <= seen_at' /\ now' - seen_at' <= MaxGap
  BY <1>1, <1>2 DEF TimesOfTheClock
<1>4. last_seen_time' \in {NoTime, seen_at' % Day}
  BY <1>2
<1>5. /\ last_seen_date' <= now \div Day
      /\ last_seen_time' # NoTime => last_seen_date' <= seen_at' \div Day
  BY <1>1, <1>2 DEF TimesOfTheClock, NoDate
<1>6. sats_active_update_date # NoDate /\ last_seen_date' # NoDate =>
        sats_active_update_date <= last_seen_date'
  BY <1>1, <1>2 DEF TimesOfTheClock
<1>. QED BY <1>2, <1>3, <1>4, <1>5, <1>6 DEF TimesOfTheClock

LEMMA GsaTimes ==
  ASSUME SatInv, TimesOfTheClock, NEW gsa \in GsaSentences, update_gsa(gsa)
  PROVE  TimesOfTheClock'
<1>1. /\ sats_active_update_time' = last_seen_time
      /\ sats_active_update_date' = last_seen_date
      /\ active_at' = seen_at
      /\ UNCHANGED <<last_seen_time, last_seen_date, seen_at, now>>
  BY UpdateGsa DEF seen
<1>2. seen_at \in Nat /\ last_seen_date \in Int
  BY DEF SatInv, Clock, TimesTyped, NoDate
<1>. QED BY <1>1, <1>2 DEF TimesOfTheClock

LEMMA TickTimes ==
  ASSUME SatInv, TimesOfTheClock, Tick
  PROVE  TimesOfTheClock'
<1>1. /\ UNCHANGED <<sats_active_update_time, sats_active_update_date, active_at,
                     last_seen_time, last_seen_date, seen_at>>
      /\ now' = now + 1 /\ now - seen_at < MaxGap
  BY DEF Tick, stamp, seen
<1>2. /\ now \in Nat /\ seen_at \in Nat /\ MaxGap \in Nat
      /\ last_seen_date \in Int /\ sats_active_update_date \in Int
  BY SatAssumption DEF SatInv, Clock, TimesTyped, NoDate
<1>3. now \div Day \in Nat /\ now' \div Day \in Nat /\ now \div Day <= now' \div Day
  <2>1. now + 1 \in Nat /\ now <= now + 1
    BY <1>2
  <2>. QED BY <1>1, <1>2, <2>1, LaterDay, DayParts
<1>4. /\ last_seen_date <= now' \div Day /\ sats_active_update_date <= now' \div Day
      /\ now' - seen_at <= MaxGap
  BY <1>1, <1>2, <1>3 DEF TimesOfTheClock
<1>. QED BY <1>1, <1>4 DEF TimesOfTheClock

LEMMA NextTimes ==
  ASSUME Punctual
  PROVE  SatInv /\ TimesOfTheClock /\ [Next]_vars => TimesOfTheClock'
<1>. SUFFICES ASSUME SatInv, TimesOfTheClock, [Next]_vars PROVE TimesOfTheClock'
  OBVIOUS
<1>1. CASE update_datetime \/ update_time
  BY <1>1, ReportsAre, ReportTimes
<1>2. CASE \E gsa \in GsaSentences : update_gsa(gsa)
  BY <1>2, GsaTimes
<1>3. CASE Tick
  BY <1>3, TickTimes
<1>4. CASE \/ \E gsv \in GsvSentences : update_gsv(gsv)
           \/ set_gsa_threshold \/ register_callbacks \/ UNCHANGED vars
  BY <1>4 DEF update_gsv, set_gsa_threshold, register_callbacks, vars, stamp, seen,
              TimesOfTheClock
<1>. QED BY <1>1, <1>2, <1>3, <1>4 DEF Next, update_sentence

(* A list is published because its burst is over, or a satellite returned.  *)
LEMMA PublishedForAReason ==
  ASSUME Punctual, SatInv, TimesOfTheClock, Next, Published',
         DateIsCurrent(sats_active_update_date, active_at)
  PROVE  HadReason
<1>1. /\ active_at \in Nat /\ seen_at \in Nat /\ now \in Nat /\ active_at <= seen_at
      /\ seen_at <= now /\ sats_active_update_date \in Nat \union {NoDate}
      /\ last_seen_date \in Nat \union {NoDate} /\ now \div Day \in Nat
  BY DayParts DEF SatInv, Clock, TimesTyped, TimesOfTheClock
<1>2. ASSUME NEW time, NEW date, Report(time, date) PROVE HadReason
  <2>1. /\ time \in {now % Day, NoTime} /\ date \in {now \div Day, NoDate}
        /\ seen_at' = IF time = NoTime THEN seen_at ELSE now
        /\ check_gsa_burst_completion(time, date)
    BY <1>2 DEF Report
  <2>2. Over(time, date)
    BY <2>1 DEF check_gsa_burst_completion, Published
  <2>3. active_at <= now /\ date \in Nat \union {NoDate}
    BY <1>1, <2>1
  <2>4. time # NoTime /\ now - active_at > gsa_burst_threshold
    BY <1>1, <2>1, <2>2, <2>3, OverIsOverdue DEF TimesOfTheClock
  <2>. QED BY <2>1, <2>4 DEF HadReason
<1>3. ASSUME NEW gsa \in GsaSentences, update_gsa(gsa) PROVE HadReason
  <2>1. CASE Over(last_seen_time, last_seen_date)
    <3>1. seen_at - active_at > gsa_burst_threshold
      BY <1>1, <2>1, OverIsOverdue DEF TimesOfTheClock
    <3>. QED BY <1>3, <3>1, UpdateGsa DEF HadReason, seen
  <2>2. CASE Repeats(gsa)
    <3>1. Bits(gsa) \subseteq sats_active_bitmask'
      BY <1>3, UpdateGsa
    <3>. QED BY <2>2, <3>1 DEF Repeats, HadReason
  <2>3. CASE ~Fresh(gsa)
    <3>1. calls' = <<>>
      BY <1>3, <2>3, UpdateGsa
    <3>. QED BY <3>1 DEF Published
  <2>. QED BY <2>1, <2>2, <2>3 DEF Fresh
<1>4. CASE \E gsv \in GsvSentences : update_gsv(gsv)
  BY <1>4 DEF update_gsv, Published
<1>5. CASE set_gsa_threshold \/ register_callbacks \/ Tick
  BY <1>5 DEF set_gsa_threshold, register_callbacks, Tick, Published
<1>6. CASE update_datetime \/ update_time
  BY <1>2, <1>6, ReportsAre
<1>. QED BY <1>3, <1>4, <1>5, <1>6 DEF Next, update_sentence

(* The receiver reports a time so often, and bursts are so short, that a    *)
(* midnight between two times that are compared is always believed.         *)
OftenEnough == \A threshold \in Thresholds \union {Default} :
                 threshold + MaxGap < Rollover

LEMMA NextWithinRollover ==
  ASSUME Punctual, OftenEnough
  PROVE  SatInv /\ TimesOfTheClock /\ WithinRollover /\ [Next]_vars
           => WithinRollover'
<1>. SUFFICES ASSUME SatInv, TimesOfTheClock, WithinRollover, [Next]_vars,
                     sats_active_bitmask' # {}, sats_active_update_time' # NoTime
              PROVE  seen_at' + MaxGap < active_at' + Rollover
  BY DEF WithinRollover
<1>1. /\ active_at \in Nat /\ seen_at \in Nat /\ now \in Nat /\ active_at <= seen_at
      /\ seen_at <= now /\ now - seen_at <= MaxGap /\ MaxGap \in Nat
      /\ Rollover \in Nat /\ gsa_burst_threshold \in Nat
      /\ gsa_burst_threshold + MaxGap < Rollover
  BY SatAssumption
     DEF SatInv, Clock, TimesOfTheClock, ConfigTyped, OftenEnough
<1>2. ASSUME NEW time, NEW date, Report(time, date)
      PROVE  seen_at' + MaxGap < active_at' + Rollover
  <2>1. /\ time \in {now % Day, NoTime} /\ date \in {now \div Day, NoDate}
        /\ seen_at' = IF time = NoTime THEN seen_at ELSE now
        /\ check_gsa_burst_completion(time, date)
        /\ UNCHANGED <<active_at, sats_active_update_time>>
    BY <1>2 DEF Report, stamp
  <2>2. ~Over(time, date) /\ UNCHANGED sats_active_bitmask
    BY <2>1 DEF check_gsa_burst_completion, active
  <2>3. seen_at + MaxGap < active_at + Rollover
    BY <2>1, <2>2 DEF WithinRollover
  <2>4. CASE time = NoTime
    BY <2>1, <2>3, <2>4
  <2>5. CASE time # NoTime
    <3>1. active_at <= now /\ now - active_at < Rollover
      BY <1>1, <2>3
    <3>2. sats_active_update_time # NoTime
      BY <2>1
    <3>3. now - active_at <= gsa_burst_threshold
      BY <1>1, <2>1, <2>2, <2>5, <3>1, <3>2, OverdueIsOver DEF DateIsCurrent
    <3>. QED BY <1>1, <2>1, <2>5, <3>3
  <2>. QED BY <2>4, <2>5
<1>3. CASE \E gsa \in GsaSentences : update_gsa(gsa)
  <2>1. active_at' = seen_at /\ seen_at' = seen_at
    BY <1>3, UpdateGsa DEF seen
  <2>. QED BY <1>1, <2>1
<1>4. CASE \/ \E gsv \in GsvSentences : update_gsv(gsv)
           \/ set_gsa_threshold \/ register_callbacks \/ Tick \/ UNCHANGED vars
  <2>1. UNCHANGED <<sats_active_bitmask, sats_active_update_time, active_at, seen_at>>
    BY <1>4 DEF update_gsv, set_gsa_threshold, register_callbacks, Tick, vars,
                active, stamp, seen
  <2>. QED BY <2>1 DEF WithinRollover
<1>5. CASE update_datetime \/ update_time
  BY <1>2, <1>5, ReportsAre
<1>. QED BY <1>3, <1>4, <1>5 DEF Next, update_sentence

LEMMA NotMerged ==
  ASSUME Punctual, SatInv, TimesOfTheClock, WithinRollover, [Next]_vars,
         cb_sats_active, calls' = <<>>,
         sats_active_bitmask \notin {{}, sats_active_bitmask'},
         sats_active_update_time # NoTime, last_seen_time # NoTime,
         DateIsCurrent(last_seen_date, seen_at)
  PROVE  seen_at - active_at <= gsa_burst_threshold
<1>1. Delivery = <<Publication>>
  <2>1. sats_active_info # <<>>
    BY CollectedIs DEF SatInv
  <2>. QED BY <2>1 DEF Delivery
<1>2. ASSUME NEW time, NEW date, check_gsa_burst_completion(time, date) PROVE FALSE
  BY <1>1, <1>2 DEF check_gsa_burst_completion, active
<1>3. CASE \E gsa \in GsaSentences : update_gsa(gsa)
  <2>1. ~Over(last_seen_time, last_seen_date)
    BY <1>1, <1>3, UpdateGsa
  <2>2. /\ active_at \in Nat /\ seen_at \in Nat /\ active_at <= seen_at
        /\ MaxGap \in Nat /\ Rollover \in Nat
        /\ seen_at + MaxGap < active_at + Rollover
    BY SatAssumption DEF SatInv, Clock, TimesOfTheClock, WithinRollover
  <2>3. seen_at - active_at < Rollover
    BY <2>2
  <2>. QED BY <2>1, <2>2, <2>3, OverdueIsOver DEF TimesOfTheClock
<1>4. CASE \/ \E gsv \in GsvSentences : update_gsv(gsv)
           \/ set_gsa_threshold \/ register_callbacks \/ Tick \/ UNCHANGED vars
  BY <1>4 DEF update_gsv, set_gsa_threshold, register_callbacks, Tick, vars, active
<1>5. CASE update_datetime \/ update_time
  BY <1>2, <1>5 DEF update_datetime, update_time
<1>. QED BY <1>3, <1>4, <1>5 DEF Next, update_sentence

(* A list is only published when the burst it is of is over, or when a      *)
(* satellite of it is reported again, unless its date was an old one.       *)
THEOREM SatPublishedWhenOver ==
  ASSUME Punctual
  PROVE  Spec => PublishedWhenOver
<1>1. SatInv /\ TimesOfTheClock /\ [Next]_vars => TimesOfTheClock'
  BY NextTimes
<1>2. SatInv /\ TimesOfTheClock /\ [Next]_vars =>
        [Published' /\ DateIsCurrent(sats_active_update_date, active_at)
         => HadReason]_vars
  BY PublishedForAReason
<1>. QED BY <1>1, <1>2, InitTimes, SatInvariant, PTL DEF Spec, PublishedWhenOver

(* Two bursts further apart than the threshold are not made into one list,  *)
(* over midnight too, if times come often enough and the dates are right.   *)
THEOREM SatBurstsAreNotMerged ==
  ASSUME Punctual, OftenEnough
  PROVE  Spec => BurstsAreNotMerged
<1>1. SatInv /\ TimesOfTheClock /\ [Next]_vars => TimesOfTheClock'
  BY NextTimes
<1>2. SatInv /\ TimesOfTheClock /\ WithinRollover /\ [Next]_vars => WithinRollover'
  BY NextWithinRollover
<1>3. SatInv /\ TimesOfTheClock /\ WithinRollover /\ [Next]_vars =>
        [/\ cb_sats_active /\ calls' = <<>>
         /\ sats_active_bitmask \notin {{}, sats_active_bitmask'}
         /\ sats_active_update_time # NoTime /\ last_seen_time # NoTime
         /\ DateIsCurrent(last_seen_date, seen_at)
         => seen_at - active_at <= gsa_burst_threshold]_vars
  BY NotMerged
<1>. QED BY <1>1, <1>2, <1>3, InitTimes, SatInvariant, PTL
         DEF Spec, BurstsAreNotMerged
=============================================================================
