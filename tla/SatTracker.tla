---------------------------- MODULE SatTracker ----------------------------
(***************************************************************************)
(* The satellite tracker of src/src/sats_tracking_handler.c: it collects   *)
(* the satellites in view from a numbered sequence of GSV sentences, and   *)
(* the active ones from a burst of GSA sentences whose end no sentence     *)
(* announces: it is taken from the time of later sentences, or from a      *)
(* satellite that is reported twice.                                       *)
(*                                                                         *)
(* A time is a number of ticks since midnight and a date a day; an invalid *)
(* one is NoTime or NoDate.  A row of the bitmask has as many bits as the  *)
(* bytes given to it, and rows lie one after the other.  The receiver's    *)
(* own clock, now, and the history variables under it are not the code's.  *)
(***************************************************************************)
EXTENDS Integers, Sequences, FiniteSets, SequencesExt

CONSTANTS MaxPrn,       \* TINY_NMEA_MAX_PRN_PER_CONST
          MaxActive,    \* TINY_NMEA_MAX_TRACKED_GSA_SATS
          MaxInView,    \* TINY_NMEA_MAX_TRACKED_GSV_SATS
          Day,          \* DAY_IN_MS
          Rollover,     \* MAX_ROLLOVER_HRS, in the same unit
          Default,      \* DEFAULT_GSA_BURST_THRESHOLD
          Thresholds,   \* what the application may set instead
          GsaSentences, \* [system_id, talker, prns] the receiver may send
          GsvSentences, \* [msg_number, total_msgs, sats] it may send
          Lags,         \* how far its reported time may be behind its clock
          MaxGap,       \* bound: it reports a valid time this often
          Start, MaxNow \* bounds: the clock when the tracker starts and ends

ASSUME SatAssumption == /\ MaxPrn \in Nat \ {0}
                        /\ MaxActive \in Nat \ {0} /\ MaxInView \in Nat \ {0}
                        /\ Day \in Nat \ {0} /\ Rollover \in 1 .. Day
                        /\ Default \in Nat /\ Thresholds \subseteq Nat
                        /\ Start \in Nat /\ MaxNow \in Nat
                        /\ Lags \subseteq 0 .. Start /\ MaxGap \in Nat
                        /\ \A gsa \in GsaSentences : gsa.prns \in Seq(Nat)

ASSUME GsvAssumption == \A gsv \in GsvSentences :
                          /\ gsv.msg_number \in Nat /\ gsv.total_msgs \in Nat
                          /\ gsv.sats \in Seq(ToSet(gsv.sats))

VARIABLES sats_active_bitmask,          \* the bits set, by their place
          sats_active_info,             \* satellites in the order listed
          sats_active_update_time, sats_active_update_date,
          sats_in_view_info, sats_in_view_total_sentences,
          sats_in_view_last_sentence,
          gsa_burst_threshold,
          last_seen_time, last_seen_date,
          cb_sats_in_view, cb_sats_active,   \* whether they are registered
          calls,        \* the callbacks made in this step, with their arguments
          now,          \* the receiver's clock
          seen_at,      \* what it was when the last valid time was taken
          active_at,    \* seen_at when the last GSA sentence was added
          reported,     \* the satellites reported in this cycle, in order
          heard         \* the GSV sentences since message 1, if unbroken

active == <<sats_active_bitmask, sats_active_info, reported>>
stamp == <<sats_active_update_time, sats_active_update_date, active_at>>
view == <<sats_in_view_info, sats_in_view_total_sentences,
          sats_in_view_last_sentence, heard>>
seen == <<last_seen_time, last_seen_date, seen_at>>
config == <<gsa_burst_threshold, cb_sats_in_view, cb_sats_active>>
vars == <<active, stamp, view, seen, config, calls, now>>

NoTime == -1
NoDate == -1
UNKNOWN == 0
GP == 1
GL == 2
GA == 3
GB == 4
GN == 6
Constellations == 1 .. 8

Init == /\ sats_active_bitmask = {} /\ sats_active_info = <<>> /\ reported = <<>>
        /\ sats_active_update_time = NoTime /\ sats_active_update_date = NoDate
        /\ sats_in_view_info = <<>> /\ sats_in_view_total_sentences = 0
        /\ sats_in_view_last_sentence = 0 /\ heard = <<>>
        /\ gsa_burst_threshold = Default
        /\ last_seen_time = NoTime /\ last_seen_date = NoDate
        /\ cb_sats_in_view = FALSE /\ cb_sats_active = FALSE
        /\ calls = <<>>
        /\ now = Start /\ seen_at = Start /\ active_at = Start

set_gsa_threshold == /\ gsa_burst_threshold' \in Thresholds
                     /\ calls' = <<>>
                     /\ UNCHANGED <<cb_sats_in_view, cb_sats_active>>
                     /\ UNCHANGED <<active, stamp, view, seen, now>>

register_callbacks == /\ cb_sats_in_view' \in BOOLEAN
                      /\ cb_sats_active' \in BOOLEAN
                      /\ calls' = <<>>
                      /\ UNCHANGED gsa_burst_threshold
                      /\ UNCHANGED <<active, stamp, view, seen, now>>

-----------------------------------------------------------------------------
(* Time.                                                                   *)

(* A mistake: no time ever belongs to the next day. *)
TimeDeltaWithinDay(old_time, old_date, new_time, new_date) ==
  IF old_time = NoTime \/ new_time = NoTime THEN 0 ELSE new_time - old_time

SameDay(old_time, new_time) == new_time - old_time
NextDay(old_time, new_time) == new_time + Day - old_time

get_time_delta_ms(old_time, old_date, new_time, new_date) ==
  LET dated == old_date # NoDate /\ new_date # NoDate
      wrapped == IF dated THEN old_date # new_date
                 ELSE /\ new_time < old_time
                      /\ NextDay(old_time, new_time) < Rollover
  IN  CASE old_time = NoTime \/ new_time = NoTime -> 0
        [] OTHER -> IF wrapped THEN NextDay(old_time, new_time)
                    ELSE SameDay(old_time, new_time)

(* A mistake: a burst that lasts as long as it may is already over. *)
OverAtThreshold(time, date) ==
  get_time_delta_ms(sats_active_update_time, sats_active_update_date,
                    time, date) >= gsa_burst_threshold

(* A burst is over when time is too far from that of its last sentence. *)
Over(time, date) ==
  get_time_delta_ms(sats_active_update_time, sats_active_update_date,
                    time, date) > gsa_burst_threshold

Publication == [cb   |-> "active",
                sats |-> sats_active_info,
                date |-> sats_active_update_date,
                time |-> sats_active_update_time]

(* A mistake: the callback of the other list is tested. *)
DeliveryToViewers ==
  IF sats_active_info # <<>> /\ cb_sats_in_view THEN <<Publication>> ELSE <<>>

(* What is published of a burst that is over. *)
Delivery ==
  IF sats_active_info # <<>> /\ cb_sats_active THEN <<Publication>> ELSE <<>>

check_gsa_burst_completion(time, date) ==
  \/ /\ Over(time, date)
     /\ calls' = Delivery
     /\ sats_active_bitmask' = {} /\ sats_active_info' = <<>> /\ reported' = <<>>
  \/ /\ ~Over(time, date)
     /\ calls' = <<>>
     /\ UNCHANGED active

(* A sentence reports the receiver's time, lag behind its clock, or none. *)
Times(lag) == {(now - lag) % Day, NoTime}
Dates(lag) == {(now - lag) \div Day, NoDate}
SeenAt(time, lag) == IF time = NoTime THEN seen_at ELSE now - lag

(* RMC and ZDA sentences. *)
update_datetime ==
  \E lag \in Lags : \E time \in Times(lag), date \in Dates(lag) :
     /\ check_gsa_burst_completion(time, date)
     /\ last_seen_date' = date
     /\ last_seen_time' = time
     /\ seen_at' = SeenAt(time, lag)
     /\ UNCHANGED <<stamp, view, config, now>>

(* GGA, GLL, GBS, GST and GNS sentences: the date is kept. *)
update_time ==
  \E lag \in Lags : \E time \in Times(lag) :
     /\ check_gsa_burst_completion(time, NoDate)
     /\ last_seen_time' = time
     /\ seen_at' = SeenAt(time, lag)
     /\ UNCHANGED <<last_seen_date, stamp, view, config, now>>

-----------------------------------------------------------------------------
(* Satellites in view.                                                     *)

(* A mistake: one more than there is room for. *)
UpToAndOne(n, s) == SubSeq(s, 1, IF Len(s) < n + 1 THEN Len(s) ELSE n + 1)

(* As many of the elements of s as there is room for. *)
UpTo(n, s) == SubSeq(s, 1, IF Len(s) < n THEN Len(s) ELSE n)

(* A mistake: any message continues the sequence. *)
AlwaysContinues(gsv, last) == TRUE

Continues(gsv, last) == gsv.msg_number = last + 1

(* The messages heard since message 1, if they came in order and agree on  *)
(* their number.                                                           *)
HeardWith(gsv) ==
  CASE gsv.msg_number = 1 -> <<gsv>>
    [] /\ heard # <<>>
       /\ gsv.msg_number = Len(heard) + 1
       /\ gsv.total_msgs = heard[1].total_msgs -> Append(heard, gsv)
    [] OTHER -> <<>>

update_gsv(gsv) ==
  LET restart == \/ gsv.msg_number = 1
                 \/ gsv.total_msgs # sats_in_view_last_sentence
      last == IF restart THEN 0 ELSE sats_in_view_last_sentence
      kept == IF restart THEN <<>> ELSE sats_in_view_info
      all == UpTo(MaxInView, kept \o gsv.sats)
  IN  /\ sats_in_view_total_sentences' =
           IF restart THEN gsv.total_msgs ELSE sats_in_view_total_sentences
      /\ \/ /\ ~Continues(gsv, last)
            /\ sats_in_view_info' = <<>>
            /\ sats_in_view_last_sentence' = 0
            /\ calls' = <<>>
         \/ /\ Continues(gsv, last)
            /\ sats_in_view_info' = all
            /\ sats_in_view_last_sentence' = gsv.msg_number
            /\ calls' = IF gsv.msg_number = gsv.total_msgs /\ cb_sats_in_view
                        THEN <<[cb |-> "view", sats |-> all,
                                date |-> last_seen_date, time |-> last_seen_time]>>
                        ELSE <<>>
      /\ heard' = HeardWith(gsv)
      /\ UNCHANGED <<active, stamp, seen, config, now>>

-----------------------------------------------------------------------------
(* Active satellites.                                                      *)

(* Talkers are numbered as the constellations are, and go on after them. *)
Constellation(gsa) ==
  CASE gsa.system_id \in 1 .. 4 -> gsa.system_id
    [] gsa.system_id > 4 -> GN
    [] gsa.system_id = 0 /\ gsa.talker \in Constellations -> gsa.talker
    [] OTHER -> GP

(* The place of a bit in the bitmask, whose rows are of whole bytes. *)
Bit(constellation, prn) == constellation * 8 * (MaxPrn \div 8) + prn

Usable(prn) == prn # 0 /\ prn < MaxPrn

(* The numbers of a sentence that are not skipped, a repeated one twice. *)
Prns(gsa) ==
  LET upTo[n \in 0 .. Len(gsa.prns)] ==
        IF n = 0 THEN <<>>
        ELSE IF Usable(gsa.prns[n]) THEN Append(upTo[n - 1], gsa.prns[n])
        ELSE upTo[n - 1]
  IN  upTo[Len(gsa.prns)]

(* A mistake: only the first satellite of the sentence is looked up. *)
FirstSeen(bitmask, constellation, prns) ==
  prns # <<>> /\ Bit(constellation, Head(prns)) \in bitmask

(* One of the satellites was reported before: a new cycle began. *)
AnySeen(bitmask, constellation, prns) ==
  \E i \in DOMAIN prns : Bit(constellation, prns[i]) \in bitmask

(* A mistake: the list is emptied and the bitmask is not. *)
MaskKept(fresh) == sats_active_bitmask

MaskBefore(fresh) == IF fresh THEN {} ELSE sats_active_bitmask

Place(sat) == Bit(sat.constellation, sat.prn)
Places(sats) == {Place(sats[i]) : i \in DOMAIN sats}

(* What has been reported when sats are: a cycle ends when its burst is    *)
(* over, or when the bit of one of its satellites is to be set again.      *)
ReportedWith(over, sats) ==
  IF over \/ Places(reported) \intersect Places(sats) # {}
  THEN sats ELSE reported \o sats

update_gsa(gsa) ==
  LET over == Over(last_seen_time, last_seen_date)
      constellation == Constellation(gsa)
      prns == Prns(gsa)
      conflict == AnySeen(MaskBefore(over), constellation, prns)
      fresh == over \/ conflict
      sats == [i \in DOMAIN prns |->
                 [prn |-> prns[i], constellation |-> constellation]]
  IN  /\ calls' = (IF over THEN Delivery ELSE <<>>)
                  \o (IF conflict /\ cb_sats_active THEN <<Publication>> ELSE <<>>)
      /\ sats_active_bitmask' =
           MaskBefore(fresh) \union {Bit(constellation, prns[i]) : i \in DOMAIN prns}
      /\ sats_active_info' =
           UpTo(MaxActive, (IF fresh THEN <<>> ELSE sats_active_info) \o sats)
      /\ reported' = ReportedWith(over, sats)
      /\ sats_active_update_time' = last_seen_time
      /\ sats_active_update_date' = last_seen_date
      /\ active_at' = seen_at
      /\ UNCHANGED <<view, seen, config, now>>

-----------------------------------------------------------------------------
(* The receiver's clock advances; it is never without a valid time long. *)
Tick == /\ now < MaxNow
        /\ now - seen_at < MaxGap
        /\ now' = now + 1
        /\ calls' = <<>>
        /\ UNCHANGED <<active, stamp, view, seen, config>>

(* tiny_nmea_sat_tracking_update_sentence, for each type of sentence. *)
update_sentence == \/ update_datetime
                   \/ update_time
                   \/ \E gsv \in GsvSentences : update_gsv(gsv)
                   \/ \E gsa \in GsaSentences : update_gsa(gsa)

Next == set_gsa_threshold \/ register_callbacks \/ update_sentence \/ Tick

Spec == Init /\ [][Next]_vars

-----------------------------------------------------------------------------
(* The satellites the receiver may report. *)
Satellite == UNION {[prn           : {p \in ToSet(gsa.prns) : Usable(p)},
                     constellation : {Constellation(gsa)}] : gsa \in GsaSentences}

(* Every variable has its type, and the lists fit. *)
TypeOK ==
  /\ sats_active_bitmask \subseteq {Place(sat) : sat \in Satellite}
  /\ sats_active_info \in Seq(Satellite) /\ Len(sats_active_info) <= MaxActive
  /\ reported \in Seq(Satellite)
  /\ sats_active_update_time \in 0 .. Day - 1 \union {NoTime}
  /\ sats_active_update_date \in Nat \union {NoDate}
  /\ Len(sats_in_view_info) <= MaxInView
  /\ sats_in_view_total_sentences \in Nat /\ sats_in_view_last_sentence \in Nat
  /\ gsa_burst_threshold \in Thresholds \union {Default}
  /\ last_seen_time \in 0 .. Day - 1 \union {NoTime}
  /\ last_seen_date \in Nat \union {NoDate}
  /\ cb_sats_in_view \in BOOLEAN /\ cb_sats_active \in BOOLEAN
  /\ now \in Nat /\ seen_at \in 0 .. now /\ active_at \in 0 .. now

(* Of everything the GSA sentences of this cycle reported the list has the *)
(* first, in order, and the bitmask all: "bitmask for deduplication" and   *)
(* for "realising it is stale data" (sats_tracking_types.h:63) does both   *)
(* across sentences.  A satellite that one sentence names twice is listed  *)
(* twice, since a sentence is only compared with those before it.          *)
ListIsTheCycle == /\ sats_active_info = UpTo(MaxActive, reported)
                  /\ sats_active_bitmask = Places(reported)

Published == \E i \in DOMAIN calls : calls[i].cb = "active"

(* No satellite that was listed is dropped before the application, if it   *)
(* listens, has been given the whole list.                                 *)
NothingDropped ==
  [][/\ cb_sats_active
     /\ ~IsPrefix(sats_active_info, sats_active_info')
     => calls' = <<Publication>>]_vars

(* The date kept from an earlier RMC or ZDA sentence is still the date. *)
DateIsCurrent(date, at) == date \in {at \div Day, NoDate}

(* Two GSA sentences further apart than the threshold are not collected    *)
(* into one list, as far as the times that came with them are known, and   *)
(* over midnight too (update_gsa, "check if the current active buffer is   *)
(* 'old' compared to system time").                                        *)
BurstsAreNotMerged ==
  [][/\ cb_sats_active /\ calls' = <<>>
     /\ sats_active_bitmask \notin {{}, sats_active_bitmask'}
     /\ sats_active_update_time # NoTime /\ last_seen_time # NoTime
     /\ DateIsCurrent(last_seen_date, seen_at)
     => seen_at - active_at <= gsa_burst_threshold]_vars

(* The code's two reasons to publish: the time that came with the last GSA *)
(* sentence is further away than the threshold, or a satellite returned.   *)
HadReason == \/ seen_at' - active_at > gsa_burst_threshold
             \/ sats_active_bitmask \intersect sats_active_bitmask' # {}

(* A burst is not published in parts: there is a reason whenever a list is *)
(* published, unless the date of the list was an old one.                  *)
PublishedWhenOver ==
  [][/\ Published'
     /\ DateIsCurrent(sats_active_update_date, active_at)
     => HadReason]_vars

(* What is published of the view is what messages 1 to total_msgs of one   *)
(* sequence, heard in order, told of it (update_gsv, "if we missed a       *)
(* message, the array is corrupt").                                        *)
ViewIsTheSequence ==
  [][\A i \in DOMAIN calls' : calls'[i].cb = "view" =>
       /\ heard' # <<>> /\ Len(heard') = heard'[1].total_msgs
       /\ calls'[i].sats =
            UpTo(MaxInView, FlattenSeq([k \in DOMAIN heard' |-> heard'[k].sats]))]_vars

(* The tracker keeps the promises made of the active satellites. *)
Abstract == INSTANCE ActiveSets WITH
              Room      <- MaxActive,
              collected <- reported,
              listening <- cb_sats_active,
              delivered <- {calls[i].sats :
                              i \in {j \in DOMAIN calls : calls[j].cb = "active"}}

KeepsPromises == Abstract!Spec

-----------------------------------------------------------------------------
(* What comments of the code say, and the code does not do.                *)

(* "Called when a full sequence of GSV (Satellites in View) messages is    *)
(* complete": the last message of an unbroken sequence is published.       *)
FullSequencePublished ==
  [][/\ cb_sats_in_view
     /\ heard' \notin {<<>>, heard} /\ Len(heard') = heard'[1].total_msgs
     => calls' # <<>>]_vars

(* A burst is published because of a time only if "there is a difference   *)
(* greater than the specified max duration for a GSA burst".               *)
PublishedOnlyWhenOver == [][Published' => HadReason]_vars

(* "large negative jump is kind of suspicious / return negative value so   *)
(* it is assumed as stale": a time that goes back, not over midnight,      *)
(* empties the list.                                                       *)
BackwardsIsStale ==
  [][/\ last_seen_time' # last_seen_time
     /\ get_time_delta_ms(sats_active_update_time, sats_active_update_date,
                          last_seen_time', NoDate) < 0
     => sats_active_info' = <<>>]_vars

(* "if a PRN is already present in the active mask, it implies the         *)
(* previous cycle has finished": a list that is published although its     *)
(* burst is not over has a satellite in common with the next one.          *)
ConflictIsRepetition ==
  [][/\ Published' /\ sats_active_info' # <<>>
     /\ ~Over(last_seen_time, last_seen_date)
     => ToSet(sats_active_info) \intersect ToSet(sats_active_info') # {}]_vars
=============================================================================
