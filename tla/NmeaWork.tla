------------------------------ MODULE NmeaWork ------------------------------
(***************************************************************************)
(* tiny_nmea_feed and tiny_nmea_work: a producer feeds bytes into the ring *)
(* buffer while a consumer moves them into the linear working buffer and   *)
(* runs the sentence state machine of src/src/tiny_nmea_work.c on it.      *)
(*                                                                         *)
(* The ring is the queue that RingBuf is shown to implement: a byte is the *)
(* number of its place among the bytes accepted, and accepted says which   *)
(* byte of the sender's stream that was.                                   *)
(*                                                                         *)
(* Bytes are symbols.  "$" stands for '$' and '!', "E" for CR and LF, "N"  *)
(* for NUL; "G", "Z", "R" end the type of a position, ZDA and RMC sentence;*)
(* "0" and "1" are characters of a field and hexadecimal digits.           *)
(***************************************************************************)
EXTENDS Integers, Sequences

CONSTANTS MaxLen,       \* TINY_NMEA_MAX_SENTENCE_LEN
          HdrLen,       \* talker, type and comma: 6 bytes in the code
          RingSize,     \* buf_size given to tiny_nmea_init
          Chunks,       \* the lengths given to tiny_nmea_feed
          Plans,        \* what the sender may send: sequences of pieces
          MaxStream,    \* bound: the bytes of the longest of them
          MayConfigure  \* whether the application re-registers and re-inits

ASSUME WorkAssumption == /\ HdrLen \in Nat \ {0, 1}
                         /\ MaxLen \in Nat /\ MaxLen > HdrLen
                         /\ RingSize \in Nat \ {0}
                         /\ Chunks \subseteq Nat
                         /\ MaxStream \in Nat
                         /\ MayConfigure \in BOOLEAN

VARIABLES plan, stream, \* the pieces sent, and the bytes they make
          fed,          \* how many bytes the producer has fed
          accepted,     \* the bytes of the stream the ring took, in order
          ring, got,    \* the ring, and what the last pop returned
          ctx,          \* the fields of tiny_nmea_ctx_t
          at,           \* where tiny_nmea_work is in its loop
          bytes_avail,  \* its local variable
          log           \* the sentences completed since the last init

env == <<plan, stream, fed, accepted>>
vars == <<env, ring, got, ctx, at, bytes_avail, log>>

Ring == INSTANCE ByteQueue WITH Capacity <- RingSize - 1,
                                MaxBytes <- MaxStream,
                                q <- ring, sent <- Len(accepted)

NULL == -1
States == {"FIND_START", "FIND_TALKER_AND_TYPE", "FIND_CHECKSUM_OR_END",
           "FIND_END", "SENTENCE_COMPLETE"}
Symbols == {"$", "G", "Z", "R", ",", "*", "0", "1", "E", "N"}
Eol == {"E"}
Types == {"G", "Z", "R"}
Hex == {"0", "1"}

ASSUME PlanAssumption == Plans \subseteq Seq(Seq(Symbols))

NoStats == [sentences_parsed |-> 0, checksum_errors |-> 0,
            parse_errors |-> 0, buffer_overflows |-> 0]

(* A mistake: init forgets the length of the working buffer. *)
ResetKeepsBytes(c, parse_callback, error_callback) ==
  [c EXCEPT !.has_checksum = FALSE,
            !.parse_callback = parse_callback,
            !.error_callback = error_callback,
            !.zda_century = 0,
            !.stats = NoStats,
            !.parse_pos = 0,
            !.waiting_for_data = FALSE,
            !.parser_state = "FIND_START"]

(* tiny_nmea_init_callbacks leaves data_end, line_end and current_type alone. *)
Reset(c, parse_callback, error_callback) ==
  [c EXCEPT !.has_checksum = FALSE,
            !.parse_callback = parse_callback,
            !.error_callback = error_callback,
            !.zda_century = 0,
            !.stats = NoStats,
            !.working_buf = <<>>,
            !.parse_pos = 0,
            !.waiting_for_data = FALSE,
            !.parser_state = "FIND_START"]

Blank == [has_checksum |-> FALSE, parse_callback |-> FALSE,
          error_callback |-> FALSE, zda_century |-> 0, stats |-> NoStats,
          working_buf |-> <<>>, parse_pos |-> 0, waiting_for_data |-> FALSE,
          parser_state |-> "FIND_START",
          data_end |-> NULL, line_end |-> NULL, current_type |-> "G"]

(* The bytes of the first n pieces of a sequence of them, for every n. *)
Joined(pieces) ==
  LET upTo[n \in 0..Len(pieces)] ==
        IF n = 0 THEN <<>> ELSE upTo[n - 1] \o pieces[n]
  IN upTo
Concat(pieces) == Joined(pieces)[Len(pieces)]

Init == /\ plan \in Plans /\ stream = Concat(plan)
        /\ stream \in Seq(Symbols) /\ Len(stream) <= MaxStream
        /\ fed = 0 /\ accepted = <<>>
        /\ ring = <<>> /\ got = <<>>
        /\ ctx = Reset(Blank, TRUE, TRUE)
        /\ at = "idle" /\ bytes_avail = 0
        /\ log = <<>>
-----------------------------------------------------------------------------
(* The producer: tiny_nmea_feed pushes with RINGBUF_PUSH_DROP; the room it  *)
(* sees may date from when fewer bytes had been popped.                     *)
Feed(n) ==
  /\ fed + n <= Len(stream)
  /\ \E popped \in 0..Len(accepted) - Len(ring) :
       LET free == RingSize - 1 - (Len(accepted) - popped)
           m    == IF n > free THEN free ELSE n IN
       /\ free >= 0
       /\ accepted' = accepted \o [j \in 1..m |-> fed + j]
       /\ Ring!Put(m)
  /\ fed' = fed + n
  /\ UNCHANGED <<plan, stream, ctx, at, bytes_avail, log>>
-----------------------------------------------------------------------------
(* The working buffer. Offsets count from 0, as in the code. *)

working_buf_len == Len(ctx.working_buf)

Sym(byte) == stream[accepted[byte]]
At(offset) == Sym(ctx.working_buf[offset + 1])

(* The least of a set of offsets, or NULL. *)
Least(offsets) ==
  LET least == {o \in offsets : \A p \in offsets : o <= p}
  IN IF least = {} THEN NULL ELSE CHOOSE o \in least : TRUE

(* memchr from an offset, for the symbols of a class. *)
First(class, from) == Least({o \in from..working_buf_len-1 : At(o) \in class})

(* A mistake: the bytes that stay are not moved to the front. *)
DiscardInPlace(c, amt) ==
  [c EXCEPT !.working_buf = IF amt >= Len(c.working_buf) THEN <<>>
                            ELSE SubSeq(c.working_buf, 1, Len(c.working_buf) - amt)]

(* discard_bytes: drop amt bytes at the front. *)
discard_bytes(c, amt) ==
  [c EXCEPT !.working_buf = IF amt >= Len(c.working_buf) THEN <<>>
                            ELSE SubSeq(c.working_buf, amt + 1, Len(c.working_buf))]

(* RESET_WORKBUF_BYTES, of the bytes there are, and RESET_TO_START, of none. *)
Restart(c) == [c EXCEPT !.parse_pos = 0, !.parser_state = "FIND_START"]
ResetKeepsPosition(c) ==
  [c EXCEPT !.working_buf = <<>>, !.parser_state = "FIND_START"]  \* a mistake
ResetToStart(c) == Restart([c EXCEPT !.working_buf = <<>>])

Count(c, field) == [c EXCEPT !.stats[field] = @ + 1]
-----------------------------------------------------------------------------
(* The loop of tiny_nmea_work. *)

Call == /\ at = "idle"
        /\ at' = "loop"
        /\ UNCHANGED <<env, ring, got, ctx, bytes_avail, log>>

(* A mistake: a state machine that waits breaks even when bytes came. *)
NothingToDoOnceWaiting ==
  \/ ring = <<>> /\ working_buf_len <= ctx.parse_pos
  \/ ctx.waiting_for_data

(* The loop condition, and the first break. *)
NothingToDo == \/ ring = <<>> /\ working_buf_len <= ctx.parse_pos
               \/ ctx.waiting_for_data /\ ring = <<>>

(* The top of the loop, with its ringbuf_len. *)
Loop ==
  /\ at = "loop"
  /\ IF NothingToDo
     THEN at' = "idle" /\ bytes_avail' = 0
     ELSE at' = "fill" /\ bytes_avail' = Len(ring)
  /\ UNCHANGED <<env, ring, got, ctx, log>>

(* The working buffer is full and the state machine asked for more. *)
OverranOffByOne == working_buf_len > MaxLen /\ ctx.waiting_for_data \* a mistake
OverranWhenFull == working_buf_len = MaxLen                         \* another
Overran == working_buf_len = MaxLen /\ ctx.waiting_for_data

(* Move what fits into the working buffer; a sentence too long for it is    *)
(* thrown away with everything else in it.                                  *)
Fill ==
  LET space  == MaxLen - working_buf_len
      to_pop == IF bytes_avail < space THEN bytes_avail ELSE space IN
  /\ at = "fill"
  /\ at' = "check" /\ bytes_avail' = 0
  /\ UNCHANGED <<env, log>>
  /\ IF to_pop > 0
     THEN /\ Ring!Take(to_pop)
          /\ ctx' = [ctx EXCEPT !.working_buf = @ \o got',
                                !.waiting_for_data = FALSE]
     ELSE /\ UNCHANGED <<ring, got>>
          /\ ctx' = IF Overran
                    THEN ResetToStart([Count(ctx, "buffer_overflows")
                                         EXCEPT !.waiting_for_data = FALSE])
                    ELSE [ctx EXCEPT !.waiting_for_data = FALSE]

(* Anything to do this loop? *)
Check ==
  /\ at = "check"
  /\ at' = IF working_buf_len # ctx.parse_pos THEN "parse"
           ELSE IF ring = <<>> THEN "idle" ELSE "loop"
  /\ got' = <<>>        \* it is in the working buffer by now
  /\ UNCHANGED <<env, ring, ctx, bytes_avail, log>>
-----------------------------------------------------------------------------
(* The state machine: one state per iteration of the loop. *)

In(state) == at = "parse" /\ ctx.parser_state = state

Step(c) == /\ ctx' = c
           /\ at' = "loop"
           /\ UNCHANGED <<env, ring, got, bytes_avail>>

(* A mistake: the first of the bytes to come is skipped. *)
WaitPastTheEnd(c) ==
  [c EXCEPT !.parse_pos = Len(c.working_buf) + 1, !.waiting_for_data = TRUE]

(* Nothing found so far: look at the bytes to come only. *)
WaitForMore(c) ==
  IF c.parse_pos > MaxLen
  THEN Restart(discard_bytes(Count(c, "parse_errors"), c.parse_pos))
  ELSE [c EXCEPT !.parse_pos = Len(c.working_buf), !.waiting_for_data = TRUE]

FindStart ==
  LET start == First({"$"}, 0)
      c     == [ctx EXCEPT !.has_checksum = FALSE] IN
  /\ In("FIND_START")
  /\ Step(IF start = NULL THEN ResetToStart(c)
          ELSE [discard_bytes(c, start) EXCEPT
                  !.parse_pos = 1, !.parser_state = "FIND_TALKER_AND_TYPE"])
  /\ UNCHANGED log

(* The talker and all of the type but its last letter are taken as valid. *)
HeaderWithoutComma == At(HdrLen - 1) \in Types          \* a mistake
HeaderValid == At(HdrLen - 1) \in Types /\ At(HdrLen) = ","

FindTalkerAndType ==
  /\ In("FIND_TALKER_AND_TYPE")
  /\ IF working_buf_len - ctx.parse_pos < HdrLen
     THEN Step([ctx EXCEPT !.waiting_for_data = TRUE])
     ELSE LET c == [ctx EXCEPT !.current_type = At(HdrLen - 1)] IN
          Step(IF HeaderValid
               THEN [c EXCEPT !.parse_pos = @ + HdrLen,
                              !.parser_state = "FIND_CHECKSUM_OR_END"]
               ELSE Restart(Count(discard_bytes(c, 1), "parse_errors")))
  /\ UNCHANGED log

FindChecksumOrEnd ==
  LET line_end == First(Eol, ctx.parse_pos)
      data_end == First({"*"} \cup Eol, ctx.parse_pos)
      c        == [ctx EXCEPT !.line_end = line_end] IN
  /\ In("FIND_CHECKSUM_OR_END")
  /\ Step(IF data_end = NULL THEN WaitForMore(c)
          ELSE [c EXCEPT
                  !.parse_pos = data_end,
                  !.data_end = data_end,
                  !.has_checksum = data_end # line_end,
                  !.parser_state = IF data_end # line_end
                                   THEN "FIND_END" ELSE "SENTENCE_COMPLETE"])
  /\ UNCHANGED log

(* The XOR of the bytes after the start character, one bit of it: a parity. *)
Bit(symbol) == IF symbol \in {"$", ",", "1"} THEN 1 ELSE 0
Checksum(symbols) ==
  LET xor[n \in 0..Len(symbols)] ==
        IF n = 0 THEN 0 ELSE (xor[n - 1] + Bit(symbols[n])) % 2
  IN xor[Len(symbols)]
Digit(symbol) == IF symbol = "1" THEN 1 ELSE 0

(* Two hexadecimal digits, and nothing else, from hi to the line end. *)
AtLeastTwoDigits(hi, line_end) ==                       \* a mistake
  line_end - hi >= 2 /\ {At(hi), At(hi + 1)} \subseteq Hex
TwoDigits(hi, line_end) ==
  line_end - hi = 2 /\ {At(hi), At(hi + 1)} \subseteq Hex

FindEnd ==
  LET line_end == IF ctx.line_end = NULL THEN First(Eol, ctx.parse_pos)
                  ELSE ctx.line_end
      c        == [ctx EXCEPT !.line_end = line_end]
      hi       == ctx.data_end + 1
      computed == Checksum([i \in 1..ctx.data_end-1 |-> At(i)])
      rejected(field) == ResetToStart(Count(c, field)) IN
  /\ In("FIND_END")
  /\ Step(IF line_end = NULL THEN WaitForMore(c)
          ELSE IF ~TwoDigits(hi, line_end) THEN rejected("parse_errors")
          ELSE IF computed # 2 * Digit(At(hi)) + Digit(At(hi + 1))
               THEN rejected("checksum_errors")
          ELSE [c EXCEPT !.parser_state = "SENTENCE_COMPLETE"])
  /\ UNCHANGED log

(* tiny_nmea_parse, of the fields after the header up to a NUL: there must  *)
(* be something in them. The first field of a ZDA sentence is the century   *)
(* of a valid date, when it is a digit.                                     *)
Field == IF ctx.data_end > HdrLen + 1 THEN At(HdrLen + 1) ELSE "N"
Parses == Field # "N"

(* A mistake: the century of a date that is not valid. *)
CenturyOfAnyZda == IF ctx.current_type = "Z" THEN Digit(Field) ELSE ctx.zda_century

(* parse_post_process: the century of the last dated ZDA completes an RMC. *)
Century == IF ctx.current_type = "Z" /\ Field \in Hex THEN Digit(Field)
           ELSE ctx.zda_century

SentenceEndOfBuffer == working_buf_len   \* a mistake: all that is buffered

(* One past the line end characters, and past the NUL put at data_end. *)
SentenceEnd ==
  LET next == Least({o \in ctx.line_end..working_buf_len-1 :
                       o # ctx.data_end /\ At(o) \notin {"E", "N"}})
  IN IF next = NULL THEN working_buf_len ELSE next

SentenceComplete ==
  LET c == IF Parses THEN [Count(ctx, "sentences_parsed") EXCEPT
                             !.zda_century = Century]
           ELSE Count(ctx, "parse_errors")
      entry == [parsed |-> Parses,
                told |-> IF Parses THEN ctx.parse_callback ELSE ctx.error_callback,
                type |-> ctx.current_type,
                century |-> IF ctx.current_type = "R" THEN ctx.zda_century ELSE 0,
                bytes |-> SubSeq(ctx.working_buf, 1, ctx.line_end)] IN
  /\ In("SENTENCE_COMPLETE")
  /\ Step(Restart(discard_bytes(c, SentenceEnd)))
  /\ log' = Append(log, entry)
-----------------------------------------------------------------------------
(* The application, between two calls of tiny_nmea_work. *)

SetParseCallback(parse_callback) ==
  /\ MayConfigure /\ at = "idle"
  /\ ctx' = [ctx EXCEPT !.parse_callback = parse_callback]
  /\ UNCHANGED <<env, ring, got, at, bytes_avail, log>>

SetErrorCallback(error_callback) ==
  /\ MayConfigure /\ at = "idle"
  /\ ctx' = [ctx EXCEPT !.error_callback = error_callback]
  /\ UNCHANGED <<env, ring, got, at, bytes_avail, log>>

(* tiny_nmea_init again, with the producer stopped. *)
Reinit ==
  /\ MayConfigure /\ at = "idle"
  /\ ctx' = Reset(ctx, TRUE, TRUE)
  /\ ring' = <<>> /\ accepted' = <<>> /\ log' = <<>>
  /\ UNCHANGED <<plan, stream, fed, got, at, bytes_avail>>
-----------------------------------------------------------------------------
Fsm == \/ FindStart \/ FindTalkerAndType \/ FindChecksumOrEnd \/ FindEnd
       \/ SentenceComplete

Work == Loop \/ Fill \/ Check \/ Fsm

Next == \/ \E n \in Chunks : Feed(n)
        \/ Call \/ Work
        \/ \E set \in BOOLEAN : SetParseCallback(set) \/ SetErrorCallback(set)
        \/ Reinit

Spec == Init /\ [][Next]_vars

(* A call of tiny_nmea_work that has begun keeps running. *)
WorkRuns == WF_vars(Work)

(* And the producer keeps feeding, and the application keeps calling it. *)
FairSpec == Spec /\ WorkRuns /\ WF_vars(Call)
                 /\ WF_vars(\E n \in Chunks : Feed(n))
-----------------------------------------------------------------------------
(* Properties. *)

Entry == [parsed : BOOLEAN, told : BOOLEAN, type : Symbols, century : {0, 1},
          bytes : Seq(1..MaxStream)]

Context == [has_checksum : BOOLEAN, parse_callback : BOOLEAN,
            error_callback : BOOLEAN, zda_century : {0, 1},
            stats : [DOMAIN NoStats -> Nat],
            working_buf : Seq(1..MaxStream), parse_pos : Nat,
            waiting_for_data : BOOLEAN, parser_state : States,
            data_end : NULL..MaxLen, line_end : NULL..MaxLen,
            current_type : Symbols]

(* The values of the variables: every byte in the ring, in the working      *)
(* buffer or in a completed sentence is one that was accepted.              *)
TypeOK ==
  /\ stream \in Seq(Symbols) /\ Len(stream) <= MaxStream
  /\ fed \in 0..Len(stream)
  /\ accepted \in Seq(1..Len(stream)) /\ Len(accepted) <= fed
  /\ ring \in Seq(1..Len(accepted)) /\ got \in Seq(1..Len(accepted))
  /\ ctx \in Context /\ ctx.working_buf \in Seq(1..Len(accepted))
  /\ at \in {"idle", "loop", "fill", "check", "parse"}
  /\ bytes_avail \in Nat
  /\ log \in Seq(Entry)

(* The indices and the two pointers kept across calls stay inside the bytes *)
(* of the working buffer they were taken from, whatever the bytes are and   *)
(* however they arrive: the subtractions of lines 79, 95 and 161 do not     *)
(* wrap, and data_end and line_end are valid when they are followed.        *)
IndicesInBuffer ==
  /\ working_buf_len <= MaxLen
  /\ ctx.parse_pos <= working_buf_len
  /\ at = "parse" => ctx.parse_pos < working_buf_len
  /\ ctx.parser_state = "FIND_START" => ctx.parse_pos = 0
  /\ ctx.parser_state = "FIND_TALKER_AND_TYPE" => ctx.parse_pos = 1
  /\ ctx.parser_state = "FIND_CHECKSUM_OR_END" => HdrLen < ctx.parse_pos
  /\ ctx.parser_state \in {"FIND_END", "SENTENCE_COMPLETE"} =>
       /\ HdrLen < ctx.data_end /\ ctx.data_end < working_buf_len
       /\ ctx.data_end <= ctx.parse_pos
       /\ ctx.line_end # NULL =>
            ctx.data_end <= ctx.line_end /\ ctx.line_end < working_buf_len
  /\ ctx.parser_state = "SENTENCE_COMPLETE" => ctx.line_end # NULL

(* Every completed sentence is made of bytes accepted one after the other,  *)
(* past those of the sentence before: no byte is used twice, or skipped     *)
(* inside a sentence, by the moves between the two buffers.                 *)
CompletedInOrder ==
  \A i \in DOMAIN log :
    /\ \A k \in 1..Len(log[i].bytes)-1 : log[i].bytes[k + 1] = log[i].bytes[k] + 1
    /\ \A j \in 1..i-1 : \A k \in DOMAIN log[i].bytes, m \in DOMAIN log[j].bytes :
         log[j].bytes[m] < log[i].bytes[k]

(* What a sentence is, said of its bytes up to the line end: a start, a     *)
(* header, fields, and either no asterisk or one before two digits that are *)
(* the checksum of what lies between.                                       *)
Text(bytes) == [i \in 1..Len(bytes) |-> Sym(bytes[i])]
Stars(text) == {i \in HdrLen+2..Len(text) : text[i] = "*"}
IsSentence(text) ==
  /\ Len(text) > HdrLen
  /\ text[1] = "$" /\ text[HdrLen] \in Types /\ text[HdrLen + 1] = ","
  /\ \A i \in HdrLen+2..Len(text) : text[i] \notin Eol
  /\ Stars(text) # {} =>
       LET star == Len(text) - 2 IN
       /\ Stars(text) = {star}
       /\ {text[star + 1], text[star + 2]} \subseteq Hex
       /\ Checksum([i \in 1..star-2 |-> text[i + 1]])
            = 2 * Digit(text[star + 1]) + Digit(text[star + 2])

(* Every completed sentence is one: nothing with a wrong checksum, and      *)
(* nothing left over from an earlier sentence, reaches the parsers.         *)
CompletedAreSentences == \A i \in DOMAIN log : IsSentence(Text(log[i].bytes))

(* An RMC sentence gets the century of the last dated ZDA before it, or 0   *)
(* when there is none since the parser was initialised.                     *)
DatedZdas(i) == {k \in 1..i-1 : /\ log[k].type = "Z" /\ log[k].parsed
                                /\ Sym(log[k].bytes[HdrLen + 2]) \in Hex}
CenturyOf(i) == Digit(Sym(log[i].bytes[HdrLen + 2]))
IsLastCentury(century, dated) ==
  /\ dated = {} => century = 0
  /\ \A k \in dated : (\A m \in dated : m <= k) => century = CenturyOf(k)
CenturyIsLastZda ==
  \A i \in DOMAIN log :
    log[i].type = "R" => IsLastCentury(log[i].century, DatedZdas(i))

(* Nothing left for tiny_nmea_work: all was fed, popped and processed; and  *)
(* the ring had room for all of it.                                         *)
Drained == fed = Len(stream) /\ ring = <<>> /\ at = "idle"
Lossless == Len(accepted) = fed

(* A piece without its line end, and whether it is a whole sentence: one    *)
(* with data, that fits in the working buffer, and nothing but a line end.  *)
BodyLen(piece) == Least({n \in 0..Len(piece)-1 : piece[n + 1] \in {"E", "N"}})
Body(piece) == SubSeq(piece, 1, BodyLen(piece))
IsWhole(piece) ==
  /\ BodyLen(piece) \in HdrLen+2..MaxLen-1
  /\ IsSentence(Body(piece)) /\ piece[HdrLen + 2] # "*"
  /\ piece[BodyLen(piece) + 1] = "E"
  /\ \A k \in BodyLen(piece)+1..Len(piece) : piece[k] \in {"E", "N"}

(* How many bytes come before a piece, and whether it was completed.        *)
Before(i) == Len(Joined(plan)[i - 1])
IsPiece(entry, i) == entry.parsed /\ Text(entry.bytes) = Body(plan[i])
PieceParsed(i) == \E k \in DOMAIN log : /\ IsPiece(log[k], i)
                                        /\ log[k].bytes[1] = Before(i) + 1

(* A stream of good sentences arrives whole and in order, however it is cut *)
(* into tiny_nmea_feed calls and whenever tiny_nmea_work runs.              *)
Faultless == \A i \in DOMAIN plan : IsWhole(plan[i])
AllSentencesCompleted ==
  Faultless /\ Lossless /\ Drained =>
    /\ Len(log) = Len(plan)
    /\ \A i \in DOMAIN log : IsPiece(log[i], i)

(* After any garbage, every good sentence is parsed that comes with no less *)
(* than a working buffer of good ones before it: the state machine finds    *)
(* the start of a sentence again, though a rejected one takes with it what  *)
(* was popped of those behind it.                                           *)
GoodFrom(g) == \A i \in g..Len(plan) :
                 IsWhole(plan[i]) /\ \A k \in 2..Len(plan[i]) : plan[i][k] # "$"
Resynchronises ==
  Lossless /\ Drained =>
    \A g \in DOMAIN plan : GoodFrom(g) =>
      \A i \in g..Len(plan) : Before(i) >= Before(g) + MaxLen => PieceParsed(i)

(* test_system.c, on a sentence that breaks off before a whole one: "second *)
(* $ causes parser to restart". No state looks for a start past the first.  *)
RestartsAtSecondStart == Drained => PieceParsed(Len(plan))

(* A call of tiny_nmea_work returns once the bytes fed stop coming.         *)
WorkReturns == at # "idle" ~> at = "idle"

(* If the application keeps calling it, everything fed is processed.        *)
EverythingProcessed == <>[](fed = Len(stream) /\ ring = <<>>)
-----------------------------------------------------------------------------
(* The inductive invariant: what holds between any two steps and makes the  *)
(* properties above hold after the next one.                                *)

(* Data starts after the header. *)
Data == HdrLen + 1

(* The working buffer and then the ring hold the last bytes accepted, and   *)
(* the completed sentences come before them; one that parsed has data.      *)
Popped == Len(accepted) - Len(ring)
Start == Popped - working_buf_len
Window ==
  /\ Start >= 0
  /\ \A k \in 1..Len(ring) : ring[k] = Popped + k
  /\ \A k \in 1..working_buf_len : ctx.working_buf[k] = Start + k
  /\ \A i \in DOMAIN log : \A k \in DOMAIN log[i].bytes : log[i].bytes[k] <= Start
  /\ \A i \in DOMAIN log : log[i].parsed => Len(log[i].bytes) > Data

(* What the last pop returned is of no use once it is in the working buffer. *)
Moved == at # "check" => got = <<>>

(* No byte of a class lies between two offsets. *)
Free(class, from, to) == \A o \in from..to-1 : At(o) \notin class

(* What each state has found in the working buffer. *)
HeaderFound == /\ At(0) = "$" /\ HeaderValid
               /\ ctx.current_type = At(HdrLen - 1)
FoundSoFar ==
  /\ ctx.parser_state = "FIND_TALKER_AND_TYPE" => At(0) = "$"
  /\ ctx.parser_state = "FIND_CHECKSUM_OR_END" =>
       HeaderFound /\ Free({"*"} \cup Eol, Data, ctx.parse_pos)
  /\ ctx.parser_state = "FIND_END" =>
       /\ HeaderFound /\ Free({"*"} \cup Eol, Data, ctx.data_end)
       /\ At(ctx.data_end) = "*"
       /\ Free(Eol, Data, IF ctx.line_end = NULL THEN ctx.parse_pos ELSE ctx.line_end)
  /\ ctx.parser_state = "SENTENCE_COMPLETE" =>
       /\ HeaderFound /\ Free({"*"} \cup Eol, Data, ctx.data_end)
       /\ Free(Eol, Data, ctx.line_end)
       /\ \/ ctx.data_end = ctx.line_end
          \/ /\ At(ctx.data_end) = "*"
             /\ TwoDigits(ctx.data_end + 1, ctx.line_end)
             /\ Checksum([i \in 1..ctx.data_end-1 |-> At(i)])
                  = 2 * Digit(At(ctx.data_end + 1)) + Digit(At(ctx.data_end + 2))

(* The century in the context is that of the last dated ZDA completed.      *)
CenturyKept == IsLastCentury(ctx.zda_century, DatedZdas(Len(log) + 1))

IInv == /\ TypeOK /\ IndicesInBuffer /\ Window /\ Moved /\ FoundSoFar
        /\ CompletedInOrder /\ CompletedAreSentences
        /\ CenturyKept /\ CenturyIsLastZda

(* And what makes good sentences arrive. When nothing was lost, a byte is   *)
(* the one that was sent in its place.                                      *)
InPlace == /\ plan \in Plans /\ stream = Concat(plan)
           /\ Lossless => \A b \in 1..Len(accepted) : accepted[b] = b

(* What the state machine waits for is not in the working buffer, and it    *)
(* does not rest before it has to wait.                                     *)
WaitsInVain ==
  /\ ctx.waiting_for_data =>
       /\ at \in {"idle", "loop", "fill"}
       /\ \/ ctx.parser_state = "FIND_TALKER_AND_TYPE" /\ working_buf_len <= HdrLen
          \/ /\ ctx.parser_state \in {"FIND_CHECKSUM_OR_END", "FIND_END"}
             /\ ctx.parse_pos = working_buf_len
  /\ ctx.parser_state \in {"FIND_END", "SENTENCE_COMPLETE"} /\ ctx.line_end # NULL =>
       ctx.parse_pos <= ctx.line_end /\ At(ctx.line_end) \in Eol
  /\ at = "idle" /\ ring = <<>> =>
       ctx.waiting_for_data \/ working_buf_len <= ctx.parse_pos

(* The next start it will find is that of piece i, or it is the one found.  *)
InStep(i) ==
  /\ i \in 1..Len(plan)+1
  /\ IF ctx.parser_state = "FIND_START"
     THEN /\ Start <= Before(i)
          /\ \A b \in Start+1..Before(i) : stream[b] # "$"
     ELSE Start = Before(i) /\ i <= Len(plan)

(* It is in step all the time, when no piece has a fault;                   *)
NeverOutOfStep ==
  Lossless /\ Faultless => /\ InStep(Len(log) + 1)
                           /\ \A i \in DOMAIN log : IsPiece(log[i], i)

(* and else from some piece on, not far behind the last fault.              *)
BackInStep ==
  \A g \in DOMAIN plan : Lossless /\ GoodFrom(g) /\ Start >= Before(g) =>
    \E i \in g..Len(plan)+1 :
      /\ InStep(i)
      /\ \A k \in g..i-1 : Before(k) >= Before(g) + MaxLen => PieceParsed(k)

StreamInv == IInv /\ InPlace /\ WaitsInVain /\ NeverOutOfStep /\ BackInStep
=============================================================================
