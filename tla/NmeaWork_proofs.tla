--------------------------- MODULE NmeaWork_proofs ---------------------------
(***************************************************************************)
(* Proofs about NmeaWork, for every length of the header, the working      *)
(* buffer, the ring, the chunks and the stream, and whatever is sent.      *)
(***************************************************************************)
EXTENDS NmeaWork, SequenceTheorems, Induction, TLAPS

LEMMA LeastFacts ==
  ASSUME NEW T \in SUBSET Nat
  PROVE  \/ T = {} /\ Least(T) = NULL
         \/ Least(T) \in T /\ \A p \in T : Least(T) <= p
<1>. DEFINE L == {o \in T : \A p \in T : o <= p}
<1>1. CASE T = {}
  BY <1>1 DEF Least
<1>2. CASE T # {}
  <2>1. L # {}
    BY <1>2, LeastNat
  <2>2. Least(T) = CHOOSE o \in L : TRUE
    BY <2>1, Zenon DEF Least
  <2>3. Least(T) \in L
    BY <2>1, <2>2, Zenon
  <2>. QED BY <2>3
<1>. QED BY <1>1, <1>2
-----------------------------------------------------------------------------
(* The working buffer. *)

LEMMA ContextFacts ==
  ASSUME TypeOK
  PROVE  /\ working_buf_len \in Nat
         /\ ctx.working_buf \in [1..working_buf_len -> 1..Len(accepted)]
         /\ accepted \in [1..Len(accepted) -> 1..Len(stream)]
         /\ stream \in [1..Len(stream) -> Symbols]
         /\ Len(accepted) \in Nat /\ Len(ring) \in Nat
         /\ Len(accepted) <= MaxStream
<1>1. /\ stream \in Seq(Symbols) /\ accepted \in Seq(1..Len(stream))
      /\ ring \in Seq(1..Len(accepted))
      /\ ctx.working_buf \in Seq(1..Len(accepted))
      /\ Len(stream) <= MaxStream /\ fed \in 0..Len(stream) /\ Len(accepted) <= fed
  BY DEF TypeOK
<1>2. /\ Len(stream) \in Nat /\ stream \in [1..Len(stream) -> Symbols]
      /\ Len(accepted) \in Nat /\ accepted \in [1..Len(accepted) -> 1..Len(stream)]
      /\ Len(ring) \in Nat
  BY <1>1, LenProperties
<1>3. /\ Len(ctx.working_buf) \in Nat
      /\ ctx.working_buf \in [1..Len(ctx.working_buf) -> 1..Len(accepted)]
  BY <1>1, LenProperties
<1>. QED BY <1>1, <1>2, <1>3, WorkAssumption DEF working_buf_len

LEMMA AtType ==
  ASSUME TypeOK, NEW o \in 0..working_buf_len-1
  PROVE  At(o) \in Symbols
<1>1. o + 1 \in 1..working_buf_len
  BY ContextFacts
<1>2. ctx.working_buf[o + 1] \in 1..Len(accepted)
  BY <1>1, ContextFacts
<1>. QED BY <1>2, ContextFacts DEF At, Sym

LEMMA FirstFacts ==
  ASSUME TypeOK, NEW class, NEW from \in Nat
  PROVE  \/ /\ First(class, from) = NULL
            /\ Free(class, from, working_buf_len)
         \/ /\ First(class, from) \in from..working_buf_len-1
            /\ At(First(class, from)) \in class
            /\ Free(class, from, First(class, from))
<1>. DEFINE T == {o \in from..working_buf_len-1 : At(o) \in class}
<1>1. working_buf_len \in Nat /\ T \in SUBSET Nat
  BY ContextFacts
<1>2. First(class, from) = Least(T)
  BY DEF First
<1>3. CASE T = {} /\ Least(T) = NULL
  BY <1>2, <1>3 DEF Free
<1>4. CASE Least(T) \in T /\ \A p \in T : Least(T) <= p
  <2>. DEFINE f == Least(T)
  <2>1. f \in from..working_buf_len-1 /\ At(f) \in class
    BY <1>4
  <2>2. \A o \in from..f-1 : o \in from..working_buf_len-1 /\ ~(f <= o)
    <3>. HIDE DEF f
    <3>. QED BY <1>1, <2>1
  <2>3. Free(class, from, f)
    BY <1>4, <2>2, Zenon DEF Free
  <2>. QED BY <1>2, <2>1, <2>3
<1>. QED BY <1>1, <1>3, <1>4, LeastFacts, Zenon
-----------------------------------------------------------------------------
(* The end and the beginning of a sequence. *)

LEMMA SuffixFacts ==
  ASSUME NEW S, NEW s \in Seq(S), NEW m \in 0..Len(s)
  PROVE  /\ SubSeq(s, m + 1, Len(s)) \in Seq(S)
         /\ Len(SubSeq(s, m + 1, Len(s))) = Len(s) - m
         /\ \A k \in 1..Len(s)-m : SubSeq(s, m + 1, Len(s))[k] = s[m + k]
<1>1. Len(s) \in Nat /\ m \in Nat /\ m + 1 \in Int /\ m <= Len(s)
  BY LenProperties
<1>2. \A i \in m+1..Len(s) : s[i] \in S
  BY <1>1, ElementOfSeq
<1>3. /\ SubSeq(s, m + 1, Len(s)) \in Seq(S)
      /\ Len(SubSeq(s, m + 1, Len(s)))
           = IF m + 1 <= Len(s) THEN Len(s) - (m + 1) + 1 ELSE 0
      /\ \A i \in 1..Len(s)-(m+1)+1 :
           SubSeq(s, m + 1, Len(s))[i] = s[(m + 1) + i - 1]
  BY <1>1, <1>2, SubSeqProperties
<1>. QED BY <1>1, <1>3

LEMMA PrefixFacts ==
  ASSUME NEW S, NEW s \in Seq(S), NEW m \in 0..Len(s)
  PROVE  /\ SubSeq(s, 1, m) \in Seq(S)
         /\ Len(SubSeq(s, 1, m)) = m
         /\ \A k \in 1..m : SubSeq(s, 1, m)[k] = s[k]
<1>1. Len(s) \in Nat /\ m \in Nat /\ m <= Len(s)
  BY LenProperties
<1>2. \A i \in 1..m : s[i] \in S
  BY <1>1, ElementOfSeq
<1>3. /\ SubSeq(s, 1, m) \in Seq(S)
      /\ Len(SubSeq(s, 1, m)) = IF 1 <= m THEN m - 1 + 1 ELSE 0
      /\ \A i \in 1..m-1+1 : SubSeq(s, 1, m)[i] = s[1 + i - 1]
  BY <1>1, <1>2, SubSeqProperties
<1>. QED BY <1>1, <1>3
-----------------------------------------------------------------------------
(* What the helpers on the context return. *)

LEMMA DiscardFacts ==
  ASSUME NEW c \in Context, NEW amt \in Nat, NEW S,
         c.working_buf \in Seq(S), S \subseteq 1..MaxStream
  PROVE  LET d == discard_bytes(c, amt)
             m == IF amt >= Len(c.working_buf) THEN Len(c.working_buf) ELSE amt IN
         /\ d \in Context
         /\ d.working_buf \in Seq(S)
         /\ d = [c EXCEPT !.working_buf = d.working_buf]
         /\ Len(d.working_buf) = Len(c.working_buf) - m
         /\ \A k \in 1..Len(d.working_buf) : d.working_buf[k] = c.working_buf[m + k]
<1>. DEFINE b == c.working_buf
            w == IF amt >= Len(b) THEN <<>> ELSE SubSeq(b, amt + 1, Len(b))
            m == IF amt >= Len(b) THEN Len(b) ELSE amt
<1>1. b \in Seq(S) /\ Len(b) \in Nat
  BY LenProperties
<1>2. /\ w \in Seq(S)
      /\ Len(w) = Len(b) - m
      /\ \A k \in 1..Len(w) : w[k] = b[m + k]
  <2>1. CASE amt >= Len(b)
    <3>1. w = <<>> /\ m = Len(b)
      BY <2>1
    <3>. HIDE DEF w, m
    <3>. QED BY <1>1, <3>1, EmptySeq
  <2>2. CASE ~(amt >= Len(b))
    <3>1. w = SubSeq(b, amt + 1, Len(b)) /\ m = amt
      BY <2>2
    <3>2. amt \in 0..Len(b)
      BY <1>1, <2>2
    <3>. HIDE DEF w, m
    <3>. QED BY <1>1, <3>1, <3>2, SuffixFacts
  <2>. QED BY <1>1, <2>1, <2>2
<1>3. discard_bytes(c, amt) = [c EXCEPT !.working_buf = w]
  BY DEF discard_bytes
<1>. HIDE DEF w
<1>4. [c EXCEPT !.working_buf = w] \in Context
  <2>1. w \in Seq(1..MaxStream)
    BY <1>2, SeqMonotonic
  <2>. QED BY <2>1 DEF Context
<1>5. [c EXCEPT !.working_buf = w].working_buf = w
  BY DEF Context
<1>. QED BY <1>2, <1>3, <1>4, <1>5

LEMMA RestartFacts ==
  ASSUME NEW c \in Context
  PROVE  /\ Restart(c) \in Context
         /\ Restart(c).parse_pos = 0
         /\ Restart(c).parser_state = "FIND_START"
         /\ Restart(c).working_buf = c.working_buf
         /\ Restart(c).zda_century = c.zda_century
<1>. "FIND_START" \in States
  BY DEF States
<1>. QED BY DEF Restart, Context

LEMMA ResetToStartFacts ==
  ASSUME NEW c \in Context
  PROVE  /\ ResetToStart(c) \in Context
         /\ ResetToStart(c).parse_pos = 0
         /\ ResetToStart(c).parser_state = "FIND_START"
         /\ ResetToStart(c).working_buf = <<>>
         /\ ResetToStart(c).zda_century = c.zda_century
<1>. DEFINE d == [c EXCEPT !.working_buf = <<>>]
<1>1. d \in Context /\ d.working_buf = <<>> /\ d.zda_century = c.zda_century
  BY EmptySeq DEF Context
<1>2. ResetToStart(c) = Restart(d)
  BY DEF ResetToStart
<1>. HIDE DEF d
<1>. QED BY <1>1, <1>2, RestartFacts

StatNames == {"sentences_parsed", "checksum_errors", "parse_errors",
              "buffer_overflows"}

LEMMA StatNamesFact == DOMAIN NoStats = StatNames
BY DEF NoStats, StatNames

LEMMA CountFacts ==
  ASSUME NEW c \in Context, NEW field \in StatNames
  PROVE  /\ Count(c, field) \in Context
         /\ Count(c, field).parse_pos = c.parse_pos
         /\ Count(c, field).parser_state = c.parser_state
         /\ Count(c, field).working_buf = c.working_buf
         /\ Count(c, field).zda_century = c.zda_century
<1>1. c.stats \in [StatNames -> Nat]
  BY StatNamesFact DEF Context
<1>2. [c.stats EXCEPT ![field] = @ + 1] \in [StatNames -> Nat]
  BY <1>1
<1>3. Count(c, field) = [c EXCEPT !.stats = [c.stats EXCEPT ![field] = @ + 1]]
  BY DEF Count, Context
<1>. DEFINE t == [c.stats EXCEPT ![field] = @ + 1]
<1>. HIDE DEF t
<1>4. [c EXCEPT !.stats = t] \in Context
  BY <1>2, StatNamesFact DEF Context, t
<1>5. /\ [c EXCEPT !.stats = t].parse_pos = c.parse_pos
      /\ [c EXCEPT !.stats = t].parser_state = c.parser_state
      /\ [c EXCEPT !.stats = t].working_buf = c.working_buf
      /\ [c EXCEPT !.stats = t].zda_century = c.zda_century
  BY DEF Context
<1>. QED BY <1>3, <1>4, <1>5 DEF t
-----------------------------------------------------------------------------
(* The completed sentences, while the log does not change. *)

LEMMA LogFacts ==
  ASSUME TypeOK, Window, NEW i \in DOMAIN log
  PROVE  /\ log[i] \in Entry
         /\ Len(log[i].bytes) \in Nat
         /\ DOMAIN log[i].bytes = 1..Len(log[i].bytes)
         /\ \A k \in DOMAIN log[i].bytes : log[i].bytes[k] \in 1..Len(accepted)
<1>1. log \in Seq(Entry)
  BY DEF TypeOK
<1>2. DOMAIN log = 1..Len(log) /\ log \in [1..Len(log) -> Entry]
  BY <1>1, LenProperties
<1>3. log[i] \in Entry
  BY <1>2
<1>4. log[i].bytes \in Seq(1..MaxStream)
  BY <1>3 DEF Entry
<1>5. /\ Len(log[i].bytes) \in Nat
      /\ log[i].bytes \in [1..Len(log[i].bytes) -> 1..MaxStream]
      /\ DOMAIN log[i].bytes = 1..Len(log[i].bytes)
  BY <1>4, LenProperties
<1>6. ASSUME NEW k \in DOMAIN log[i].bytes
      PROVE  log[i].bytes[k] \in 1..Len(accepted)
  <2>1. log[i].bytes[k] \in 1..MaxStream
    BY <1>5, <1>6
  <2>2. log[i].bytes[k] <= Start
    BY <1>6 DEF Window
  <2>3. Start \in Int /\ Start <= Len(accepted)
    BY ContextFacts DEF Start, Popped
  <2>. QED BY <2>1, <2>2, <2>3, ContextFacts, WorkAssumption
<1>. QED BY <1>3, <1>5, <1>6

LEMMA SameLog ==
  ASSUME TypeOK, Window, CompletedInOrder, CompletedAreSentences,
         CenturyIsLastZda,
         UNCHANGED <<stream, log>>,
         \A b \in 1..Len(accepted) : accepted'[b] = accepted[b]
  PROVE  /\ CompletedInOrder' /\ CompletedAreSentences' /\ CenturyIsLastZda'
         /\ CenturyKept /\ ctx'.zda_century = ctx.zda_century => CenturyKept'
<1>1. CompletedInOrder'
  BY DEF CompletedInOrder
<1>2. ASSUME NEW i \in DOMAIN log, NEW k \in DOMAIN log[i].bytes
      PROVE  Sym(log[i].bytes[k])' = Sym(log[i].bytes[k])
  <2>1. log[i].bytes[k] \in 1..Len(accepted)
    BY LogFacts
  <2>. QED BY <2>1 DEF Sym
<1>3. ASSUME NEW i \in DOMAIN log
      PROVE  Text(log[i].bytes)' = Text(log[i].bytes)
  <2>1. DOMAIN log[i].bytes = 1..Len(log[i].bytes)
    BY LogFacts
  <2>2. \A k \in 1..Len(log[i].bytes) :
          stream[accepted'[log[i].bytes[k]]] = stream[accepted[log[i].bytes[k]]]
    BY <1>2, <2>1 DEF Sym
  <2>. QED BY <2>2 DEF Text, Sym
<1>4. CompletedAreSentences'
  <2>1. SUFFICES ASSUME NEW i \in DOMAIN log
                 PROVE  IsSentence(Text(log[i].bytes)')
    BY DEF CompletedAreSentences
  <2>. QED BY <1>3 DEF CompletedAreSentences
<1>5. ASSUME NEW i \in DOMAIN log, log[i].parsed
      PROVE  Sym(log[i].bytes[HdrLen + 2])' = Sym(log[i].bytes[HdrLen + 2])
  <2>1. HdrLen + 2 \in DOMAIN log[i].bytes
    BY <1>5, LogFacts, WorkAssumption DEF Window, Data
  <2>. QED BY <1>2, <2>1
<1>6. ASSUME NEW i \in 1..Len(log)+1
      PROVE  DatedZdas(i)' = DatedZdas(i)
  <2>1. Len(log) \in Nat /\ DOMAIN log = 1..Len(log)
    BY LenProperties DEF TypeOK
  <2>2. \A k \in 1..i-1 : k \in DOMAIN log
    BY <2>1
  <2>. QED BY <1>5, <2>2 DEF DatedZdas
<1>7. \A i \in DOMAIN log : log'[i] = log[i] /\ DatedZdas(i)' = DatedZdas(i)
  <2>1. Len(log) \in Nat /\ DOMAIN log = 1..Len(log)
    BY LenProperties DEF TypeOK
  <2>. QED BY <1>6, <2>1
<1>8. ASSUME NEW i \in 1..Len(log)+1, NEW k \in DatedZdas(i)
      PROVE  k \in DOMAIN log /\ log[k].parsed
  <2>1. Len(log) \in Nat /\ DOMAIN log = 1..Len(log)
    BY LenProperties DEF TypeOK
  <2>. QED BY <1>8, <2>1 DEF DatedZdas
<1>9. ASSUME NEW i \in 1..Len(log)+1, NEW century, IsLastCentury(century, DatedZdas(i))
      PROVE  /\ DatedZdas(i)' = DatedZdas(i)
             /\ DatedZdas(i) = {} => century = 0
             /\ \A k \in DatedZdas(i) :
                  (\A m \in DatedZdas(i) : m <= k) => century = CenturyOf(k)'
  <2>1. \A k \in DatedZdas(i) : CenturyOf(k)' = CenturyOf(k)
    BY <1>5, <1>8 DEF CenturyOf
  <2>. QED BY <1>6, <1>9, <2>1, Zenon DEF IsLastCentury
<1>10. CenturyIsLastZda'
  <2>. SUFFICES ASSUME NEW i \in DOMAIN log, log[i].type = "R"
                PROVE  IsLastCentury(log[i].century, DatedZdas(i))'
    BY DEF CenturyIsLastZda
  <2>1. i \in 1..Len(log)+1 /\ IsLastCentury(log[i].century, DatedZdas(i))
    <3>1. Len(log) \in Nat /\ DOMAIN log = 1..Len(log)
      BY LenProperties DEF TypeOK
    <3>. QED BY <3>1 DEF CenturyIsLastZda
  <2>2. /\ DatedZdas(i)' = DatedZdas(i)
        /\ DatedZdas(i) = {} => log[i].century = 0
        /\ \A k \in DatedZdas(i) :
             (\A m \in DatedZdas(i) : m <= k) => log[i].century = CenturyOf(k)'
    BY <1>9, <2>1
  <2>3. log'[i].century = log[i].century
    OBVIOUS
  <2>. QED BY <2>2, <2>3 DEF IsLastCentury
<1>11. ASSUME CenturyKept, ctx'.zda_century = ctx.zda_century
       PROVE  CenturyKept'
  <2>1. Len(log) + 1 \in 1..Len(log)+1
    BY LenProperties DEF TypeOK
  <2>2. IsLastCentury(ctx.zda_century, DatedZdas(Len(log) + 1))
    BY <1>11 DEF CenturyKept
  <2>. QED BY <1>9, <1>11, <2>1, <2>2 DEF CenturyKept, IsLastCentury
<1>. QED BY <1>1, <1>4, <1>10, <1>11
-----------------------------------------------------------------------------
(* A step that drops bytes at the front of the working buffer, or none.     *)

LEMMA DropKeepsWindow ==
  ASSUME TypeOK, Window, NEW n \in 0..working_buf_len,
         UNCHANGED <<accepted, ring, log>>,
         Len(ctx'.working_buf) = working_buf_len - n,
         \A k \in 1..working_buf_len-n :
           ctx'.working_buf[k] = ctx.working_buf[n + k]
  PROVE  Window'
<1>1. /\ working_buf_len \in Nat /\ Len(ring) \in Nat /\ Len(accepted) \in Nat
      /\ n \in Nat
  BY ContextFacts
<1>2. Popped' = Popped /\ Popped \in Int
  BY <1>1 DEF Popped
<1>3. Start' = Start + n /\ Start \in Int /\ Start + n <= Popped
  BY <1>1, <1>2 DEF Start, working_buf_len
<1>4. \A k \in 1..Len(ring) : ring[k] = Popped + k
  BY DEF Window
<1>5. \A k \in 1..working_buf_len' : ctx'.working_buf[k] = Start' + k
  <2>1. working_buf_len' = working_buf_len - n
    BY DEF working_buf_len
  <2>2. SUFFICES ASSUME NEW k \in 1..working_buf_len-n
                 PROVE  ctx.working_buf[n + k] = Start + n + k
    BY <1>3, <2>1
  <2>3. n + k \in 1..working_buf_len
    BY <1>1
  <2>. QED BY <1>1, <1>3, <2>3 DEF Window
<1>6. ASSUME NEW i \in DOMAIN log, NEW k \in DOMAIN log[i].bytes
      PROVE  log[i].bytes[k] <= Start'
  <2>1. log[i].bytes[k] \in Nat
    BY LogFacts
  <2>2. log[i].bytes[k] <= Start
    BY DEF Window
  <2>. QED BY <1>1, <1>3, <2>1, <2>2
<1>7. Start' >= 0
  BY <1>1, <1>3 DEF Window
<1>8. \A i \in DOMAIN log : log[i].parsed => Len(log[i].bytes) > Data
  BY DEF Window
<1>. QED BY <1>2, <1>4, <1>5, <1>6, <1>7, <1>8 DEF Window, Data

(* A step of the state machine: the types, and what does not depend on the  *)
(* state it goes to.                                                        *)
Moves(c) == /\ ctx' = c
            /\ at' \in {"loop", "check"}
            /\ UNCHANGED <<env, ring, got>>
            /\ bytes_avail' \in Nat

LEMMA StepMoves ==
  ASSUME TypeOK, NEW c, Step(c)
  PROVE  Moves(c)
BY DEF TypeOK, Step, Moves

LEMMA StepKeeps ==
  ASSUME IInv, NEW c \in Context, at # "check", Moves(c), UNCHANGED log,
         c.working_buf \in Seq(1..Len(accepted)),
         c.zda_century = ctx.zda_century,
         NEW n \in 0..working_buf_len,
         Len(c.working_buf) = working_buf_len - n,
         \A k \in 1..working_buf_len-n : c.working_buf[k] = ctx.working_buf[n + k]
  PROVE  /\ TypeOK' /\ Window' /\ Moved'
         /\ CompletedInOrder' /\ CompletedAreSentences'
         /\ CenturyKept' /\ CenturyIsLastZda'
         /\ working_buf_len' = working_buf_len - n
         /\ \A o \in 0..working_buf_len-n-1 : At(o)' = At(n + o)
<1>. USE DEF IInv
<1>1. /\ ctx' = c /\ at' \in {"loop", "check"} /\ bytes_avail' \in Nat
      /\ UNCHANGED <<plan, stream, fed, accepted, ring, got, log>>
  BY DEF Moves, env
<1>2. TypeOK'
  BY <1>1 DEF TypeOK
<1>3. Window'
  BY <1>1, DropKeepsWindow
<1>3a. Moved'
  BY <1>1 DEF Moved
<1>4. /\ CompletedInOrder' /\ CompletedAreSentences'
      /\ CenturyKept' /\ CenturyIsLastZda'
  BY <1>1, SameLog
<1>5. working_buf_len' = working_buf_len - n
  BY <1>1 DEF working_buf_len
<1>6. ASSUME NEW o \in 0..working_buf_len-n-1
      PROVE  At(o)' = At(n + o)
  <2>1. working_buf_len \in Nat /\ n \in Nat
    BY ContextFacts
  <2>2. o + 1 \in 1..working_buf_len-n /\ n + (o + 1) = (n + o) + 1
    BY <2>1
  <2>3. c.working_buf[o + 1] = ctx.working_buf[(n + o) + 1]
    BY <2>2
  <2>. QED BY <1>1, <2>3 DEF At, Sym
<1>. QED BY <1>2, <1>3, <1>3a, <1>4, <1>5, <1>6
-----------------------------------------------------------------------------
(* The states that drop what they found, or wait for more. *)

LEMMA BufferFacts ==
  ASSUME TypeOK
  PROVE  /\ ctx \in Context
         /\ ctx.working_buf \in Seq(1..Len(accepted))
         /\ 1..Len(accepted) \subseteq 1..MaxStream
         /\ Len(ctx.working_buf) = working_buf_len
BY ContextFacts, WorkAssumption DEF TypeOK, working_buf_len

(* discard_bytes of what there is. *)
LEMMA DropFacts ==
  ASSUME TypeOK, NEW c \in Context, c.working_buf = ctx.working_buf,
         NEW n \in 0..working_buf_len
  PROVE  LET d == discard_bytes(c, n) IN
         /\ d \in Context
         /\ d.working_buf \in Seq(1..Len(accepted))
         /\ d.zda_century = c.zda_century
         /\ d.stats = c.stats
         /\ Len(d.working_buf) = working_buf_len - n
         /\ \A k \in 1..working_buf_len-n : d.working_buf[k] = ctx.working_buf[n + k]
<1>. DEFINE d == discard_bytes(c, n)
            m == IF n >= Len(c.working_buf) THEN Len(c.working_buf) ELSE n
<1>1. working_buf_len \in Nat /\ Len(c.working_buf) = working_buf_len
  BY ContextFacts, BufferFacts
<1>2. m = n /\ n \in Nat
  BY <1>1
<1>3. /\ c.working_buf \in Seq(1..Len(accepted))
      /\ 1..Len(accepted) \subseteq 1..MaxStream
  BY BufferFacts
<1>4. /\ d \in Context
      /\ d.working_buf \in Seq(1..Len(accepted))
      /\ d = [c EXCEPT !.working_buf = d.working_buf]
      /\ Len(d.working_buf) = Len(c.working_buf) - m
      /\ \A k \in 1..Len(d.working_buf) : d.working_buf[k] = c.working_buf[m + k]
  BY <1>2, <1>3, DiscardFacts, Zenon
<1>. HIDE DEF d, m
<1>5. d.zda_century = c.zda_century /\ d.stats = c.stats
  BY <1>4 DEF Context
<1>6. Len(d.working_buf) = working_buf_len - n
  BY <1>1, <1>2, <1>4
<1>7. \A k \in 1..working_buf_len-n : d.working_buf[k] = ctx.working_buf[n + k]
  BY <1>2, <1>4, <1>6
<1>. QED BY <1>4, <1>5, <1>6, <1>7 DEF d

(* Everything is dropped: RESET_TO_START. *)
LEMMA ResetInvariant ==
  ASSUME IInv, NEW c \in Context, Moves(ResetToStart(c)), UNCHANGED log,
         at # "check", c.zda_century = ctx.zda_century
  PROVE  IInv'
<1>. DEFINE d == ResetToStart(c)
<1>1. /\ d \in Context /\ d.parse_pos = 0 /\ d.parser_state = "FIND_START"
      /\ d.working_buf = <<>> /\ d.zda_century = c.zda_century
  BY ResetToStartFacts
<1>2. ctx' = d /\ at' \in {"loop", "check"} /\ UNCHANGED <<got, accepted>>
  BY DEF Moves, env
<1>. HIDE DEF d
<1>3. working_buf_len \in Nat
  BY ContextFacts DEF IInv
<1>4. /\ TypeOK' /\ Window' /\ Moved' /\ CompletedInOrder' /\ CompletedAreSentences'
      /\ CenturyKept' /\ CenturyIsLastZda'
      /\ working_buf_len' = 0
  <2>1. d.working_buf \in Seq(1..Len(accepted)) /\ Len(d.working_buf) = 0
    BY <1>1, EmptySeq
  <2>2. Moves(d)
    BY DEF d
  <2>3. working_buf_len \in 0..working_buf_len
        /\ working_buf_len - working_buf_len = 0
        /\ \A k \in 1..working_buf_len-working_buf_len : FALSE
    BY <1>3
  <2>. HIDE DEF working_buf_len
  <2>. QED BY <1>1, <2>1, <2>2, <2>3, StepKeeps
<1>5. IndicesInBuffer'
  BY <1>1, <1>2, <1>4, WorkAssumption DEF IndicesInBuffer
<1>6. FoundSoFar'
  BY <1>1, <1>2 DEF FoundSoFar
<1>. QED BY <1>4, <1>5, <1>6 DEF IInv

LEMMA FindStartInvariant ==
  ASSUME IInv, FindStart
  PROVE  IInv'
<1>. DEFINE start == First({"$"}, 0)
            c == [ctx EXCEPT !.has_checksum = FALSE]
            d == discard_bytes(c, start)
            e == [d EXCEPT !.parse_pos = 1,
                           !.parser_state = "FIND_TALKER_AND_TYPE"]
<1>1. /\ at = "parse"
      /\ Step(IF start = NULL THEN ResetToStart(c) ELSE e)
      /\ UNCHANGED log
  BY DEF FindStart, In
<1>2. /\ c \in Context /\ c.working_buf = ctx.working_buf
      /\ c.zda_century = ctx.zda_century
  BY BufferFacts DEF IInv, Context
<1>3. CASE start = NULL
  <2>1. Moves(ResetToStart(c))
    BY <1>1, <1>3, StepMoves DEF IInv
  <2>. HIDE DEF c
  <2>. QED BY <1>1, <1>2, <2>1, ResetInvariant
<1>4. CASE start # NULL
  <2>. HIDE DEF c
  <2>1. start \in 0..working_buf_len-1 /\ At(start) = "$" /\ working_buf_len \in Nat
    BY <1>4, FirstFacts, ContextFacts DEF IInv
  <2>2. start \in 0..working_buf_len
    BY <2>1
  <2>. HIDE DEF start
  <2>3. /\ d \in Context
        /\ d.working_buf \in Seq(1..Len(accepted))
        /\ d.zda_century = c.zda_century
        /\ Len(d.working_buf) = working_buf_len - start
        /\ \A k \in 1..working_buf_len-start : d.working_buf[k] = ctx.working_buf[start + k]
    BY <1>2, <2>2, DropFacts DEF IInv
  <2>4. d.zda_century = ctx.zda_century
    BY <1>2, <2>3
  <2>. HIDE DEF d
  <2>5. /\ e \in Context /\ e.working_buf = d.working_buf
        /\ e.parse_pos = 1 /\ e.parser_state = "FIND_TALKER_AND_TYPE"
        /\ e.zda_century = d.zda_century
    BY <2>3 DEF Context, States
  <2>6. Moves(e) /\ ctx' = e /\ at' = "loop" /\ UNCHANGED <<got, accepted>>
    BY <1>1, <1>4, StepMoves DEF IInv, Step, env
  <2>. HIDE DEF e
  <2>7. /\ TypeOK' /\ Window' /\ Moved' /\ CompletedInOrder' /\ CompletedAreSentences'
        /\ CenturyKept' /\ CenturyIsLastZda'
        /\ working_buf_len' = working_buf_len - start
        /\ \A o \in 0..working_buf_len-start-1 : At(o)' = At(start + o)
    <3>1. start \in 0..working_buf_len
      BY <2>1
    <3>. QED BY <1>1, <2>3, <2>4, <2>5, <2>6, <3>1, StepKeeps
  <2>8. IndicesInBuffer'
    <3>1. working_buf_len <= MaxLen
      BY DEF IInv, IndicesInBuffer
    <3>. QED BY <2>1, <2>5, <2>6, <2>7, <3>1, WorkAssumption DEF IndicesInBuffer
  <2>9. FoundSoFar'
    <3>1. At(0)' = "$"
      BY <2>1, <2>7
    <3>. QED BY <2>5, <2>6, <3>1 DEF FoundSoFar
  <2>. QED BY <2>7, <2>8, <2>9 DEF IInv
<1>. QED BY <1>3, <1>4
-----------------------------------------------------------------------------
(* What was found stays found while the bytes it was found in stay.         *)
LEMMA FoundKept ==
  ASSUME IInv,
         ctx'.parser_state = ctx.parser_state, ctx'.parse_pos = ctx.parse_pos,
         ctx'.data_end = ctx.data_end, ctx'.line_end = ctx.line_end,
         ctx'.current_type = ctx.current_type,
         \A o \in 0..working_buf_len-1 : At(o)' = At(o)
  PROVE  FoundSoFar'
<1>. DEFINE here == 0..working_buf_len-1
<1>1. /\ working_buf_len \in Nat /\ HdrLen \in Nat /\ HdrLen > 1
      /\ ctx.parse_pos \in Nat /\ ctx.parse_pos <= working_buf_len
      /\ ctx.data_end \in Int /\ ctx.line_end \in Int
  BY ContextFacts, WorkAssumption
     DEF IInv, TypeOK, IndicesInBuffer, Context, NULL
<1>2. ASSUME NEW class, NEW from \in Nat, NEW to \in Int, to <= working_buf_len,
             Free(class, from, to)
      PROVE  \A o \in from..to-1 : At(o)' \notin class
  <2>1. \A o \in from..to-1 : o \in 0..working_buf_len-1
    BY <1>1, <1>2
  <2>. QED BY <1>2, <2>1 DEF Free
<1>3. ASSUME HeaderFound, HdrLen < working_buf_len
      PROVE  HeaderFound'
  <2>1. 0 \in here /\ HdrLen - 1 \in here /\ HdrLen \in here
    BY <1>1, <1>3
  <2>. HIDE DEF here
  <2>. QED BY <1>3, <2>1 DEF HeaderFound, HeaderValid, here
<1>4. CASE ctx.parser_state = "FIND_START"
  BY <1>4 DEF FoundSoFar
<1>5. CASE ctx.parser_state = "FIND_TALKER_AND_TYPE"
  <2>1. 0 \in here
    BY <1>1, <1>5 DEF IInv, IndicesInBuffer
  <2>. QED BY <1>5, <2>1 DEF IInv, FoundSoFar
<1>6. CASE ctx.parser_state = "FIND_CHECKSUM_OR_END"
  <2>1. HdrLen < working_buf_len
    BY <1>1, <1>6 DEF IInv, IndicesInBuffer
  <2>2. HeaderFound /\ Free({"*"} \cup Eol, Data, ctx.parse_pos)
    BY <1>6 DEF IInv, FoundSoFar
  <2>3. Free({"*"} \cup Eol, Data, ctx.parse_pos)'
    BY <1>1, <1>2, <2>2 DEF Free, Data
  <2>. QED BY <1>3, <1>6, <2>1, <2>2, <2>3 DEF FoundSoFar
<1>7. ASSUME ctx.parser_state \in {"FIND_END", "SENTENCE_COMPLETE"}
      PROVE  /\ HdrLen < ctx.data_end /\ ctx.data_end < working_buf_len
             /\ ctx.line_end # NULL =>
                  ctx.data_end <= ctx.line_end /\ ctx.line_end < working_buf_len
             /\ HeaderFound' /\ Free({"*"} \cup Eol, Data, ctx.data_end)'
             /\ At(ctx.data_end)' = At(ctx.data_end)
  <2>1. /\ HdrLen < ctx.data_end /\ ctx.data_end < working_buf_len
        /\ ctx.line_end # NULL =>
             ctx.data_end <= ctx.line_end /\ ctx.line_end < working_buf_len
    BY <1>7 DEF IInv, IndicesInBuffer
  <2>2. HeaderFound /\ Free({"*"} \cup Eol, Data, ctx.data_end)
    BY <1>7 DEF IInv, FoundSoFar
  <2>3. Free({"*"} \cup Eol, Data, ctx.data_end)'
    BY <1>1, <1>2, <2>1, <2>2 DEF Free, Data
  <2>4. HeaderFound'
    BY <1>1, <1>3, <2>1, <2>2
  <2>5. ctx.data_end \in here
    BY <1>1, <2>1
  <2>. QED BY <2>1, <2>3, <2>4, <2>5
<1>8. CASE ctx.parser_state = "FIND_END"
  <2>. DEFINE to == IF ctx.line_end = NULL THEN ctx.parse_pos ELSE ctx.line_end
  <2>1. At(ctx.data_end) = "*" /\ Free(Eol, Data, to)
    BY <1>8 DEF IInv, FoundSoFar
  <2>2. to \in Int /\ to <= working_buf_len
    BY <1>1, <1>7, <1>8
  <2>3. to' = to
    OBVIOUS
  <2>. HIDE DEF to
  <2>4. Free(Eol, Data, to)'
    BY <1>1, <1>2, <2>1, <2>2, <2>3 DEF Free, Data
  <2>. QED BY <1>7, <1>8, <2>1, <2>4 DEF FoundSoFar, to
<1>9. CASE ctx.parser_state = "SENTENCE_COMPLETE"
  <2>1. ctx.line_end # NULL
    BY <1>9 DEF IInv, IndicesInBuffer
  <2>2. Free(Eol, Data, ctx.line_end)'
    <3>1. Free(Eol, Data, ctx.line_end)
      BY <1>9 DEF IInv, FoundSoFar
    <3>. QED BY <1>1, <1>2, <1>7, <1>9, <2>1, <3>1 DEF Free, Data
  <2>3. CASE ctx.data_end = ctx.line_end
    BY <1>7, <1>9, <2>2, <2>3 DEF FoundSoFar
  <2>4. CASE ctx.data_end # ctx.line_end
    <3>1. /\ At(ctx.data_end) = "*"
          /\ TwoDigits(ctx.data_end + 1, ctx.line_end)
          /\ Checksum([i \in 1..ctx.data_end-1 |-> At(i)])
               = 2 * Digit(At(ctx.data_end + 1)) + Digit(At(ctx.data_end + 2))
      BY <1>9, <2>4 DEF IInv, FoundSoFar
    <3>2. ctx.data_end + 1 \in here /\ ctx.data_end + 2 \in here
          /\ (ctx.data_end + 1) + 1 = ctx.data_end + 2
      BY <1>1, <1>7, <1>9, <2>1, <3>1 DEF TwoDigits
    <3>3. \A i \in 1..ctx.data_end-1 : i \in here
      BY <1>1, <1>7, <1>9
    <3>. HIDE DEF here
    <3>4. At(ctx.data_end + 1)' = At(ctx.data_end + 1)
          /\ At(ctx.data_end + 2)' = At(ctx.data_end + 2)
      BY <3>2 DEF here
    <3>5. [i \in 1..ctx.data_end-1 |-> At(i)]' = [i \in 1..ctx.data_end-1 |-> At(i)]
      BY <3>3 DEF here
    <3>6. TwoDigits(ctx.data_end + 1, ctx.line_end)'
      BY <3>1, <3>2, <3>4 DEF TwoDigits
    <3>. QED BY <1>7, <1>9, <2>2, <3>1, <3>4, <3>5, <3>6 DEF FoundSoFar
  <2>. QED BY <2>3, <2>4
<1>10. ctx.parser_state \in States
  BY DEF IInv, TypeOK, Context
<1>. QED BY <1>4, <1>5, <1>6, <1>8, <1>9, <1>10 DEF States
-----------------------------------------------------------------------------
(* The steps between which the state machine does not move. *)

SameState == /\ ctx'.working_buf = ctx.working_buf
             /\ ctx'.parser_state = ctx.parser_state
             /\ ctx'.parse_pos = ctx.parse_pos
             /\ ctx'.data_end = ctx.data_end
             /\ ctx'.line_end = ctx.line_end
             /\ ctx'.current_type = ctx.current_type
             /\ ctx'.zda_century = ctx.zda_century

LEMMA SameStateKeeps ==
  ASSUME IInv, SameState, UNCHANGED <<stream, log>>,
         \A b \in 1..Len(accepted) : accepted'[b] = accepted[b]
  PROVE  /\ FoundSoFar' /\ CompletedInOrder' /\ CompletedAreSentences'
         /\ CenturyKept' /\ CenturyIsLastZda'
<1>1. ASSUME NEW o \in 0..working_buf_len-1
      PROVE  At(o)' = At(o)
  <2>1. o + 1 \in 1..working_buf_len
    BY ContextFacts DEF IInv
  <2>2. ctx.working_buf[o + 1] \in 1..Len(accepted)
    BY <2>1, ContextFacts DEF IInv
  <2>. QED BY <2>2 DEF At, Sym, SameState
<1>2. FoundSoFar'
  BY <1>1, FoundKept DEF SameState
<1>3. /\ CompletedInOrder' /\ CompletedAreSentences'
      /\ CenturyKept' /\ CenturyIsLastZda'
  BY SameLog DEF IInv, SameState
<1>. QED BY <1>2, <1>3

(* A step of one side that moves no byte. *)
LEMMA QuietInvariant ==
  ASSUME IInv, SameState, ctx' \in Context,
         UNCHANGED <<env, ring, log>>,
         got' \in {got, <<>>}, bytes_avail' \in Nat,
         at' \in {"idle", "loop", "fill", "check", "parse"},
         at' # "check" => got' = <<>>,
         at' = "parse" => working_buf_len # ctx.parse_pos
  PROVE  IInv'
<1>1. UNCHANGED <<stream, fed, accepted>>
  BY DEF env
<1>2. working_buf_len' = working_buf_len /\ working_buf_len \in Nat
  BY ContextFacts DEF SameState, working_buf_len, IInv
<1>3. TypeOK'
  <2>1. <<>> \in Seq(1..Len(accepted))
    BY EmptySeq
  <2>. QED BY <1>1, <2>1 DEF IInv, TypeOK, SameState
<1>4. IndicesInBuffer'
  <2>1. ctx.parse_pos \in Nat
    BY DEF IInv, TypeOK, Context
  <2>. HIDE DEF working_buf_len
  <2>. QED BY <1>2, <2>1 DEF SameState, IndicesInBuffer, IInv
<1>5. Window'
  BY <1>1, <1>2 DEF Window, IInv, SameState, Start, Popped, Data
<1>6. Moved'
  BY DEF Moved
<1>7. /\ FoundSoFar' /\ CompletedInOrder' /\ CompletedAreSentences'
      /\ CenturyKept' /\ CenturyIsLastZda'
  BY <1>1, SameStateKeeps
<1>. QED BY <1>3, <1>4, <1>5, <1>6, <1>7 DEF IInv

LEMMA CallInvariant ==
  ASSUME IInv, Call
  PROVE  IInv'
<1>1. SameState /\ ctx' \in Context
  BY DEF Call, SameState, IInv, TypeOK
<1>2. got = <<>>
  BY DEF Call, IInv, Moved
<1>. QED BY <1>1, <1>2, QuietInvariant DEF Call, IInv, TypeOK

LEMMA LoopInvariant ==
  ASSUME IInv, Loop
  PROVE  IInv'
<1>1. SameState /\ ctx' \in Context
  BY DEF Loop, SameState, IInv, TypeOK
<1>2. got = <<>>
  BY DEF Loop, IInv, Moved
<1>3. at' \in {"idle", "fill"} /\ bytes_avail' \in Nat
  BY ContextFacts DEF Loop, IInv
<1>. QED BY <1>1, <1>2, <1>3, QuietInvariant DEF Loop

LEMMA CheckInvariant ==
  ASSUME IInv, Check
  PROVE  IInv'
<1>1. SameState /\ ctx' \in Context
  BY DEF Check, SameState, IInv, TypeOK
<1>2. /\ at' \in {"idle", "loop", "parse"} /\ bytes_avail' \in Nat
      /\ at' = "parse" => working_buf_len # ctx.parse_pos
  BY DEF Check, IInv, TypeOK
<1>. QED BY <1>1, <1>2, QuietInvariant DEF Check

LEMMA SetCallbackInvariant ==
  ASSUME IInv, NEW set \in BOOLEAN, SetParseCallback(set) \/ SetErrorCallback(set)
  PROVE  IInv'
<1>1. ctx \in Context /\ got = <<>> /\ at = "idle" /\ bytes_avail \in Nat
  BY DEF SetParseCallback, SetErrorCallback, IInv, Moved, TypeOK
<1>2. SameState /\ ctx' \in Context
  BY <1>1 DEF SetParseCallback, SetErrorCallback, SameState, Context
<1>. QED BY <1>1, <1>2, QuietInvariant DEF SetParseCallback, SetErrorCallback
-----------------------------------------------------------------------------
(* The first state, and the first after another tiny_nmea_init. *)

Fresh == /\ stream \in Seq(Symbols) /\ Len(stream) <= MaxStream
         /\ fed \in 0..Len(stream)
         /\ ctx \in Context /\ ctx.working_buf = <<>> /\ ctx.parse_pos = 0
         /\ ctx.parser_state = "FIND_START" /\ ctx.zda_century = 0
         /\ accepted = <<>> /\ ring = <<>> /\ got = <<>> /\ log = <<>>
         /\ at = "idle" /\ bytes_avail \in Nat

LEMMA FreshInvariant == Fresh => IInv
<1>. SUFFICES ASSUME Fresh PROVE IInv
  OBVIOUS
<1>. USE DEF Fresh
<1>1. /\ Len(accepted) = 0 /\ Len(ring) = 0 /\ Len(log) = 0
      /\ Len(ctx.working_buf) = 0 /\ working_buf_len = 0
      /\ DOMAIN log = {}
  BY EmptySeq DEF working_buf_len
<1>2. TypeOK
  <2>1. \A S : <<>> \in Seq(S)
    BY EmptySeq
  <2>2. Len(stream) \in Nat
    BY LenProperties
  <2>. QED BY <1>1, <2>1, <2>2 DEF TypeOK
<1>3. IndicesInBuffer
  BY <1>1, WorkAssumption DEF IndicesInBuffer
<1>4. Window
  BY <1>1 DEF Window, Start, Popped
<1>5. Moved /\ FoundSoFar
  BY DEF Moved, FoundSoFar
<1>6. CompletedInOrder /\ CompletedAreSentences /\ CenturyIsLastZda
  BY <1>1 DEF CompletedInOrder, CompletedAreSentences, CenturyIsLastZda
<1>7. CenturyKept
  <2>1. DatedZdas(Len(log) + 1) = {}
    BY <1>1 DEF DatedZdas
  <2>. QED BY <2>1 DEF CenturyKept, IsLastCentury
<1>. QED BY <1>2, <1>3, <1>4, <1>5, <1>6, <1>7 DEF IInv

LEMMA FreshLater == Fresh' => IInv'
BY FreshInvariant, PTL

LEMMA ResetFacts ==
  ASSUME NEW c \in Context
  PROVE  /\ Reset(c, TRUE, TRUE) \in Context
         /\ Reset(c, TRUE, TRUE).working_buf = <<>>
         /\ Reset(c, TRUE, TRUE).parse_pos = 0
         /\ Reset(c, TRUE, TRUE).parser_state = "FIND_START"
         /\ Reset(c, TRUE, TRUE).zda_century = 0
<1>1. NoStats \in [DOMAIN NoStats -> Nat]
  BY DEF NoStats
<1>2. "FIND_START" \in States /\ <<>> \in Seq(1..MaxStream)
  BY EmptySeq DEF States
<1>. HIDE DEF NoStats
<1>. QED BY <1>1, <1>2 DEF Reset, Context

LEMMA InitInvariant == Init => IInv
<1>. SUFFICES ASSUME Init PROVE IInv
  OBVIOUS
<1>1. Blank \in Context
  <2>1. NoStats \in [DOMAIN NoStats -> Nat]
    BY DEF NoStats
  <2>2. NULL \in NULL..MaxLen /\ "G" \in Symbols /\ "FIND_START" \in States
        /\ <<>> \in Seq(1..MaxStream)
    BY EmptySeq, WorkAssumption DEF NULL, Symbols, States
  <2>. HIDE DEF NoStats
  <2>. QED BY <2>1, <2>2 DEF Blank, Context
<1>2. Len(stream) \in Nat
  BY LenProperties DEF Init
<1>3. /\ ctx \in Context /\ ctx.working_buf = <<>> /\ ctx.parse_pos = 0
      /\ ctx.parser_state = "FIND_START" /\ ctx.zda_century = 0
  <2>1. ctx = Reset(Blank, TRUE, TRUE)
    BY DEF Init
  <2>. QED BY <1>1, <2>1, ResetFacts
<1>4. /\ stream \in Seq(Symbols) /\ Len(stream) <= MaxStream /\ fed = 0
      /\ accepted = <<>> /\ ring = <<>> /\ got = <<>> /\ log = <<>>
      /\ at = "idle" /\ bytes_avail = 0
  BY Zenon DEF Init
<1>5. Fresh
  BY <1>2, <1>3, <1>4 DEF Fresh
<1>. QED BY <1>5, FreshInvariant

LEMMA ReinitInvariant ==
  ASSUME IInv, Reinit
  PROVE  IInv'
<1>1. got = <<>>
  BY DEF Reinit, IInv, Moved
<1>2. Fresh'
  BY <1>1, ResetFacts DEF Reinit, IInv, TypeOK, Fresh
<1>. QED BY <1>2, FreshLater
-----------------------------------------------------------------------------
(* The bytes go from the producer to the ring, and on to the working buffer. *)

LEMMA FeedFacts ==
  ASSUME IInv, NEW n \in Chunks, Feed(n)
  PROVE  LET A == Len(accepted)
             R == Len(ring) IN
         \E m \in 0..n :
           /\ n \in Nat /\ fed \in Nat /\ fed + n <= Len(stream) /\ fed' = fed + n
           /\ Len(stream) \in Nat
           /\ UNCHANGED <<plan, stream, ctx, at, bytes_avail, log, got>>
           /\ A \in Nat /\ R \in Nat /\ A <= fed
           /\ accepted' \in Seq(1..Len(stream)) /\ Len(accepted') = A + m
           /\ \A b \in 1..A : accepted'[b] = accepted[b]
           /\ \A b \in A+1..A+m : accepted'[b] = fed + (b - A)
           /\ ring' \in Seq(1..A+m) /\ Len(ring') = R + m
           /\ \A k \in 1..R : ring'[k] = ring[k]
           /\ \A k \in R+1..R+m : ring'[k] = A + (k - R)
<1>1. /\ n \in Nat /\ fed \in Nat /\ fed + n <= Len(stream) /\ fed' = fed + n
      /\ Len(stream) \in Nat
      /\ UNCHANGED <<plan, stream, ctx, at, bytes_avail, log, got>>
  BY WorkAssumption, LenProperties DEF Feed, IInv, TypeOK, Ring!Put
<1>2. PICK m \in 0..n : /\ accepted' = accepted \o [j \in 1..m |-> fed + j]
                        /\ ring' = ring \o [j \in 1..m |-> Len(accepted) + j]
  <2>1. PICK popped \in 0..Len(accepted) - Len(ring) :
          LET free == RingSize - 1 - (Len(accepted) - popped)
              m    == IF n > free THEN free ELSE n IN
          /\ free >= 0
          /\ accepted' = accepted \o [j \in 1..m |-> fed + j]
          /\ Ring!Put(m)
    BY DEF Feed
  <2>. DEFINE free == RingSize - 1 - (Len(accepted) - popped)
              m    == IF n > free THEN free ELSE n
  <2>2. free \in Nat /\ m \in 0..n
    BY <1>1, <2>1, ContextFacts, WorkAssumption DEF IInv
  <2>3. /\ accepted' = accepted \o [j \in 1..m |-> fed + j]
        /\ ring' = ring \o [j \in 1..m |-> Len(accepted) + j]
    BY <2>1 DEF Ring!Put, Ring!Fresh
  <2>. QED BY <2>2, <2>3
<1>. DEFINE new == [j \in 1..m |-> fed + j]
            put == [j \in 1..m |-> Len(accepted) + j]
            A == Len(accepted)
            R == Len(ring)
<1>3. /\ accepted \in Seq(1..Len(stream)) /\ ring \in Seq(1..A)
      /\ A \in Nat /\ R \in Nat /\ m \in Nat /\ A <= fed
  BY ContextFacts, <1>2 DEF IInv, TypeOK
<1>4. /\ new \in Seq(1..Len(stream)) /\ Len(new) = m
      /\ put \in Seq(1..A+m) /\ Len(put) = m
  <2>1. \A j \in 1..m : fed + j \in 1..Len(stream) /\ A + j \in 1..A+m
    BY <1>1, <1>2, <1>3
  <2>2. new \in [1..m -> 1..Len(stream)] /\ put \in [1..m -> 1..A+m]
    BY <2>1
  <2>. HIDE DEF new, put
  <2>. QED BY <1>3, <2>2, LenProperties, IsASeq
<1>5. /\ accepted' \in Seq(1..Len(stream)) /\ Len(accepted') = A + m
      /\ \A b \in 1..A : accepted'[b] = accepted[b]
      /\ \A b \in A+1..A+m : accepted'[b] = fed + (b - A)
  <2>0. \A j \in 1..m : new[j] = fed + j
    OBVIOUS
  <2>00. \A b \in A+1..A+m : b - A \in 1..m /\ b \in 1..A+m /\ ~(b <= A)
    BY <1>3
  <2>. HIDE DEF new
  <2>1. /\ accepted \o new \in Seq(1..Len(stream))
        /\ Len(accepted \o new) = Len(accepted) + Len(new)
        /\ \A i \in 1..Len(accepted)+Len(new) : (accepted \o new)[i] =
             IF i <= Len(accepted) THEN accepted[i] ELSE new[i - Len(accepted)]
    BY <1>3, <1>4, ConcatProperties
  <2>2. accepted' = accepted \o new
    BY <1>2 DEF new
  <2>. QED BY <1>3, <1>4, <2>0, <2>00, <2>1, <2>2
<1>6. /\ ring' \in Seq(1..A+m) /\ Len(ring') = R + m
      /\ \A k \in 1..R : ring'[k] = ring[k]
      /\ \A k \in R+1..R+m : ring'[k] = A + (k - R)
  <2>0. ring \in Seq(1..A+m)
    <3>1. 1..A \subseteq 1..A+m
      BY <1>3
    <3>. QED BY <1>3, <3>1, SeqMonotonic
  <2>1. \A i \in 1..m : put[i] = A + i
    OBVIOUS
  <2>. HIDE DEF put
  <2>2. /\ ring \o put \in Seq(1..A+m)
        /\ Len(ring \o put) = Len(ring) + Len(put)
        /\ \A i \in 1..Len(ring)+Len(put) : (ring \o put)[i] =
             IF i <= Len(ring) THEN ring[i] ELSE put[i - Len(ring)]
    BY <1>4, <2>0, ConcatProperties
  <2>3. ring' = ring \o put
    BY <1>2 DEF put
  <2>4. \A k \in R+1..R+m : k - R \in 1..m /\ k \in 1..R+m /\ ~(k <= R)
    BY <1>3
  <2>. QED BY <1>3, <1>4, <2>1, <2>2, <2>3, <2>4
<1>. HIDE DEF new, put, A, R
<1>. QED BY <1>1, <1>2, <1>3, <1>5, <1>6 DEF A, R

LEMMA FeedInvariant ==
  ASSUME IInv, NEW n \in Chunks, Feed(n)
  PROVE  IInv'
<1>. DEFINE A == Len(accepted)
            R == Len(ring)
<1>1. PICK m \in 0..n :
        /\ n \in Nat /\ fed \in Nat /\ fed + n <= Len(stream) /\ fed' = fed + n
        /\ Len(stream) \in Nat
        /\ UNCHANGED <<plan, stream, ctx, at, bytes_avail, log, got>>
        /\ A \in Nat /\ R \in Nat /\ A <= fed
        /\ accepted' \in Seq(1..Len(stream)) /\ Len(accepted') = A + m
        /\ \A b \in 1..A : accepted'[b] = accepted[b]
        /\ ring' \in Seq(1..A+m) /\ Len(ring') = R + m
        /\ \A k \in 1..R : ring'[k] = ring[k]
        /\ \A k \in R+1..R+m : ring'[k] = A + (k - R)
  BY FeedFacts
<1>2. m \in 0..n
  BY <1>1
<1>3. A \in Nat /\ R \in Nat /\ m \in Nat /\ A <= fed
  BY <1>1, <1>2
<1>5. /\ accepted' \in Seq(1..Len(stream)) /\ Len(accepted') = A + m
      /\ \A b \in 1..A : accepted'[b] = accepted[b]
  BY <1>1
<1>6. /\ ring' \in Seq(1..A+m) /\ Len(ring') = R + m
      /\ \A k \in 1..R : ring'[k] = ring[k]
      /\ \A k \in R+1..R+m : ring'[k] = A + (k - R)
  BY <1>1
<1>7. TypeOK'
  <2>1. 1..A \subseteq 1..A+m
    BY <1>3
  <2>2. got' \in Seq(1..A+m) /\ ctx'.working_buf \in Seq(1..A+m)
    BY <1>1, <2>1, SeqMonotonic DEF IInv, TypeOK
  <2>3. fed' \in 0..Len(stream) /\ A + m <= fed'
    BY <1>1, <1>2, <1>3
  <2>. QED BY <1>1, <1>5, <1>6, <2>2, <2>3 DEF IInv, TypeOK
<1>8. Window'
  <2>1. Popped' = Popped /\ Popped \in Int
    BY <1>3, <1>5, <1>6 DEF Popped
  <2>2. working_buf_len' = working_buf_len /\ Start' = Start
    BY <1>1, <2>1 DEF working_buf_len, Start
  <2>3. ASSUME NEW k \in 1..Len(ring')
        PROVE  ring'[k] = Popped + k
    <3>1. CASE k \in 1..R
      BY <1>6, <3>1 DEF IInv, Window
    <3>2. CASE k \in R+1..R+m
      <4>1. ring'[k] = A + (k - R)
        BY <1>6, <3>2
      <4>. QED BY <1>3, <3>2, <4>1 DEF Popped
    <3>. QED BY <1>3, <1>6, <3>1, <3>2
  <2>4. /\ Start >= 0
        /\ \A k \in 1..working_buf_len : ctx.working_buf[k] = Start + k
        /\ \A i \in DOMAIN log : \A k \in DOMAIN log[i].bytes : log[i].bytes[k] <= Start
        /\ \A i \in DOMAIN log : log[i].parsed => Len(log[i].bytes) > Data
    BY DEF IInv, Window
  <2>. QED BY <1>1, <2>1, <2>2, <2>3, <2>4 DEF Window, Data
<1>9. IndicesInBuffer' /\ Moved'
  BY <1>1 DEF IInv, IndicesInBuffer, Moved, working_buf_len
<1>10. /\ FoundSoFar' /\ CompletedInOrder' /\ CompletedAreSentences'
       /\ CenturyKept' /\ CenturyIsLastZda'
  BY <1>1, <1>5, SameStateKeeps DEF SameState
<1>. QED BY <1>7, <1>8, <1>9, <1>10 DEF IInv

(* The first n bytes of the ring move to the end of the working buffer. *)
LEMMA TakeInvariant ==
  ASSUME IInv, NEW n \in 1..Len(ring), working_buf_len + n <= MaxLen,
         at = "fill", at' = "check", bytes_avail' = 0, UNCHANGED <<env, log>>,
         Ring!Take(n),
         ctx' = [ctx EXCEPT !.working_buf = @ \o got', !.waiting_for_data = FALSE]
  PROVE  IInv'
<1>. DEFINE A == Len(accepted)
            R == Len(ring)
            w == working_buf_len
<1>1. /\ A \in Nat /\ R \in Nat /\ w \in Nat /\ n \in Nat /\ n <= R
      /\ w = Len(ctx.working_buf)
      /\ ctx \in Context /\ ctx.working_buf \in Seq(1..A) /\ ring \in Seq(1..A)
      /\ UNCHANGED <<stream, fed, accepted>>
  BY ContextFacts DEF IInv, TypeOK, env, working_buf_len
<1>2. ring' = SubSeq(ring, n + 1, R) /\ got' = SubSeq(ring, 1, n)
  BY DEF Ring!Take
<1>3. /\ ring' \in Seq(1..A) /\ Len(ring') = R - n
      /\ \A k \in 1..R-n : ring'[k] = ring[n + k]
  <2>1. n \in 0..Len(ring)
    BY <1>1
  <2>2. /\ SubSeq(ring, n + 1, Len(ring)) \in Seq(1..A)
        /\ Len(SubSeq(ring, n + 1, Len(ring))) = Len(ring) - n
        /\ \A k \in 1..Len(ring)-n : SubSeq(ring, n + 1, Len(ring))[k] = ring[n + k]
    BY <1>1, <2>1, SuffixFacts
  <2>. QED BY <1>2, <2>2
<1>4. /\ got' \in Seq(1..A) /\ Len(got') = n
      /\ \A k \in 1..n : got'[k] = ring[k]
  BY <1>1, <1>2, PrefixFacts
<1>. DEFINE b == ctx.working_buf \o got'
<1>5. /\ b \in Seq(1..A) /\ Len(b) = w + n
      /\ \A k \in 1..w : b[k] = ctx.working_buf[k]
      /\ \A k \in w+1..w+n : b[k] = ring[k - w]
  <2>1. /\ ctx.working_buf \o got' \in Seq(1..A)
        /\ Len(ctx.working_buf \o got') = Len(ctx.working_buf) + Len(got')
        /\ \A i \in 1..Len(ctx.working_buf)+Len(got') : (ctx.working_buf \o got')[i] =
             IF i <= Len(ctx.working_buf) THEN ctx.working_buf[i]
             ELSE got'[i - Len(ctx.working_buf)]
    BY <1>1, <1>4, ConcatProperties
  <2>2. \A k \in w+1..w+n : k - w \in 1..n /\ k \in 1..w+n /\ ~(k <= w)
    BY <1>1
  <2>3. \A k \in 1..w : k \in 1..w+n /\ k <= w
    BY <1>1
  <2>. HIDE DEF w
  <2>. QED BY <1>1, <1>4, <2>1, <2>2, <2>3
<1>. HIDE DEF b
<1>6. ctx' = [ctx EXCEPT !.working_buf = b, !.waiting_for_data = FALSE]
  <2>1. ctx' = [ctx EXCEPT !.working_buf = ctx.working_buf \o got',
                           !.waiting_for_data = FALSE]
    BY <1>1 DEF Context
  <2>. QED BY <2>1, Zenon DEF b
<1>7. /\ ctx' \in Context /\ ctx'.working_buf = b
      /\ ctx'.parser_state = ctx.parser_state /\ ctx'.parse_pos = ctx.parse_pos
      /\ ctx'.data_end = ctx.data_end /\ ctx'.line_end = ctx.line_end
      /\ ctx'.current_type = ctx.current_type
      /\ ctx'.zda_century = ctx.zda_century
  <2>1. 1..A \subseteq 1..MaxStream
    BY <1>1, ContextFacts, WorkAssumption DEF IInv
  <2>2. b \in Seq(1..MaxStream)
    BY <1>5, <2>1, SeqMonotonic
  <2>. QED BY <1>1, <1>6, <2>2 DEF Context
<1>8. working_buf_len' = w + n
  BY <1>5, <1>7 DEF working_buf_len
<1>9. TypeOK'
  BY <1>1, <1>3, <1>4, <1>5, <1>7 DEF IInv, TypeOK
<1>10. IndicesInBuffer'
  <2>1. /\ ctx.parse_pos \in Nat /\ ctx.data_end \in Int /\ ctx.line_end \in Int
        /\ w + n <= MaxLen
    BY <1>1 DEF Context, NULL
  <2>2. IndicesInBuffer
    BY DEF IInv
  <2>. HIDE DEF w
  <2>3. /\ ctx.parse_pos <= w
        /\ ctx.parser_state = "FIND_START" => ctx.parse_pos = 0
        /\ ctx.parser_state = "FIND_TALKER_AND_TYPE" => ctx.parse_pos = 1
        /\ ctx.parser_state = "FIND_CHECKSUM_OR_END" => HdrLen < ctx.parse_pos
        /\ ctx.parser_state \in {"FIND_END", "SENTENCE_COMPLETE"} =>
             /\ HdrLen < ctx.data_end /\ ctx.data_end < w
             /\ ctx.data_end <= ctx.parse_pos
             /\ ctx.line_end # NULL =>
                  ctx.data_end <= ctx.line_end /\ ctx.line_end < w
        /\ ctx.parser_state = "SENTENCE_COMPLETE" => ctx.line_end # NULL
    BY <2>2, SMTT(30) DEF IndicesInBuffer, w
  <2>. DEFINE p == ctx.parse_pos
              d == ctx.data_end
              l == ctx.line_end
              s == ctx.parser_state
  <2>4. /\ ctx'.parse_pos = p /\ ctx'.data_end = d
        /\ ctx'.line_end = l /\ ctx'.parser_state = s
    BY <1>7
  <2>5. /\ p \in Nat /\ d \in Int /\ l \in Int /\ w \in Nat /\ n \in Nat
        /\ HdrLen \in Nat /\ w + n <= MaxLen /\ p <= w
        /\ at' # "parse"
    BY <1>1, <2>1, <2>3, WorkAssumption
  <2>6. /\ s = "FIND_START" => p = 0
        /\ s = "FIND_TALKER_AND_TYPE" => p = 1
        /\ s = "FIND_CHECKSUM_OR_END" => HdrLen < p
        /\ s \in {"FIND_END", "SENTENCE_COMPLETE"} =>
             /\ HdrLen < d /\ d < w /\ d <= p
             /\ l # NULL => d <= l /\ l < w
        /\ s = "SENTENCE_COMPLETE" => l # NULL
    BY <2>3
  <2>. HIDE DEF p, d, l, s
  <2>7. /\ w + n <= MaxLen /\ p <= w + n
        /\ d < w => d < w + n
        /\ l < w => l < w + n
    BY <2>5
  <2>8. /\ working_buf_len' <= MaxLen /\ p <= working_buf_len'
        /\ d < w => d < working_buf_len'
        /\ l < w => l < working_buf_len'
    BY <1>8, <2>7, Zenon
  <2>9. s \in {"FIND_END", "SENTENCE_COMPLETE"} =>
          /\ HdrLen < d /\ d < working_buf_len' /\ d <= p
          /\ l # NULL => d <= l /\ l < working_buf_len'
    BY <2>6, <2>8, Zenon
  <2>. QED BY <2>4, <2>5, <2>6, <2>8, <2>9, Zenon DEF IndicesInBuffer
<1>11. Window'
  <2>1. Popped' = Popped + n /\ Popped \in Int
    BY <1>1, <1>3 DEF Popped
  <2>2. Start' = Start /\ Start = Popped - w
    BY <1>1, <1>8, <2>1 DEF Start
  <2>3. ASSUME NEW k \in 1..R-n PROVE ring'[k] = Popped' + k
    <3>1. n + k \in 1..R
      BY <1>1
    <3>2. ring[n + k] = Popped + (n + k)
      BY <3>1 DEF IInv, Window
    <3>3. ring'[k] = ring[n + k]
      BY <1>3
    <3>. QED BY <1>1, <2>1, <3>2, <3>3
  <2>4. ASSUME NEW k \in 1..w+n PROVE b[k] = Start + k
    <3>1. CASE k \in 1..w
      BY <1>5, <3>1 DEF IInv, Window
    <3>2. CASE k \in w+1..w+n
      <4>0. k - w \in 1..R
        <5>. HIDE DEF w
        <5>. QED BY <1>1, <3>2
      <4>1. b[k] = ring[k - w]
        BY <1>5, <3>2
      <4>2. ring[k - w] = Popped + (k - w)
        BY <4>0 DEF IInv, Window
      <4>. HIDE DEF w
      <4>. QED BY <1>1, <2>1, <2>2, <4>1, <4>2
    <3>. QED BY <1>1, <3>1, <3>2
  <2>5. /\ Start >= 0
        /\ \A i \in DOMAIN log : \A k \in DOMAIN log[i].bytes : log[i].bytes[k] <= Start
        /\ \A i \in DOMAIN log : log[i].parsed => Len(log[i].bytes) > Data
    BY DEF IInv, Window
  <2>. HIDE DEF w
  <2>. QED BY <1>3, <1>7, <1>8, <2>2, <2>3, <2>4, <2>5 DEF Window, Data
<1>12. Moved'
  BY DEF Moved
<1>13. FoundSoFar'
  <2>1. ASSUME NEW o \in 0..working_buf_len-1
        PROVE  At(o)' = At(o)
    <3>1. o + 1 \in 1..w
      BY <1>1
    <3>. QED BY <1>1, <1>5, <1>7, <3>1 DEF At, Sym
  <2>. QED BY <1>7, <2>1, FoundKept
<1>14. /\ CompletedInOrder' /\ CompletedAreSentences'
       /\ CenturyKept' /\ CenturyIsLastZda'
  BY <1>1, <1>7, SameLog DEF IInv
<1>. QED BY <1>9, <1>10, <1>11, <1>12, <1>13, <1>14 DEF IInv

LEMMA FillInvariant ==
  ASSUME IInv, Fill
  PROVE  IInv'
<1>. DEFINE space  == MaxLen - working_buf_len
            to_pop == IF bytes_avail < space THEN bytes_avail ELSE space
<1>1. /\ at = "fill" /\ at' = "check" /\ bytes_avail' = 0 /\ UNCHANGED <<env, log>>
  BY DEF Fill
<1>2. /\ space \in Int /\ bytes_avail \in Nat /\ Len(ring) \in Nat
      /\ to_pop \in Int /\ to_pop <= space /\ working_buf_len \in Nat
  BY ContextFacts, WorkAssumption DEF IInv, TypeOK
<1>3. CASE to_pop > 0
  <2>1. /\ Ring!Take(to_pop)
        /\ ctx' = [ctx EXCEPT !.working_buf = @ \o got', !.waiting_for_data = FALSE]
    BY <1>3 DEF Fill
  <2>2. to_pop <= Len(ring)
    BY <2>1 DEF Ring!Take
  <2>3. working_buf_len + to_pop <= MaxLen
    BY <1>2, WorkAssumption
  <2>. HIDE DEF to_pop
  <2>4. to_pop \in 1..Len(ring)
    BY <1>2, <1>3, <2>2
  <2>. QED BY <1>1, <2>1, <2>3, <2>4, TakeInvariant
<1>4. CASE ~(to_pop > 0) /\ Overran
  <2>. DEFINE c == [Count(ctx, "buffer_overflows") EXCEPT !.waiting_for_data = FALSE]
  <2>1. ctx' = ResetToStart(c) /\ UNCHANGED <<ring, got>>
    BY <1>4 DEF Fill
  <2>2. Moves(ResetToStart(c))
    BY <1>1, <2>1 DEF Moves
  <2>3. Count(ctx, "buffer_overflows") \in Context
        /\ Count(ctx, "buffer_overflows").zda_century = ctx.zda_century
    BY CountFacts DEF IInv, TypeOK, StatNames
  <2>4. c \in Context /\ c.zda_century = ctx.zda_century
    BY <2>3 DEF Context
  <2>. HIDE DEF c
  <2>. QED BY <1>1, <2>2, <2>4, ResetInvariant
<1>5. CASE ~(to_pop > 0) /\ ~Overran
  <2>1. ctx' = [ctx EXCEPT !.waiting_for_data = FALSE] /\ UNCHANGED <<ring, got>>
    BY <1>5 DEF Fill
  <2>2. ctx' \in Context /\ SameState
    BY <2>1 DEF IInv, TypeOK, Context, SameState
  <2>. QED BY <1>1, <2>1, <2>2, QuietInvariant
<1>. QED BY <1>3, <1>4, <1>5
-----------------------------------------------------------------------------
(* The states that keep every byte they have. *)

LEMMA StayKeeps ==
  ASSUME IInv, NEW c \in Context, at # "check", Moves(c), UNCHANGED log,
         c.working_buf = ctx.working_buf, c.zda_century = ctx.zda_century
  PROVE  /\ TypeOK' /\ Window' /\ Moved'
         /\ CompletedInOrder' /\ CompletedAreSentences'
         /\ CenturyKept' /\ CenturyIsLastZda'
         /\ working_buf_len' = working_buf_len
         /\ \A o : At(o)' = At(o)
<1>1. working_buf_len \in Nat /\ Len(ctx.working_buf) = working_buf_len
      /\ ctx.working_buf \in Seq(1..Len(accepted))
  BY ContextFacts, BufferFacts DEF IInv
<1>2. /\ 0 \in 0..working_buf_len
      /\ Len(c.working_buf) = working_buf_len - 0
      /\ \A k \in 1..working_buf_len-0 : c.working_buf[k] = ctx.working_buf[0 + k]
      /\ working_buf_len - 0 = working_buf_len
  BY <1>1
<1>3. ASSUME NEW o
      PROVE  At(o)' = At(o)
  BY DEF At, Sym, Moves, env
<1>. QED BY <1>1, <1>2, <1>3, StepKeeps

LEMMA RestartInvariant ==
  ASSUME IInv, NEW c \in Context, at # "check", Moves(Restart(c)), UNCHANGED log,
         c.working_buf \in Seq(1..Len(accepted)),
         c.zda_century = ctx.zda_century,
         NEW n \in 0..working_buf_len,
         Len(c.working_buf) = working_buf_len - n,
         \A k \in 1..working_buf_len-n : c.working_buf[k] = ctx.working_buf[n + k]
  PROVE  IInv'
<1>. DEFINE d == Restart(c)
<1>1. /\ d \in Context /\ d.parse_pos = 0 /\ d.parser_state = "FIND_START"
      /\ d.working_buf = c.working_buf /\ d.zda_century = c.zda_century
  BY RestartFacts
<1>2. ctx' = d /\ at' \in {"loop", "check"} /\ Moves(d)
  BY DEF Moves
<1>. HIDE DEF d
<1>3. /\ TypeOK' /\ Window' /\ Moved' /\ CompletedInOrder' /\ CompletedAreSentences'
      /\ CenturyKept' /\ CenturyIsLastZda'
      /\ working_buf_len' = working_buf_len - n
  BY <1>1, <1>2, StepKeeps
<1>4. IndicesInBuffer'
  <2>1. /\ working_buf_len \in Nat /\ n \in Nat /\ n <= working_buf_len
        /\ working_buf_len <= MaxLen
    BY ContextFacts DEF IInv, IndicesInBuffer
  <2>. QED BY <1>1, <1>2, <1>3, <2>1, WorkAssumption DEF IndicesInBuffer
<1>5. FoundSoFar'
  BY <1>1, <1>2 DEF FoundSoFar
<1>. QED BY <1>3, <1>4, <1>5 DEF IInv

LEMMA FindTalkerAndTypeInvariant ==
  ASSUME IInv, FindTalkerAndType
  PROVE  IInv'
<1>. DEFINE c == [ctx EXCEPT !.current_type = At(HdrLen - 1)]
<1>1. /\ at = "parse" /\ ctx.parser_state = "FIND_TALKER_AND_TYPE"
      /\ UNCHANGED log
  BY DEF FindTalkerAndType, In
<1>2. /\ ctx \in Context /\ ctx.parse_pos = 1 /\ At(0) = "$"
      /\ working_buf_len \in Nat /\ HdrLen \in Nat /\ HdrLen > 1
      /\ working_buf_len <= MaxLen /\ ctx.parse_pos < working_buf_len
  BY <1>1, ContextFacts, WorkAssumption
     DEF IInv, TypeOK, IndicesInBuffer, FoundSoFar
<1>3. CASE working_buf_len - ctx.parse_pos < HdrLen
  <2>1. Step([ctx EXCEPT !.waiting_for_data = TRUE])
    BY <1>3 DEF FindTalkerAndType
  <2>2. ctx' = [ctx EXCEPT !.waiting_for_data = TRUE]
        /\ at' = "loop" /\ UNCHANGED <<env, ring, got, bytes_avail>>
    BY <2>1 DEF Step
  <2>3. ctx' \in Context /\ SameState
    BY <1>2, <2>2 DEF Context, SameState
  <2>4. got' = <<>> /\ bytes_avail' \in Nat
    BY <1>1, <2>2 DEF IInv, Moved, TypeOK
  <2>. QED BY <1>1, <2>2, <2>3, <2>4, QuietInvariant
<1>4. ASSUME ~(working_buf_len - ctx.parse_pos < HdrLen)
      PROVE  /\ c \in Context /\ c.working_buf = ctx.working_buf
             /\ c.zda_century = ctx.zda_century /\ c.parse_pos = 1
             /\ c.current_type = At(HdrLen - 1)
  <2>1. At(HdrLen - 1) \in Symbols
    <3>1. HdrLen - 1 \in 0..working_buf_len-1
      BY <1>2, <1>4
    <3>. QED BY <3>1, AtType DEF IInv
  <2>. QED BY <1>2, <2>1 DEF Context
<1>5. CASE ~(working_buf_len - ctx.parse_pos < HdrLen) /\ HeaderValid
  <2>. DEFINE d == [c EXCEPT !.parse_pos = @ + HdrLen,
                             !.parser_state = "FIND_CHECKSUM_OR_END"]
  <2>1. Step(d)
    BY <1>5 DEF FindTalkerAndType
  <2>. HIDE DEF c
  <2>2. /\ d \in Context /\ d.working_buf = ctx.working_buf
        /\ d.zda_century = ctx.zda_century /\ d.parse_pos = 1 + HdrLen
        /\ d.parser_state = "FIND_CHECKSUM_OR_END"
        /\ d.current_type = At(HdrLen - 1)
    <3>. DEFINE p == c.parse_pos + HdrLen
    <3>1. p \in Nat /\ p = 1 + HdrLen
      BY <1>2, <1>4, <1>5
    <3>. HIDE DEF p
    <3>2. d = [c EXCEPT !.parse_pos = p, !.parser_state = "FIND_CHECKSUM_OR_END"]
      BY Zenon DEF p
    <3>. HIDE DEF d
    <3>. QED BY <1>4, <1>5, <3>1, <3>2 DEF Context, States
  <2>. HIDE DEF d
  <2>3. Moves(d) /\ ctx' = d /\ at' = "loop"
    BY <2>1, StepMoves DEF IInv, Step
  <2>4. /\ TypeOK' /\ Window' /\ Moved' /\ CompletedInOrder'
        /\ CompletedAreSentences' /\ CenturyKept' /\ CenturyIsLastZda'
        /\ working_buf_len' = working_buf_len
        /\ \A o : At(o)' = At(o)
    BY <1>1, <2>2, <2>3, StayKeeps
  <2>5. IndicesInBuffer'
    BY <1>2, <1>5, <2>2, <2>3, <2>4 DEF IndicesInBuffer
  <2>6. FoundSoFar'
    <3>1. HeaderFound'
      BY <1>2, <1>5, <2>2, <2>3, <2>4 DEF HeaderFound, HeaderValid
    <3>2. Free({"*"} \cup Eol, Data, ctx.parse_pos)'
      BY <1>2, <2>2, <2>3 DEF Free, Data
    <3>. QED BY <2>2, <2>3, <3>1, <3>2 DEF FoundSoFar
  <2>. QED BY <2>4, <2>5, <2>6 DEF IInv
<1>6. CASE ~(working_buf_len - ctx.parse_pos < HdrLen) /\ ~HeaderValid
  <2>. DEFINE d == discard_bytes(c, 1)
              e == Count(d, "parse_errors")
  <2>1. Step(Restart(e))
    BY <1>6 DEF FindTalkerAndType
  <2>. HIDE DEF c
  <2>2. 1 \in 0..working_buf_len
    BY <1>2
  <2>3. /\ d \in Context
        /\ d.working_buf \in Seq(1..Len(accepted))
        /\ d.zda_century = ctx.zda_century
        /\ Len(d.working_buf) = working_buf_len - 1
        /\ \A k \in 1..working_buf_len-1 : d.working_buf[k] = ctx.working_buf[1 + k]
    BY <1>4, <1>6, <2>2, DropFacts DEF IInv
  <2>. HIDE DEF d
  <2>4. /\ e \in Context /\ e.working_buf = d.working_buf
        /\ e.zda_century = d.zda_century
    BY <2>3, CountFacts DEF StatNames
  <2>. HIDE DEF e
  <2>5. Moves(Restart(e))
    BY <2>1, StepMoves DEF IInv
  <2>. QED BY <1>1, <2>2, <2>3, <2>4, <2>5, RestartInvariant
<1>. QED BY <1>3, <1>5, <1>6

LEMMA FreeUpTo ==
  ASSUME NEW A, NEW B, NEW i \in Int, NEW j \in Int, NEW k \in Int,
         Free(A, i, j), Free(B, j, k)
  PROVE  Free(A \cap B, i, k)
BY DEF Free

(* Waiting for more bytes: parse_pos never passes MaxLen, so that the first *)
(* branch of WaitForMore is never taken.                                    *)
LEMMA WaitFacts ==
  ASSUME IInv, NEW c \in Context,
         c.working_buf = ctx.working_buf, c.parse_pos = ctx.parse_pos
  PROVE  /\ WaitForMore(c) \in Context
         /\ WaitForMore(c).working_buf = c.working_buf
         /\ WaitForMore(c).zda_century = c.zda_century
         /\ WaitForMore(c).parse_pos = working_buf_len
         /\ WaitForMore(c).parser_state = c.parser_state
         /\ WaitForMore(c).current_type = c.current_type
         /\ WaitForMore(c).data_end = c.data_end
         /\ WaitForMore(c).line_end = c.line_end
<1>1. /\ working_buf_len \in Nat /\ Len(c.working_buf) = working_buf_len
      /\ c.parse_pos \in Nat /\ c.parse_pos <= MaxLen
  BY ContextFacts, BufferFacts, WorkAssumption DEF IInv, IndicesInBuffer, Context
<1>2. WaitForMore(c) = [c EXCEPT !.parse_pos = Len(c.working_buf),
                                 !.waiting_for_data = TRUE]
  BY <1>1, WorkAssumption DEF WaitForMore
<1>3. WaitForMore(c) = [c EXCEPT !.parse_pos = working_buf_len,
                                 !.waiting_for_data = TRUE]
  BY <1>1, <1>2
<1>. HIDE DEF working_buf_len
<1>. QED BY <1>1, <1>3 DEF Context

LEMMA FindChecksumOrEndInvariant ==
  ASSUME IInv, FindChecksumOrEnd
  PROVE  IInv'
<1>. DEFINE line_end == First(Eol, ctx.parse_pos)
            stop     == {"*"} \cup Eol
            data_end == First(stop, ctx.parse_pos)
            c        == [ctx EXCEPT !.line_end = line_end]
<1>1. /\ at = "parse" /\ ctx.parser_state = "FIND_CHECKSUM_OR_END"
      /\ UNCHANGED log
  BY DEF FindChecksumOrEnd, In
<1>2. /\ ctx \in Context /\ ctx.parse_pos \in Nat /\ HdrLen < ctx.parse_pos
      /\ working_buf_len \in Nat /\ HdrLen \in Nat /\ Data \in Nat /\ MaxLen \in Nat
      /\ working_buf_len <= MaxLen /\ ctx.parse_pos < working_buf_len
      /\ HeaderFound /\ Free(stop, Data, ctx.parse_pos)
  BY <1>1, ContextFacts, WorkAssumption
     DEF IInv, TypeOK, IndicesInBuffer, FoundSoFar, Context, Data
<1>3. \/ /\ data_end = NULL
         /\ Free(stop, ctx.parse_pos, working_buf_len)
      \/ /\ data_end \in ctx.parse_pos..working_buf_len-1
         /\ At(data_end) \in stop
         /\ Free(stop, ctx.parse_pos, data_end)
  BY <1>2, FirstFacts DEF IInv
<1>4. \/ /\ line_end = NULL
         /\ Free(Eol, ctx.parse_pos, working_buf_len)
      \/ /\ line_end \in ctx.parse_pos..working_buf_len-1
         /\ At(line_end) \in Eol
         /\ Free(Eol, ctx.parse_pos, line_end)
  BY <1>2, FirstFacts DEF IInv
<1>. HIDE DEF line_end, data_end
<1>5. /\ line_end \in NULL..MaxLen /\ data_end \in NULL..MaxLen
      /\ line_end \in Int /\ data_end \in Int
  BY <1>2, <1>3, <1>4 DEF NULL
<1>6. /\ c \in Context /\ c.working_buf = ctx.working_buf
      /\ c.zda_century = ctx.zda_century /\ c.parse_pos = ctx.parse_pos
      /\ c.parser_state = "FIND_CHECKSUM_OR_END"
      /\ c.current_type = ctx.current_type /\ c.line_end = line_end
  BY <1>1, <1>2, <1>5 DEF Context
<1>7. CASE data_end = NULL
  <2>. DEFINE d == WaitForMore(c)
  <2>1. Step(d)
    BY <1>7 DEF FindChecksumOrEnd, line_end, data_end
  <2>. HIDE DEF c
  <2>2. /\ d \in Context /\ d.working_buf = ctx.working_buf
        /\ d.zda_century = ctx.zda_century /\ d.parse_pos = working_buf_len
        /\ d.parser_state = "FIND_CHECKSUM_OR_END"
        /\ d.current_type = ctx.current_type
    BY <1>6, WaitFacts
  <2>. HIDE DEF d
  <2>3. Moves(d) /\ ctx' = d /\ at' = "loop"
    BY <2>1, StepMoves DEF IInv, Step
  <2>4. /\ TypeOK' /\ Window' /\ Moved' /\ CompletedInOrder'
        /\ CompletedAreSentences' /\ CenturyKept' /\ CenturyIsLastZda'
        /\ working_buf_len' = working_buf_len
        /\ \A o : At(o)' = At(o)
    BY <1>1, <2>2, <2>3, StayKeeps
  <2>5. IndicesInBuffer'
    BY <1>2, <2>2, <2>3, <2>4 DEF IndicesInBuffer
  <2>6. FoundSoFar'
    <3>1. HeaderFound'
      BY <1>2, <2>2, <2>3, <2>4 DEF HeaderFound, HeaderValid
    <3>2. Free(stop, Data, working_buf_len)
      <4>1. Free(stop, ctx.parse_pos, working_buf_len)
        BY <1>3, <1>7, <1>2 DEF NULL
      <4>. QED BY <1>2, <4>1 DEF Free
    <3>3. Free(stop, Data, ctx.parse_pos)'
      BY <2>2, <2>3, <2>4, <3>2 DEF Free, Data
    <3>. QED BY <2>2, <2>3, <3>1, <3>3 DEF FoundSoFar
  <2>. QED BY <2>4, <2>5, <2>6 DEF IInv
<1>8. CASE data_end # NULL
  <2>. DEFINE state == IF data_end # line_end THEN "FIND_END" ELSE "SENTENCE_COMPLETE"
              d == [c EXCEPT !.parse_pos = data_end,
                             !.data_end = data_end,
                             !.has_checksum = data_end # line_end,
                             !.parser_state = state]
  <2>1. Step(d)
    BY <1>8 DEF FindChecksumOrEnd, line_end, data_end
  <2>2. /\ data_end \in ctx.parse_pos..working_buf_len-1
        /\ At(data_end) \in stop
        /\ Free(stop, ctx.parse_pos, data_end)
    BY <1>3, <1>8
  <2>3. /\ data_end \in Nat /\ data_end < working_buf_len
        /\ ctx.parse_pos <= data_end /\ HdrLen < data_end
    BY <1>2, <2>2
  <2>4. state \in {"FIND_END", "SENTENCE_COMPLETE"}
    OBVIOUS
  <2>. DEFINE has == data_end # line_end
  <2>5. has \in BOOLEAN
    OBVIOUS
  <2>. HIDE DEF c, has, state
  <2>6. /\ d \in Context /\ d.working_buf = ctx.working_buf
        /\ d.zda_century = ctx.zda_century /\ d.parse_pos = data_end
        /\ d.parser_state = state /\ d.current_type = ctx.current_type
        /\ d.data_end = data_end /\ d.line_end = line_end
    <3>1. d = [c EXCEPT !.parse_pos = data_end, !.data_end = data_end,
                        !.has_checksum = has, !.parser_state = state]
      BY Zenon DEF has
    <3>. HIDE DEF d
    <3>. QED BY <1>5, <1>6, <2>3, <2>4, <2>5, <3>1 DEF Context, States
  <2>. HIDE DEF d
  <2>7. Moves(d) /\ ctx' = d /\ at' = "loop"
    BY <2>1, StepMoves DEF IInv, Step
  <2>8. /\ TypeOK' /\ Window' /\ Moved' /\ CompletedInOrder'
        /\ CompletedAreSentences' /\ CenturyKept' /\ CenturyIsLastZda'
        /\ working_buf_len' = working_buf_len
        /\ \A o : At(o)' = At(o)
    BY <1>1, <2>6, <2>7, StayKeeps
  <2>9. line_end # NULL => data_end <= line_end /\ line_end < working_buf_len
    <3>. SUFFICES ASSUME line_end # NULL
                  PROVE  data_end <= line_end /\ line_end < working_buf_len
      OBVIOUS
    <3>1. line_end \in ctx.parse_pos..working_buf_len-1 /\ At(line_end) \in Eol
      BY <1>4
    <3>2. ~(line_end \in ctx.parse_pos..data_end-1)
      BY <2>2, <3>1 DEF Free
    <3>. QED BY <1>2, <2>3, <3>1, <3>2
  <2>10. data_end # line_end => At(data_end) = "*"
    <3>. SUFFICES ASSUME At(data_end) \in Eol
                  PROVE  data_end = line_end
      BY <2>2
    <3>1. line_end # NULL /\ Free(Eol, ctx.parse_pos, line_end)
      <4>1. ~Free(Eol, ctx.parse_pos, working_buf_len)
        BY <2>2 DEF Free
      <4>2. line_end # NULL
        BY <1>4, <1>2, <4>1 DEF NULL
      <4>. QED BY <1>4, <4>1, <4>2
    <3>2. ~(data_end \in ctx.parse_pos..line_end-1)
      BY <3>1 DEF Free
    <3>. QED BY <1>2, <1>5, <2>3, <2>9, <3>1, <3>2
  <2>11. \/ state = "FIND_END" /\ data_end # line_end
         \/ state = "SENTENCE_COMPLETE" /\ data_end = line_end
    BY DEF state
  <2>12. IndicesInBuffer'
    BY <1>2, <1>8, <2>3, <2>4, <2>6, <2>7, <2>8, <2>9, <2>11 DEF IndicesInBuffer
  <2>13. HeaderFound'
    BY <1>2, <2>6, <2>7, <2>8 DEF HeaderFound, HeaderValid
  <2>14. Free(stop, Data, data_end)
    BY <1>2, <2>2, <2>3 DEF Free
  <2>15. Free(stop, Data, ctx.data_end)'
    BY <2>6, <2>7, <2>8, <2>14 DEF Free, Data
  <2>16. line_end # NULL => Free(Eol, Data, line_end)
    <3>1. line_end # NULL => Free(Eol, ctx.parse_pos, line_end)
      BY <1>4
    <3>. QED BY <1>2, <1>5, <3>1 DEF Free
  <2>17. FoundSoFar'
    <3>1. CASE data_end # line_end
      <4>. DEFINE to == IF line_end = NULL THEN data_end ELSE line_end
      <4>1. Free(Eol, Data, to)
        BY <2>14, <2>16 DEF Free
      <4>2. (IF ctx'.line_end = NULL THEN ctx'.parse_pos ELSE ctx'.line_end) = to
        BY <2>6, <2>7
      <4>. HIDE DEF to
      <4>3. Free(Eol, Data, IF ctx.line_end = NULL THEN ctx.parse_pos ELSE ctx.line_end)'
        BY <2>8, <4>1, <4>2 DEF Free, Data
      <4>4. At(ctx.data_end)' = "*"
        BY <2>6, <2>7, <2>8, <2>10, <3>1
      <4>. QED BY <2>6, <2>7, <2>11, <2>13, <2>15, <3>1, <4>3, <4>4 DEF FoundSoFar
    <3>2. CASE data_end = line_end
      <4>1. Free(Eol, Data, ctx.line_end)'
        BY <1>8, <2>6, <2>7, <2>8, <2>16, <3>2 DEF Free, Data
      <4>. QED BY <2>6, <2>7, <2>11, <2>13, <2>15, <3>2, <4>1 DEF FoundSoFar
    <3>. QED BY <3>1, <3>2
  <2>. QED BY <2>8, <2>12, <2>17 DEF IInv
<1>. QED BY <1>7, <1>8

LEMMA FindEndInvariant ==
  ASSUME IInv, FindEnd
  PROVE  IInv'
<1>. DEFINE line_end == IF ctx.line_end = NULL THEN First(Eol, ctx.parse_pos)
                        ELSE ctx.line_end
            stop     == {"*"} \cup Eol
            c        == [ctx EXCEPT !.line_end = line_end]
            hi       == ctx.data_end + 1
            computed == Checksum([i \in 1..ctx.data_end-1 |-> At(i)])
            sum      == 2 * Digit(At(hi)) + Digit(At(hi + 1))
<1>1. /\ at = "parse" /\ ctx.parser_state = "FIND_END"
      /\ UNCHANGED log
  BY DEF FindEnd, In
<1>2. /\ ctx \in Context /\ ctx.parse_pos \in Nat
      /\ HdrLen < ctx.data_end /\ ctx.data_end < working_buf_len
      /\ ctx.data_end <= ctx.parse_pos /\ ctx.data_end \in Int
      /\ ctx.line_end # NULL =>
           ctx.data_end <= ctx.line_end /\ ctx.line_end < working_buf_len
      /\ ctx.line_end \in Int
      /\ working_buf_len \in Nat /\ HdrLen \in Nat /\ Data \in Nat /\ MaxLen \in Nat
      /\ working_buf_len <= MaxLen /\ ctx.parse_pos < working_buf_len
      /\ HeaderFound /\ Free(stop, Data, ctx.data_end)
      /\ At(ctx.data_end) = "*"
      /\ Free(Eol, Data, IF ctx.line_end = NULL THEN ctx.parse_pos ELSE ctx.line_end)
  BY <1>1, ContextFacts, WorkAssumption
     DEF IInv, TypeOK, IndicesInBuffer, FoundSoFar, Context, Data, NULL
<1>3. \/ line_end = NULL /\ Free(Eol, Data, working_buf_len)
      \/ /\ line_end \in ctx.data_end..working_buf_len-1
         /\ line_end # NULL
         /\ Free(Eol, Data, line_end)
  <2>1. CASE ctx.line_end = NULL
    <3>. DEFINE f == First(Eol, ctx.parse_pos)
    <3>1. line_end = f /\ Free(Eol, Data, ctx.parse_pos)
      BY <1>2, <2>1
    <3>2. \/ f = NULL /\ Free(Eol, ctx.parse_pos, working_buf_len)
          \/ f \in ctx.parse_pos..working_buf_len-1 /\ Free(Eol, ctx.parse_pos, f)
      BY <1>2, FirstFacts DEF IInv
    <3>. HIDE DEF f, line_end
    <3>3. CASE f = NULL /\ Free(Eol, ctx.parse_pos, working_buf_len)
      BY <1>2, <3>1, <3>3 DEF Free
    <3>4. CASE f \in ctx.parse_pos..working_buf_len-1 /\ Free(Eol, ctx.parse_pos, f)
      <4>1. f \in ctx.data_end..working_buf_len-1 /\ f # NULL
        BY <1>2, <3>4 DEF NULL
      <4>2. Free(Eol, Data, f)
        BY <1>2, <3>1, <3>4 DEF Free
      <4>. QED BY <3>1, <4>1, <4>2
    <3>. QED BY <3>2, <3>3, <3>4
  <2>2. CASE ctx.line_end # NULL
    <3>1. line_end = ctx.line_end
      BY <2>2
    <3>. HIDE DEF line_end
    <3>. QED BY <1>2, <2>2, <3>1
  <2>. QED BY <2>1, <2>2
<1>4. /\ line_end = NULL => Step(WaitForMore(c))
      /\ line_end # NULL /\ ~TwoDigits(hi, line_end) =>
           Step(ResetToStart(Count(c, "parse_errors")))
      /\ line_end # NULL /\ TwoDigits(hi, line_end) /\ computed # sum =>
           Step(ResetToStart(Count(c, "checksum_errors")))
      /\ line_end # NULL /\ TwoDigits(hi, line_end) /\ computed = sum =>
           Step([c EXCEPT !.parser_state = "SENTENCE_COMPLETE"])
  BY DEF FindEnd
<1>. HIDE DEF line_end
<1>5. line_end \in NULL..MaxLen /\ line_end \in Int
  BY <1>2, <1>3 DEF NULL
<1>6. /\ c \in Context /\ c.working_buf = ctx.working_buf
      /\ c.zda_century = ctx.zda_century /\ c.parse_pos = ctx.parse_pos
      /\ c.parser_state = "FIND_END" /\ c.data_end = ctx.data_end
      /\ c.current_type = ctx.current_type /\ c.line_end = line_end
  BY <1>1, <1>2, <1>5 DEF Context
<1>. HIDE DEF c, hi, computed, sum
<1>7. CASE line_end = NULL
  <2>. DEFINE d == WaitForMore(c)
  <2>1. Step(d)
    BY <1>4, <1>7
  <2>2. /\ d \in Context /\ d.working_buf = ctx.working_buf
        /\ d.zda_century = ctx.zda_century /\ d.parse_pos = working_buf_len
        /\ d.parser_state = "FIND_END" /\ d.data_end = ctx.data_end
        /\ d.current_type = ctx.current_type /\ d.line_end = NULL
    BY <1>6, <1>7, WaitFacts
  <2>. HIDE DEF d
  <2>3. Moves(d) /\ ctx' = d /\ at' = "loop"
    BY <2>1, StepMoves DEF IInv, Step
  <2>4. /\ TypeOK' /\ Window' /\ Moved' /\ CompletedInOrder'
        /\ CompletedAreSentences' /\ CenturyKept' /\ CenturyIsLastZda'
        /\ working_buf_len' = working_buf_len
        /\ \A o : At(o)' = At(o)
    BY <1>1, <2>2, <2>3, StayKeeps
  <2>5. IndicesInBuffer'
    BY <1>2, <2>2, <2>3, <2>4 DEF IndicesInBuffer
  <2>6. HeaderFound' /\ At(ctx.data_end)' = "*"
    BY <1>2, <2>2, <2>3, <2>4 DEF HeaderFound, HeaderValid
  <2>7. Free(stop, Data, ctx.data_end)'
    BY <1>2, <2>2, <2>3, <2>4 DEF Free, Data
  <2>8. Free(Eol, Data, IF ctx.line_end = NULL THEN ctx.parse_pos ELSE ctx.line_end)'
    <3>1. Free(Eol, Data, working_buf_len)
      BY <1>2, <1>3, <1>7 DEF NULL
    <3>2. (IF ctx'.line_end = NULL THEN ctx'.parse_pos ELSE ctx'.line_end) = working_buf_len
      BY <2>2, <2>3
    <3>. HIDE DEF working_buf_len
    <3>. QED BY <2>4, <3>1, <3>2 DEF Free, Data
  <2>9. FoundSoFar'
    BY <2>2, <2>3, <2>6, <2>7, <2>8 DEF FoundSoFar
  <2>. QED BY <2>4, <2>5, <2>9 DEF IInv
<1>8. ASSUME NEW field \in StatNames, Step(ResetToStart(Count(c, field)))
      PROVE  IInv'
  <2>1. /\ Count(c, field) \in Context
        /\ Count(c, field).zda_century = ctx.zda_century
    BY <1>6, CountFacts
  <2>2. Moves(ResetToStart(Count(c, field)))
    BY <1>8, StepMoves DEF IInv
  <2>. QED BY <1>1, <2>1, <2>2, ResetInvariant
<1>9. CASE line_end # NULL /\ TwoDigits(hi, line_end) /\ computed = sum
  <2>. DEFINE d == [c EXCEPT !.parser_state = "SENTENCE_COMPLETE"]
  <2>1. Step(d)
    BY <1>4, <1>9
  <2>2. /\ d \in Context /\ d.working_buf = ctx.working_buf
        /\ d.zda_century = ctx.zda_century /\ d.parse_pos = ctx.parse_pos
        /\ d.parser_state = "SENTENCE_COMPLETE" /\ d.data_end = ctx.data_end
        /\ d.current_type = ctx.current_type /\ d.line_end = line_end
    BY <1>6 DEF Context, States
  <2>. HIDE DEF d
  <2>3. Moves(d) /\ ctx' = d /\ at' = "loop"
    BY <2>1, StepMoves DEF IInv, Step
  <2>4. /\ TypeOK' /\ Window' /\ Moved' /\ CompletedInOrder'
        /\ CompletedAreSentences' /\ CenturyKept' /\ CenturyIsLastZda'
        /\ working_buf_len' = working_buf_len
        /\ \A o : At(o)' = At(o)
    BY <1>1, <2>2, <2>3, StayKeeps
  <2>5. IndicesInBuffer'
    BY <1>2, <1>3, <1>9, <2>2, <2>3, <2>4 DEF IndicesInBuffer
  <2>6. HeaderFound' /\ At(ctx.data_end)' = "*"
    BY <1>2, <2>2, <2>3, <2>4 DEF HeaderFound, HeaderValid
  <2>7. Free(stop, Data, ctx.data_end)'
    BY <1>2, <2>2, <2>3, <2>4 DEF Free, Data
  <2>8. Free(Eol, Data, ctx.line_end)'
    BY <1>3, <1>9, <2>2, <2>3, <2>4 DEF Free, Data
  <2>9. TwoDigits(ctx.data_end + 1, ctx.line_end)'
    BY <1>9, <2>2, <2>3, <2>4 DEF TwoDigits, hi
  <2>10. (Checksum([i \in 1..ctx.data_end-1 |-> At(i)])
            = 2 * Digit(At(ctx.data_end + 1)) + Digit(At(ctx.data_end + 2)))'
    <3>1. ctx'.data_end = ctx.data_end
      BY <2>2, <2>3
    <3>2. [i \in 1..ctx.data_end-1 |-> At(i)]' = [i \in 1..ctx.data_end-1 |-> At(i)]
      BY <2>4, <3>1
    <3>3. At(ctx.data_end + 1)' = At(hi) /\ At(ctx.data_end + 2)' = At(hi + 1)
      <4>1. ctx.data_end + 2 = hi + 1
        BY <1>2 DEF hi
      <4>2. /\ At(ctx.data_end + 1)' = At(ctx.data_end + 1)
            /\ At(ctx.data_end + 2)' = At(ctx.data_end + 2)
        BY <2>4, <3>1
      <4>. QED BY <4>1, <4>2 DEF hi
    <3>. QED BY <1>9, <3>1, <3>2, <3>3 DEF computed, sum
  <2>11. FoundSoFar'
    BY <2>2, <2>3, <2>6, <2>7, <2>8, <2>9, <2>10 DEF FoundSoFar
  <2>. QED BY <2>4, <2>5, <2>11 DEF IInv
<1>. QED BY <1>4, <1>7, <1>8, <1>9 DEF StatNames
-----------------------------------------------------------------------------
(* A sentence is complete: what the state machine found makes it one. *)

LEMMA CompleteFacts ==
  ASSUME IInv, ctx.parser_state = "SENTENCE_COMPLETE"
  PROVE  /\ ctx.data_end \in Nat /\ ctx.line_end \in Nat
         /\ HdrLen \in Nat /\ HdrLen > 1 /\ Data = HdrLen + 1
         /\ HdrLen < ctx.data_end /\ ctx.data_end <= ctx.line_end
         /\ ctx.line_end < working_buf_len
         /\ working_buf_len \in Nat /\ working_buf_len <= MaxLen
         /\ HeaderFound /\ Free({"*"} \cup Eol, Data, ctx.data_end)
         /\ Free(Eol, Data, ctx.line_end)
         /\ \/ ctx.data_end = ctx.line_end
            \/ /\ At(ctx.data_end) = "*"
               /\ TwoDigits(ctx.data_end + 1, ctx.line_end)
               /\ Checksum([i \in 1..ctx.data_end-1 |-> At(i)])
                    = 2 * Digit(At(ctx.data_end + 1)) + Digit(At(ctx.data_end + 2))
<1>1. /\ HdrLen < ctx.data_end /\ ctx.data_end < working_buf_len
      /\ ctx.line_end # NULL
      /\ ctx.data_end <= ctx.line_end /\ ctx.line_end < working_buf_len
      /\ working_buf_len <= MaxLen
  BY DEF IInv, IndicesInBuffer
<1>2. /\ ctx.data_end \in NULL..MaxLen /\ ctx.line_end \in NULL..MaxLen
      /\ working_buf_len \in Nat /\ HdrLen \in Nat /\ HdrLen > 1
  BY ContextFacts, WorkAssumption DEF IInv, TypeOK, Context
<1>3. ctx.data_end \in Nat /\ ctx.line_end \in Nat
  BY <1>1, <1>2 DEF NULL
<1>. QED BY <1>1, <1>2, <1>3 DEF IInv, FoundSoFar, Data

LEMMA CompleteIsSentence ==
  ASSUME IInv, ctx.parser_state = "SENTENCE_COMPLETE",
         NEW bytes, Len(bytes) = ctx.line_end,
         \A k \in 1..ctx.line_end : bytes[k] = ctx.working_buf[k]
  PROVE  IsSentence(Text(bytes))
<1>. DEFINE text == Text(bytes)
            n    == ctx.line_end
            star == n - 2
<1>1. /\ ctx.data_end \in Nat /\ n \in Nat
      /\ HdrLen \in Nat /\ HdrLen > 1 /\ Data = HdrLen + 1
      /\ HdrLen < ctx.data_end /\ ctx.data_end <= n
      /\ HeaderFound /\ Free({"*"} \cup Eol, Data, ctx.data_end)
      /\ Free(Eol, Data, n)
      /\ \/ ctx.data_end = n
         \/ /\ At(ctx.data_end) = "*"
            /\ TwoDigits(ctx.data_end + 1, n)
            /\ Checksum([i \in 1..ctx.data_end-1 |-> At(i)])
                 = 2 * Digit(At(ctx.data_end + 1)) + Digit(At(ctx.data_end + 2))
  BY CompleteFacts
<1>2. ASSUME NEW i \in 1..n PROVE text[i] = At(i - 1)
  <2>1. text[i] = Sym(bytes[i]) /\ bytes[i] = ctx.working_buf[i]
    BY DEF Text
  <2>2. (i - 1) + 1 = i
    BY <1>1
  <2>. QED BY <2>1, <2>2 DEF At
<1>3. Len(text) = n
  BY <1>1 DEF Text
<1>. HIDE DEF text, n
<1>4. Len(text) > HdrLen
  BY <1>1, <1>3
<1>5. text[1] = "$" /\ text[HdrLen] \in Types /\ text[HdrLen + 1] = ","
  <2>1. 1 \in 1..n /\ HdrLen \in 1..n /\ HdrLen + 1 \in 1..n
        /\ 1 - 1 = 0 /\ (HdrLen + 1) - 1 = HdrLen
    BY <1>1
  <2>2. text[1] = At(0) /\ text[HdrLen] = At(HdrLen - 1) /\ text[HdrLen + 1] = At(HdrLen)
    BY <1>2, <2>1
  <2>. QED BY <1>1, <2>2 DEF HeaderFound, HeaderValid
<1>6. ASSUME NEW i \in HdrLen+2..n PROVE text[i] \notin Eol
  <2>1. i \in 1..n /\ i - 1 \in Data..n-1
    BY <1>1
  <2>. QED BY <1>1, <1>2, <2>1 DEF Free
<1>7. ASSUME NEW i \in Stars(text)
      PROVE  /\ i = star /\ n = ctx.data_end + 3
             /\ At(ctx.data_end) = "*"
             /\ {At(ctx.data_end + 1), At(ctx.data_end + 2)} \subseteq Hex
  <2>1. i \in HdrLen+2..n /\ At(i - 1) = "*"
    <3>1. i \in HdrLen+2..n /\ text[i] = "*"
      BY <1>3 DEF Stars
    <3>2. i \in 1..n
      BY <1>1, <3>1
    <3>. QED BY <1>2, <3>1, <3>2
  <2>2. ~(i - 1 \in Data..ctx.data_end-1)
    BY <1>1, <2>1 DEF Free
  <2>3. i - 1 >= ctx.data_end /\ ctx.data_end # n
    BY <1>1, <2>1, <2>2
  <2>4. /\ At(ctx.data_end) = "*" /\ n - (ctx.data_end + 1) = 2
        /\ {At(ctx.data_end + 1), At((ctx.data_end + 1) + 1)} \subseteq Hex
    BY <1>1, <2>3 DEF TwoDigits
  <2>5. n = ctx.data_end + 3 /\ (ctx.data_end + 1) + 1 = ctx.data_end + 2
    <3>. DEFINE d == ctx.data_end
    <3>1. d \in Nat /\ n \in Nat /\ n - (d + 1) = 2
      BY <1>1, <2>4
    <3>. HIDE DEF d
    <3>2. n = d + 3 /\ (d + 1) + 1 = d + 2
      BY <3>1
    <3>. QED BY <3>2 DEF d
  <2>6. At(ctx.data_end + 1) # "*" /\ At(ctx.data_end + 2) # "*"
    BY <2>4, <2>5 DEF Hex
  <2>7. i - 1 \in {ctx.data_end, ctx.data_end + 1, ctx.data_end + 2}
    <3>. DEFINE d == ctx.data_end
    <3>1. d \in Nat /\ n = d + 3 /\ i \in Int /\ i <= n /\ i - 1 >= d
      BY <1>1, <2>1, <2>3, <2>5
    <3>. HIDE DEF d
    <3>2. i - 1 \in {d, d + 1, d + 2}
      BY <3>1
    <3>. QED BY <3>2 DEF d
  <2>8. i - 1 = ctx.data_end
    BY <2>1, <2>6, <2>7
  <2>9. i = star
    BY <1>1, <2>1, <2>5, <2>8
  <2>. QED BY <2>4, <2>5, <2>9
<1>8. ASSUME Stars(text) # {}
      PROVE  /\ Stars(text) = {star}
             /\ {text[star + 1], text[star + 2]} \subseteq Hex
             /\ Checksum([i \in 1..star-2 |-> text[i + 1]])
                  = 2 * Digit(text[star + 1]) + Digit(text[star + 2])
  <2>1. Stars(text) = {star}
    BY <1>7, <1>8
  <2>2. /\ n = ctx.data_end + 3
        /\ {At(ctx.data_end + 1), At(ctx.data_end + 2)} \subseteq Hex
    BY <1>7, <1>8
  <2>3. /\ star + 1 \in 1..n /\ star + 2 \in 1..n
        /\ (star + 1) - 1 = ctx.data_end + 1 /\ (star + 2) - 1 = ctx.data_end + 2
        /\ star - 2 = ctx.data_end - 1
    BY <1>1, <2>2
  <2>. HIDE DEF star
  <2>4. text[star + 1] = At(ctx.data_end + 1) /\ text[star + 2] = At(ctx.data_end + 2)
    BY <1>2, <2>3
  <2>5. [i \in 1..star-2 |-> text[i + 1]] = [i \in 1..ctx.data_end-1 |-> At(i)]
    <3>1. ASSUME NEW i \in 1..ctx.data_end-1 PROVE text[i + 1] = At(i)
      <4>1. i + 1 \in 1..n /\ (i + 1) - 1 = i
        BY <1>1
      <4>. QED BY <1>2, <4>1
    <3>. QED BY <2>3, <3>1
  <2>6. ctx.data_end # n
    BY <1>1, <2>2
  <2>. QED BY <1>1, <2>1, <2>2, <2>4, <2>5, <2>6
<1>. QED BY <1>4, <1>3, <1>5, <1>6, <1>8, Zenon DEF IsSentence, text, star

(* Nothing of the sentences completed before changes. *)
LEMMA LogGrows ==
  ASSUME IInv, NEW e \in Entry, log' = Append(log, e),
         UNCHANGED <<stream, accepted>>
  PROVE  LET n == Len(log) IN
         /\ n \in Nat /\ DOMAIN log = 1..n
         /\ log' \in Seq(Entry) /\ Len(log') = n + 1 /\ DOMAIN log' = 1..n+1
         /\ \A i \in 1..n : log'[i] = log[i]
         /\ log'[n + 1] = e
         /\ \A b : Sym(b)' = Sym(b)
         /\ \A i \in 1..n+1 : DatedZdas(i)' = DatedZdas(i)
<1>. DEFINE n == Len(log)
<1>1. log \in Seq(Entry)
  BY DEF IInv, TypeOK
<1>2. n \in Nat /\ DOMAIN log = 1..n
  BY <1>1, LenProperties
<1>3. /\ log' \in Seq(Entry) /\ Len(log') = n + 1
      /\ \A i \in 1..n : log'[i] = log[i]
      /\ log'[n + 1] = e
  BY <1>1, AppendProperties
<1>4. DOMAIN log' = 1..n+1
  BY <1>3, LenProperties
<1>5. \A b : Sym(b)' = Sym(b)
  BY DEF Sym
<1>6. ASSUME NEW i \in 1..n+1 PROVE DatedZdas(i)' = DatedZdas(i)
  <2>1. \A k \in 1..i-1 : k \in 1..n
    BY <1>2
  <2>. QED BY <1>3, <1>5, <2>1 DEF DatedZdas
<1>. QED BY <1>2, <1>3, <1>4, <1>5, <1>6

LEMMA SentenceCompleteInvariant ==
  ASSUME IInv, SentenceComplete
  PROVE  IInv'
<1>. DEFINE c == IF Parses THEN [Count(ctx, "sentences_parsed") EXCEPT
                                   !.zda_century = Century]
                 ELSE Count(ctx, "parse_errors")
            e == [parsed |-> Parses,
                  told |-> IF Parses THEN ctx.parse_callback ELSE ctx.error_callback,
                  type |-> ctx.current_type,
                  century |-> IF ctx.current_type = "R" THEN ctx.zda_century ELSE 0,
                  bytes |-> SubSeq(ctx.working_buf, 1, ctx.line_end)]
            d == discard_bytes(c, SentenceEnd)
            L == Len(log)
            n == SentenceEnd
<1>1. /\ at = "parse" /\ ctx.parser_state = "SENTENCE_COMPLETE"
      /\ Step(Restart(d)) /\ log' = Append(log, e)
  BY DEF SentenceComplete, In
<1>2. /\ UNCHANGED <<plan, stream, fed, accepted, ring, got, bytes_avail>>
      /\ ctx' = Restart(d) /\ at' = "loop"
  BY <1>1 DEF Step, env
<1>3. /\ ctx.data_end \in Nat /\ ctx.line_end \in Nat
      /\ HdrLen \in Nat /\ HdrLen > 1 /\ Data = HdrLen + 1
      /\ HdrLen < ctx.data_end /\ ctx.data_end <= ctx.line_end
      /\ ctx.line_end < working_buf_len
      /\ working_buf_len \in Nat /\ working_buf_len <= MaxLen
  BY <1>1, CompleteFacts
<1>4. n \in ctx.line_end..working_buf_len
  <2>. DEFINE T == {o \in ctx.line_end..working_buf_len-1 :
                      o # ctx.data_end /\ At(o) \notin {"E", "N"}}
  <2>1. T \in SUBSET Nat
    BY <1>3
  <2>2. Least(T) = NULL \/ Least(T) \in T
    BY <2>1, LeastFacts
  <2>3. n = IF Least(T) = NULL THEN working_buf_len ELSE Least(T)
    BY DEF SentenceEnd
  <2>4. T \subseteq ctx.line_end..working_buf_len
    BY <1>3
  <2>. HIDE DEF T, n
  <2>. QED BY <1>3, <2>2, <2>3, <2>4
<1>. HIDE DEF n
<1>5. /\ ctx \in Context /\ ctx.zda_century \in {0, 1}
      /\ Parses \in BOOLEAN /\ Century \in {0, 1}
  BY DEF IInv, TypeOK, Context, Parses, Century, Digit
<1>6. Parses => At(Data) = Field /\ ctx.line_end > Data
  BY <1>3 DEF Parses, Field
<1>7. /\ c \in Context /\ c.working_buf = ctx.working_buf
      /\ c.zda_century = IF Parses THEN Century ELSE ctx.zda_century
  <2>1. CASE Parses
    <3>. DEFINE a == Count(ctx, "sentences_parsed")
    <3>1. a \in Context /\ a.working_buf = ctx.working_buf
      BY <1>5, CountFacts DEF StatNames
    <3>2. c = [a EXCEPT !.zda_century = Century]
      BY <2>1
    <3>. HIDE DEF a, c
    <3>. QED BY <1>5, <2>1, <3>1, <3>2 DEF Context
  <2>2. CASE ~Parses
    BY <1>5, <2>2, CountFacts DEF StatNames
  <2>. QED BY <2>1, <2>2
<1>. HIDE DEF c
<1>8. /\ d \in Context
      /\ d.working_buf \in Seq(1..Len(accepted))
      /\ d.zda_century = c.zda_century
      /\ Len(d.working_buf) = working_buf_len - n
      /\ \A k \in 1..working_buf_len-n : d.working_buf[k] = ctx.working_buf[n + k]
  <2>1. n \in 0..working_buf_len
    BY <1>3, <1>4
  <2>. QED BY <1>7, <2>1, DropFacts DEF IInv, n
<1>. HIDE DEF d
<1>9. /\ ctx' \in Context /\ ctx'.parse_pos = 0 /\ ctx'.parser_state = "FIND_START"
      /\ ctx'.working_buf = d.working_buf /\ ctx'.zda_century = c.zda_century
  BY <1>2, <1>8, RestartFacts
<1>10. /\ e.bytes \in Seq(1..Len(accepted)) /\ Len(e.bytes) = ctx.line_end
       /\ DOMAIN e.bytes = 1..ctx.line_end
       /\ \A k \in 1..ctx.line_end : e.bytes[k] = ctx.working_buf[k]
  <2>1. ctx.line_end \in 0..Len(ctx.working_buf)
        /\ ctx.working_buf \in Seq(1..Len(accepted))
    BY <1>3, BufferFacts DEF IInv
  <2>2. /\ SubSeq(ctx.working_buf, 1, ctx.line_end) \in Seq(1..Len(accepted))
        /\ Len(SubSeq(ctx.working_buf, 1, ctx.line_end)) = ctx.line_end
        /\ \A k \in 1..ctx.line_end :
             SubSeq(ctx.working_buf, 1, ctx.line_end)[k] = ctx.working_buf[k]
    BY <2>1, PrefixFacts
  <2>3. e.bytes = SubSeq(ctx.working_buf, 1, ctx.line_end)
    OBVIOUS
  <2>. QED BY <2>2, <2>3, LenProperties
<1>11. /\ e \in Entry /\ e.parsed = Parses /\ e.type = ctx.current_type
       /\ e.century = IF ctx.current_type = "R" THEN ctx.zda_century ELSE 0
  <2>1. e.bytes \in Seq(1..MaxStream)
    BY <1>10, BufferFacts, SeqMonotonic DEF IInv
  <2>. DEFINE b == SubSeq(ctx.working_buf, 1, ctx.line_end)
  <2>2. b \in Seq(1..MaxStream)
    BY <2>1
  <2>3. /\ ctx.parse_callback \in BOOLEAN /\ ctx.error_callback \in BOOLEAN
        /\ ctx.current_type \in Symbols
    BY <1>5 DEF Context
  <2>. HIDE DEF b
  <2>. QED BY <1>5, <2>2, <2>3 DEF Entry, b
<1>. HIDE DEF e
<1>12. /\ L \in Nat /\ DOMAIN log = 1..L
       /\ log' \in Seq(Entry) /\ Len(log') = L + 1 /\ DOMAIN log' = 1..L+1
       /\ \A i \in 1..L : log'[i] = log[i]
       /\ log'[L + 1] = e
       /\ \A b : Sym(b)' = Sym(b)
       /\ \A i \in 1..L+1 : DatedZdas(i)' = DatedZdas(i)
  BY <1>1, <1>2, <1>11, LogGrows
<1>. HIDE DEF L
<1>13. \A k \in 1..ctx.line_end : e.bytes[k] = Start + k
  <2>1. \A k \in 1..ctx.line_end : k \in 1..working_buf_len
    BY <1>3
  <2>. QED BY <1>10, <2>1 DEF IInv, Window
<1>14. Start \in Int /\ Start' = Start + n /\ Popped' = Popped
       /\ working_buf_len' = working_buf_len - n /\ Start >= 0
  <2>1. working_buf_len' = working_buf_len - n
    BY <1>8, <1>9 DEF working_buf_len
  <2>2. Popped' = Popped /\ Popped \in Int
    BY <1>2, ContextFacts DEF Popped, IInv
  <2>3. Start >= 0
    BY DEF IInv, Window
  <2>4. Start' = Start + n /\ Start \in Int
    <3>. HIDE DEF working_buf_len
    <3>. QED BY <1>3, <1>4, <2>1, <2>2 DEF Start
  <2>. QED BY <2>1, <2>2, <2>3, <2>4
<1>15. ASSUME NEW i \in 1..L
       PROVE  /\ \A k \in DOMAIN log[i].bytes : log[i].bytes[k] <= Start
              /\ \A k \in DOMAIN log[i].bytes : log[i].bytes[k] \in Nat
              /\ DOMAIN log[i].bytes = 1..Len(log[i].bytes)
              /\ log[i].parsed => Len(log[i].bytes) > Data
              /\ \A k \in 1..Len(log[i].bytes)-1 :
                   log[i].bytes[k + 1] = log[i].bytes[k] + 1
              /\ \A j \in 1..i-1 : \A k \in DOMAIN log[i].bytes, m \in DOMAIN log[j].bytes :
                   log[j].bytes[m] < log[i].bytes[k]
              /\ IsSentence(Text(log[i].bytes))
  <2>1. i \in DOMAIN log
    BY <1>12
  <2>2. /\ \A k \in DOMAIN log[i].bytes : log[i].bytes[k] \in Nat
        /\ DOMAIN log[i].bytes = 1..Len(log[i].bytes)
    BY <2>1, LogFacts DEF IInv
  <2>3. /\ \A k \in DOMAIN log[i].bytes : log[i].bytes[k] <= Start
        /\ log[i].parsed => Len(log[i].bytes) > Data
    BY <2>1, Zenon DEF IInv, Window
  <2>4. /\ \A k \in 1..Len(log[i].bytes)-1 :
             log[i].bytes[k + 1] = log[i].bytes[k] + 1
        /\ \A j \in 1..i-1 : \A k \in DOMAIN log[i].bytes, m \in DOMAIN log[j].bytes :
             log[j].bytes[m] < log[i].bytes[k]
    BY <2>1, Zenon DEF IInv, CompletedInOrder
  <2>5. IsSentence(Text(log[i].bytes))
    BY <2>1, Zenon DEF IInv, CompletedAreSentences
  <2>. QED BY <2>2, <2>3, <2>4, <2>5
<1>16. TypeOK'
  BY <1>2, <1>8, <1>9, <1>12 DEF IInv, TypeOK
<1>17. IndicesInBuffer'
  <2>1. working_buf_len - n \in Nat /\ working_buf_len - n <= MaxLen
    BY <1>3, <1>4, WorkAssumption
  <2>. HIDE DEF working_buf_len
  <2>2. working_buf_len' \in Nat /\ working_buf_len' <= MaxLen
    BY <1>14, <2>1
  <2>. QED BY <1>2, <1>9, <2>2 DEF IndicesInBuffer
<1>18. Window'
  <2>1. ASSUME NEW k \in 1..working_buf_len-n
        PROVE  ctx'.working_buf[k] = Start' + k
    <3>1. n + k \in 1..working_buf_len
      BY <1>3, <1>4
    <3>2. ctx.working_buf[n + k] = Start + (n + k)
      BY <3>1 DEF IInv, Window
    <3>. QED BY <1>3, <1>4, <1>8, <1>9, <1>14, <3>2
  <2>2. \A k \in 1..Len(ring) : ring[k] = Popped + k
    BY DEF IInv, Window
  <2>3. ASSUME NEW i \in 1..L+1, NEW k \in DOMAIN log'[i].bytes
        PROVE  log'[i].bytes[k] <= Start'
    <3>1. CASE i \in 1..L
      <4>1. log'[i] = log[i] /\ log[i].bytes[k] <= Start /\ log[i].bytes[k] \in Nat
        BY <1>12, <1>15, <2>3, <3>1
      <4>. QED BY <1>3, <1>4, <1>14, <4>1
    <3>2. CASE i = L + 1
      <4>1. k \in 1..ctx.line_end /\ log'[i].bytes[k] = Start + k
        BY <1>10, <1>12, <1>13, <2>3, <3>2
      <4>. QED BY <1>3, <1>4, <1>14, <4>1
    <3>. QED BY <1>12, <3>1, <3>2
  <2>4. ASSUME NEW i \in 1..L+1, log'[i].parsed
        PROVE  Len(log'[i].bytes) > Data
    <3>1. CASE i \in 1..L
      BY <1>12, <1>15, <2>4, <3>1
    <3>2. CASE i = L + 1
      BY <1>6, <1>10, <1>11, <1>12, <2>4, <3>2
    <3>. QED BY <1>12, <3>1, <3>2
  <2>5. Start' >= 0
    BY <1>3, <1>4, <1>14
  <2>. QED BY <1>2, <1>12, <1>14, <2>1, <2>2, <2>3, <2>4, <2>5 DEF Window, Data
<1>19. Moved' /\ FoundSoFar'
  BY <1>1, <1>2, <1>9 DEF Moved, FoundSoFar, IInv
<1>20. CompletedInOrder'
  <2>1. ASSUME NEW i \in 1..L+1
        PROVE  /\ \A k \in 1..Len(log'[i].bytes)-1 :
                    log'[i].bytes[k + 1] = log'[i].bytes[k] + 1
               /\ \A j \in 1..i-1 :
                    \A k \in DOMAIN log'[i].bytes, m \in DOMAIN log'[j].bytes :
                      log'[j].bytes[m] < log'[i].bytes[k]
    <3>1. CASE i \in 1..L
      <4>1. \A j \in 1..i-1 : j \in 1..L
        BY <1>12, <3>1
      <4>. QED BY <1>12, <1>15, <3>1, <4>1
    <3>2. CASE i = L + 1
      <4>1. log'[i] = e /\ i - 1 = L
        BY <1>12, <3>2
      <4>2. ASSUME NEW k \in 1..ctx.line_end-1
            PROVE  e.bytes[k + 1] = e.bytes[k] + 1
        <5>1. k \in 1..ctx.line_end /\ k + 1 \in 1..ctx.line_end
          BY <1>3
        <5>. QED BY <1>13, <1>14, <5>1
      <4>3. ASSUME NEW j \in 1..L, NEW k \in 1..ctx.line_end,
                   NEW m \in DOMAIN log[j].bytes
            PROVE  log[j].bytes[m] < e.bytes[k]
        <5>1. log[j].bytes[m] <= Start /\ log[j].bytes[m] \in Nat
          BY <1>15
        <5>. QED BY <1>3, <1>13, <1>14, <5>1
      <4>. QED BY <1>10, <1>12, <4>1, <4>2, <4>3
    <3>. QED BY <1>12, <3>1, <3>2
  <2>. QED BY <1>12, <2>1 DEF CompletedInOrder
<1>21. CompletedAreSentences'
  <2>1. ASSUME NEW i \in 1..L+1
        PROVE  IsSentence(Text(log[i].bytes)')
    <3>1. CASE i \in 1..L
      <4>1. Text(log[i].bytes)' = Text(log[i].bytes)
        BY <1>12, <3>1 DEF Text
      <4>. QED BY <1>15, <3>1, <4>1
    <3>2. CASE i = L + 1
      <4>1. IsSentence(Text(e.bytes))
        BY <1>1, <1>10, CompleteIsSentence
      <4>2. Text(log[i].bytes)' = Text(e.bytes)
        BY <1>12, <3>2 DEF Text
      <4>. QED BY <4>1, <4>2
    <3>. QED BY <1>12, <3>1, <3>2
  <2>. QED BY <1>12, <2>1 DEF CompletedAreSentences
<1>. DEFINE dated == DatedZdas(L + 1)
<1>22. /\ dated = {} => ctx.zda_century = 0
       /\ \A k \in dated : (\A m \in dated : m <= k) => ctx.zda_century = CenturyOf(k)
  BY DEF IInv, CenturyKept, IsLastCentury, L
<1>22a. \A k \in 1..L : CenturyOf(k)' = CenturyOf(k)
  BY <1>12 DEF CenturyOf
<1>23. CenturyIsLastZda'
  <2>. SUFFICES ASSUME NEW i \in 1..L+1, log'[i].type = "R"
                PROVE  IsLastCentury(log[i].century, DatedZdas(i))'
    BY <1>12 DEF CenturyIsLastZda
  <2>1. \A k \in DatedZdas(i) : CenturyOf(k)' = CenturyOf(k)
    <3>1. \A k \in DatedZdas(i) : k \in 1..i-1
      BY DEF DatedZdas
    <3>2. \A k \in 1..i-1 : k \in 1..L
      BY <1>12
    <3>. QED BY <1>22a, <3>1, <3>2
  <2>2. IsLastCentury(log'[i].century, DatedZdas(i))
    <3>1. CASE i \in 1..L
      <4>1. log'[i] = log[i] /\ i \in DOMAIN log
        BY <1>12, <3>1
      <4>. QED BY <4>1 DEF IInv, CenturyIsLastZda
    <3>2. CASE i = L + 1
      <4>1. log'[i].century = ctx.zda_century
        BY <1>11, <1>12, <3>2
      <4>. QED BY <1>22, <3>2, <4>1 DEF IsLastCentury
    <3>. QED BY <1>12, <3>1, <3>2
  <2>3. DatedZdas(i)' = DatedZdas(i)
    BY <1>12
  <2>. QED BY <2>1, <2>2, <2>3 DEF IsLastCentury
<1>24. CenturyKept'
  <2>. DEFINE new == /\ ctx.current_type = "Z" /\ Parses /\ Field \in Hex
              after == IF new THEN dated \cup {L + 1} ELSE dated
  <2>1. Parses => e.bytes[HdrLen + 2] = ctx.working_buf[HdrLen + 2]
                  /\ Sym(e.bytes[HdrLen + 2]) = Field
    <3>. SUFFICES ASSUME Parses
                  PROVE  e.bytes[HdrLen + 2] = ctx.working_buf[HdrLen + 2]
                         /\ Sym(e.bytes[HdrLen + 2]) = Field
      OBVIOUS
    <3>1. HdrLen + 2 \in 1..ctx.line_end /\ Data + 1 = HdrLen + 2
      BY <1>3, <1>6
    <3>. QED BY <1>6, <1>10, <3>1 DEF At
  <2>2. \A k \in dated : k \in 1..L
    BY <1>12 DEF DatedZdas
  <2>3. DatedZdas(Len(log) + 1)' = after
    <3>. DEFINE Ok(k) == /\ log'[k].type = "Z" /\ log'[k].parsed
                         /\ Sym(log'[k].bytes[HdrLen + 2]) \in Hex
    <3>1. DatedZdas(Len(log) + 1)' = {k \in 1..L+1 : Ok(k)}
      <4>1. (Len(log') + 1) - 1 = L + 1
        BY <1>12
      <4>. QED BY <1>12, <4>1 DEF DatedZdas
    <3>2. dated = {k \in 1..L : Ok(k)}
      <4>1. (L + 1) - 1 = L
        BY <1>12
      <4>. QED BY <1>12, <4>1 DEF DatedZdas
    <3>3. Ok(L + 1) <=> new
      BY <1>11, <1>12, <2>1
    <3>4. \A k : k \in 1..L+1 <=> k \in 1..L \/ k = L + 1
      BY <1>12
    <3>. HIDE DEF Ok, new, dated
    <3>. QED BY <3>1, <3>2, <3>3, <3>4
  <2>4. CASE new
    <3>1. c.zda_century = Digit(Field)
      BY <1>7, <2>4 DEF Century
    <3>2. after = dated \cup {L + 1}
      BY <2>4
    <3>3. ASSUME NEW k, k = L + 1 PROVE CenturyOf(k)' = Digit(Field)
      <4>1. Sym(e.bytes[HdrLen + 2]) = Field
        BY <2>1, <2>4
      <4>2. log'[k].bytes = e.bytes
        BY <1>12, <3>3
      <4>3. Sym(log[k].bytes[HdrLen + 2])' = Sym(e.bytes[HdrLen + 2])
        BY <1>12, <4>2
      <4>. QED BY <4>1, <4>3 DEF CenturyOf
    <3>4. ASSUME NEW k \in after, \A m \in after : m <= k PROVE k = L + 1
      BY <1>12, <2>2, <3>2, <3>4
    <3>5. after # {}
      BY <3>2
    <3>. HIDE DEF after, dated
    <3>. QED BY <1>9, <2>3, <3>1, <3>3, <3>4, <3>5 DEF CenturyKept, IsLastCentury
  <2>5. CASE ~new
    <3>1. c.zda_century = ctx.zda_century
      BY <1>7, <2>5 DEF Century
    <3>2. after = dated
      BY <2>5
    <3>3. \A k \in dated : CenturyOf(k)' = CenturyOf(k)
      BY <1>22a, <2>2
    <3>. HIDE DEF after, dated
    <3>. QED BY <1>9, <1>22, <2>3, <3>1, <3>2, <3>3 DEF CenturyKept, IsLastCentury
  <2>. QED BY <2>4, <2>5
<1>. QED BY <1>16, <1>17, <1>18, <1>19, <1>20, <1>21, <1>23, <1>24 DEF IInv
-----------------------------------------------------------------------------
(* Every step keeps the invariant. *)

LEMMA NextInvariant ==
  ASSUME IInv, [Next]_vars
  PROVE  IInv'
<1>1. CASE \E n \in Chunks : Feed(n)
  BY <1>1, FeedInvariant
<1>2. CASE Call
  BY <1>2, CallInvariant
<1>3. CASE Work
  <2>1. CASE Loop
    BY <2>1, LoopInvariant
  <2>2. CASE Fill
    BY <2>2, FillInvariant
  <2>3. CASE Check
    BY <2>3, CheckInvariant
  <2>4. CASE FindStart
    BY <2>4, FindStartInvariant
  <2>5. CASE FindTalkerAndType
    BY <2>5, FindTalkerAndTypeInvariant
  <2>6. CASE FindChecksumOrEnd
    BY <2>6, FindChecksumOrEndInvariant
  <2>7. CASE FindEnd
    BY <2>7, FindEndInvariant
  <2>8. CASE SentenceComplete
    BY <2>8, SentenceCompleteInvariant
  <2>. QED BY <1>3, <2>1, <2>2, <2>3, <2>4, <2>5, <2>6, <2>7, <2>8 DEF Work, Fsm
<1>4. CASE \E set \in BOOLEAN : SetParseCallback(set) \/ SetErrorCallback(set)
  BY <1>4, SetCallbackInvariant
<1>5. CASE Reinit
  BY <1>5, ReinitInvariant
<1>6. CASE UNCHANGED vars
  <2>1. SameState /\ UNCHANGED <<env, ring, got, ctx, at, bytes_avail, log>>
    BY <1>6 DEF vars, SameState
  <2>2. /\ ctx' \in Context /\ bytes_avail' \in Nat
        /\ at' \in {"idle", "loop", "fill", "check", "parse"}
        /\ at' # "check" => got' = <<>>
        /\ at' = "parse" => working_buf_len # ctx.parse_pos
    BY <2>1, BufferFacts, ContextFacts
       DEF IInv, TypeOK, Moved, IndicesInBuffer, Context
  <2>. QED BY <2>1, <2>2, QuietInvariant
<1>. QED BY <1>1, <1>2, <1>3, <1>4, <1>5, <1>6 DEF Next

(* The inductive invariant of tiny_nmea_feed and tiny_nmea_work: what each  *)
(* state of the state machine has found in the working buffer, and where    *)
(* its bytes come from.                                                     *)
THEOREM WorkInvariant == Spec => []IInv
<1>1. Init => IInv
  BY InitInvariant
<1>2. IInv /\ [Next]_vars => IInv'
  BY NextInvariant
<1>. QED BY <1>1, <1>2, PTL DEF Spec

(* Every field of tiny_nmea_ctx_t keeps its type, and every byte in the     *)
(* ring, in the working buffer or in a sentence is one that was fed.        *)
THEOREM WorkTypes == Spec => []TypeOK
<1>1. IInv => TypeOK
  BY DEF IInv
<1>. QED BY <1>1, WorkInvariant, PTL

(* parse_pos, data_end and line_end stay inside the bytes of the working    *)
(* buffer, whatever arrives and however it is cut: no subtraction of        *)
(* tiny_nmea_work wraps and no kept pointer dangles.                        *)
THEOREM WorkIndices == Spec => []IndicesInBuffer
<1>1. IInv => IndicesInBuffer
  BY DEF IInv
<1>. QED BY <1>1, WorkInvariant, PTL

(* A completed sentence is made of bytes accepted one after the other, past *)
(* those of the sentences before it.                                        *)
THEOREM WorkInOrder == Spec => []CompletedInOrder
<1>1. IInv => CompletedInOrder
  BY DEF IInv
<1>. QED BY <1>1, WorkInvariant, PTL

(* Only sentences reach tiny_nmea_parse: a start, a valid header, no line   *)
(* end inside, and two digits that are the checksum if there is an asterisk.*)
THEOREM WorkSentences == Spec => []CompletedAreSentences
<1>1. IInv => CompletedAreSentences
  BY DEF IInv
<1>. QED BY <1>1, WorkInvariant, PTL

(* parse_post_process completes an RMC with the century of the last dated   *)
(* ZDA since tiny_nmea_init, and with 0 when there was none.                *)
THEOREM WorkCentury == Spec => []CenturyIsLastZda
<1>1. IInv => CenturyIsLastZda
  BY DEF IInv
<1>. QED BY <1>1, WorkInvariant, PTL
=============================================================================
