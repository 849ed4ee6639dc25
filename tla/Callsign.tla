------------------------------ MODULE Callsign ------------------------------
(***************************************************************************)
(* The conversions of callsigns, paths and ROSE addresses: axutils.c, and  *)
(* the pair that ax25ipd has of its own.  A text is a sequence of symbols, *)
(* an address [base, ssid], with the base as long as it is written.        *)
(***************************************************************************)
EXTENDS Integers, Sequences, FiniteSets, FiniteSetsExt, SequencesExt

CONSTANTS
  Symbols,      \* symbols of a text: strings
  Digit,        \* [the digits among them -> 0..9]
  Letters,      \* the letters among them, "V" included
  CallLen,      \* 6
  AX25_MAX_DIGIS,
  MaxText       \* bound: symbols of a text

Blank == " "
Via == <<"V">>  \* "V" or "VIA"
Digits == DOMAIN Digit
Alnum == Letters \cup Digits
Refused == <<>>      \* an address that is accepted is <<address>>

VARIABLE text
vars == text

Init == text = <<>>
Type(c) == Len(text) < MaxText /\ text' = Append(text, c)
Next == \E c \in Symbols : Type(c)

-----------------------------------------------------------------------------
Behind(s, n) == SubSeq(s, n + 1, Len(s))
\* The length of the part of s in front of the first symbol of set.
Span(s, set) == Min({i - 1 : i \in {j \in DOMAIN s : s[j] \in set}} \cup {Len(s)})

\* What "%d" and atoi make of s: <<>> without a number.
Number(s) ==
  LET t == Behind(s, Span(s, Symbols \ {Blank}))
      minus == t # <<>> /\ t[1] = "-"
      digits == Behind(t, IF minus THEN 1 ELSE 0)
      n == Span(digits, Symbols \ Digits)
      value == FoldLeft(LAMBDA v, d : 10 * v + Digit[d], 0, SubSeq(digits, 1, n))
  IN IF n = 0 THEN <<>> ELSE <<IF minus THEN 0 - value ELSE value>>

\* Mutant: the SSID may be 16.
SsidOkWide(n) == n \in 0..16
SsidOk(n) == n \in 0..15

\* What is neither a letter nor a digit ends the program of a callsign; behind
\* the last place any symbol passes for the "-".
ax25_aton_entry(s) ==
  LET n == Min({CallLen, Span(s, {"-"})})
      ssid == Number(Behind(s, n + 1))
  IN IF \E i \in 1..n : s[i] \notin Alnum THEN Refused
     ELSE IF Len(s) = n THEN <<[base |-> s, ssid |-> 0]>>
     ELSE IF ssid = <<>> \/ ~SsidOk(ssid[1]) THEN Refused
     ELSE <<[base |-> SubSeq(s, 1, n), ssid |-> ssid[1] % 16]>>

\* The digit of value n.
Figure(n) == CHOOSE d \in Digits : Digit[d] = n
ax25_ntoa(a) ==
  a.base \o (IF a.ssid = 0 THEN <<>>
             ELSE <<"-">> \o (IF a.ssid > 9 THEN <<Figure(1), Figure(a.ssid - 10)>> ELSE <<Figure(a.ssid)>>))

ax25_cmp(a, b) == IF a.base # b.base THEN 1 ELSE IF a.ssid # b.ssid THEN 2 ELSE 0

\* ax25ipd: no symbol is refused, and an SSID that is no number is 0.
a_to_call(s) ==
  LET n == Span(s, {"-"})
      ssid == IF Number(Behind(s, n + 1)) = <<>> THEN 0 ELSE Number(Behind(s, n + 1))[1]
  IN IF s = <<>> \/ n > CallLen \/ ~SsidOk(ssid) THEN Refused
     ELSE <<[base |-> SubSeq(s, 1, n), ssid |-> ssid]>>
call_to_a(a) == ax25_ntoa([a EXCEPT !.base = SubSeq(@, 1, Span(@, {Blank}))])

-----------------------------------------------------------------------------
\* One word of a path; r: [addrs, end], end: what ax25_aton returns.
Word(r, w) ==
  IF r.end \/ Len(r.addrs) > AX25_MAX_DIGIS \/ (Len(r.addrs) = 1 /\ w = Via) THEN r
  ELSE IF ax25_aton_entry(w) = Refused THEN [addrs |-> Refused, end |-> TRUE]
  ELSE [r EXCEPT !.addrs = @ \o ax25_aton_entry(w)]
ax25_aton_arglist(call) == FoldLeft(Word, [addrs |-> <<>>, end |-> FALSE], call).addrs

\* ax25_aton cuts its text into words: blanks are skipped in front of one, and
\* one blank behind it.
Cut(s) ==
  LET from == Span(s, Symbols \ {Blank})
      word == SubSeq(Behind(s, from), 1, Span(Behind(s, from), {Blank}))
  IN [word |-> word, rest |-> Behind(s, from + Len(word) + 1)]
Words(s) ==
  LET after[i \in 0..(Len(s) + 1)] ==
        IF i = 0 THEN {[words |-> <<>>, rest |-> s, end |-> FALSE]}
        ELSE UNION {IF r.end THEN {r}
                    ELSE {[words |-> Append(r.words, c.word), rest |-> c.rest, end |-> c.rest = <<>>] : c \in {Cut(r.rest)}}
                    : r \in after[i - 1]}
  IN (CHOOSE r \in after[Len(s) + 1] : TRUE).words
ax25_aton(s) == ax25_aton_arglist(Words(s))

\* ROSE: ten figures, here CallLen, in pairs.
rose_aton(s) == IF Len(s) # CallLen \/ ToSet(s) \cap Digits # ToSet(s) THEN Refused
                ELSE [i \in 1..(CallLen \div 2) |-> 16 * Digit[s[2 * i - 1]] + Digit[s[2 * i]]]
rose_ntoa(a) == [i \in 1..(2 * Len(a)) |-> Figure(IF i % 2 = 1 THEN a[(i + 1) \div 2] \div 16 ELSE a[i \div 2] % 16)]

-----------------------------------------------------------------------------
\* How the manual writes a callsign: up to six letters and figures, and an SSID.
Plain(s) ==
  LET n == Span(s, {"-"})
  IN /\ n \in 1..CallLen /\ \A i \in 1..n : s[i] \in Alnum
     /\ Len(s) # n => /\ Len(s) - n \in 2..3 /\ \A i \in (n + 2)..Len(s) : s[i] \in Digits
                      /\ Number(Behind(s, n + 1))[1] \in 0..15

\* axutils.c:20, config.c:430: each callsign has one address, for ax25ipd as for
\* the others; an address reads back from its text, and the SSID of what is
\* accepted is the number written, also where more follows.
CallsAgree ==
  /\ Plain(text) => ax25_aton_entry(text) = a_to_call(text) /\ ax25_aton_entry(text) # Refused
  /\ ax25_aton_entry(text) # Refused =>
       LET a == ax25_aton_entry(text)[1]
       IN /\ ax25_cmp(a, ax25_aton_entry(ax25_ntoa(a))[1]) = 0 /\ call_to_a(a) = ax25_ntoa(a)
          /\ text = a.base \/ Number(Behind(text, Len(a.base) + 1)) = <<a.ssid>>
  /\ rose_aton(text) # Refused => rose_ntoa(rose_aton(text)) = text

\* axutils.c:63: a path reads the same from one text as from its words, unless
\* the text ends in two blanks or has nothing else: that makes a digipeater, or
\* a station, without a name.
Runs(s) == LET starts == {i \in DOMAIN s : s[i] # Blank /\ (i = 1 \/ s[Max({1, i - 1})] = Blank)}
           IN [k \in 1..Cardinality(starts) |->
                 LET i == CHOOSE j \in starts : Cardinality({h \in starts : h <= j}) = k
                 IN SubSeq(Behind(s, i - 1), 1, Span(Behind(s, i - 1), {Blank}))]
Nameless(s) == Len(Runs(s)) = 0 \/ (Len(s) > 1 /\ s[Len(s)] = Blank /\ s[Max({1, Len(s) - 1})] = Blank)
PathsAgree ==
  ax25_aton(text) = ax25_aton_arglist(IF Nameless(text) THEN Append(Runs(text), <<>>) ELSE Runs(text))
=============================================================================
