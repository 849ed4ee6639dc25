------------------------------ MODULE CallKeys -------------------------------
(* How call looks for remote commands at the beginnings of lines in what it *)
(* receives (searche_key_words in call.c).  A character is a string; "CR",  *)
(* "LF" and "SUB" end a line.                                               *)
EXTENDS Integers, Sequences, SequencesExt, FiniteSetsExt

CONSTANTS
  key_words,       \* sequence of commands; <<>> with -R
  MAX_CMPSTRLEN    \* what is held back of a line without its end

eol(c) == c \in {"CR", "LF", "SUB"}

\* compstr: 0, -2 when s ends within the key word, or -1.
Matches(k, s) == IsPrefix(key_words[k], s)
Begins(k, s) == IsStrictPrefix(s, key_words[k])

\* The state of the search between two packets: the line held back, and the
\* command it starts with, 0 when its key word has not come to its end.
NoLine == [held |-> <<>>, command |-> 0]

LineEnd(buf, i) == Min({j \in i..Len(buf) : eol(buf[j]) \/ j = Len(buf)})
Lines(buf) == {1} \cup {j + 1 : j \in {i \in 1..Len(buf) - 1 : eol(buf[i])}}
Commands(buf, i) ==
  {k \in DOMAIN key_words : LET s == SubSeq(buf, i, Len(buf)) IN Matches(k, s) \/ Begins(k, s)}
Found(buf) == {i \in Lines(buf) : Commands(buf, i) # {}}

AllText(buf) == [com |-> 0, text |-> buf, parms |-> <<>>, rest |-> <<>>, line |-> NoLine]
\* The line from i on waits for its end; one that is too long is text.
Hold(buf, i, command) ==
  IF Len(buf) - i + 1 >= MAX_CMPSTRLEN THEN AllText(buf)
  ELSE [com |-> 0, text |-> SubSeq(buf, 1, i - 1), parms |-> <<>>, rest |-> <<>>,
        line |-> [held |-> SubSeq(buf, i, Len(buf)), command |-> command]]
\* Mutant: the line behind the key word is taken from the packet's beginning.
TakeFirst(buf, i, command, cnt) ==
  [com |-> command, text |-> SubSeq(buf, 1, i - 1), rest |-> SubSeq(buf, cnt, Len(buf)),
   parms |-> SubSeq(buf, 1 + Len(key_words[command]), cnt - 1), line |-> NoLine]
\* A command whose line goes up to cnt; the rest follows.
Command(buf, i, command, cnt) ==
  [com |-> command, text |-> SubSeq(buf, 1, i - 1), rest |-> SubSeq(buf, cnt, Len(buf)),
   parms |-> SubSeq(buf, i + Len(key_words[command]), cnt - 1), line |-> NoLine]

\* cnt is behind the end of the line, at its end when nothing follows; a line
\* that was held is taken without its end.
Scan(buf) ==
  LET i == Min(Found(buf))
      k == Min(Commands(buf, i))
      e == LineEnd(buf, i)
      cnt == IF e < Len(buf) THEN e + 1 ELSE e
  IN IF Found(buf) = {} THEN AllText(buf)
     ELSE IF Begins(k, SubSeq(buf, i, Len(buf))) THEN Hold(buf, i, 0)
     ELSE IF cnt = Len(buf) /\ ~eol(buf[cnt]) THEN Hold(buf, i, k)
     ELSE Command(buf, i, k, cnt)

searche_key_words(line, packet) ==
  LET buf == line.held \o packet
      e == LineEnd(buf, 1)
  IN IF line.held # <<>> /\ ~eol(buf[e]) THEN AllText(buf)
     ELSE IF line.command # 0 THEN Command(buf, 1, line.command, e)
     ELSE Scan(buf)
=============================================================================
