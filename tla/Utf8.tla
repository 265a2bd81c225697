-------------------------------- MODULE Utf8 --------------------------------
(***************************************************************************)
(* The UTF-8 functions of peglib.h and what is built on them: the escapes  *)
(* of a literal and the line and column of a position.  A byte is a number *)
(* of 0 .. 255, a text a sequence of bytes, a code point a number.         *)
(***************************************************************************)
EXTENDS Integers, Sequences, FiniteSets, SequencesExt

From(s, i)   == SubSeq(s, i + 1, Len(s))        \* s + i
Unit(s, i)   == s[i + 1]                        \* s[i]

----------------------------------------------------------------------------
\* The length a first byte announces; a continuation byte and 0xF8 .. 0xFF
\* announce none.
AnnouncedLate(b) ==
  IF b < 128 THEN 1 ELSE IF b \in 192 .. 223 THEN 2 ELSE IF b \in 224 .. 240 THEN 3
  ELSE IF b \in 241 .. 247 THEN 4 ELSE 0
Announced(b) ==
  IF b < 128 THEN 1 ELSE IF b \in 192 .. 223 THEN 2 ELSE IF b \in 224 .. 239 THEN 3
  ELSE IF b \in 240 .. 247 THEN 4 ELSE 0

codepoint_length(s) ==
  IF s # <<>> /\ Announced(Head(s)) <= Len(s) THEN Announced(Head(s)) ELSE 0

\* The payload of the first byte, then six bits of each byte that follows,
\* which is not checked to be a continuation byte.
decode_codepoint(s) ==
  LET n == codepoint_length(s)
      tail(k) == s[k] % 64
  IN [bytes |-> n,
      cp |-> IF n = 1 THEN s[1]
             ELSE IF n = 2 THEN (s[1] % 32) * 64 + tail(2)
             ELSE IF n = 3 THEN (s[1] % 16) * 4096 + tail(2) * 64 + tail(3)
             ELSE IF n = 4 THEN (s[1] % 8) * 262144 + tail(2) * 4096 + tail(3) * 64 + tail(4)
             ELSE 0]

Surrogates == 55296 .. 57343
LastCodePoint == 17 * 65536 - 1          \* 0x10FFFF

\* Nothing for a surrogate and beyond the last code point.
encode_codepoint(cp) ==
  LET tail(k) == 128 + ((cp \div k) % 64) IN
  IF cp < 128 THEN <<cp>>
  ELSE IF cp < 2048 THEN <<192 + (cp \div 64), tail(1)>>
  ELSE IF cp \in Surrogates \/ cp > LastCodePoint THEN <<>>
  ELSE IF cp < 65536 THEN <<224 + (cp \div 4096), tail(64), tail(1)>>
  ELSE <<240 + (cp \div 262144), tail(4096), tail(64), tail(1)>>

\* A text is cut before every byte that is not a continuation byte.
decode(s) ==
  LET ends(i) == {k \in i + 1 .. Len(s) : k = Len(s) \/ s[k + 1] \notin 128 .. 191}
      end(i) == CHOOSE k \in ends(i) : \A l \in ends(i) : k <= l
      read[i \in 0 .. Len(s)] ==
        IF i = Len(s) THEN <<>>
        ELSE <<decode_codepoint(SubSeq(s, i + 1, end(i))).cp>> \o read[end(i)]
  IN read[0]

\* A byte that starts no code point counts as one.
codepoint_count(s) ==
  LET len(i) == codepoint_length(From(s, i))
      count[i \in 0 .. Len(s)] ==
        IF i = Len(s) THEN 0 ELSE 1 + count[i + (IF len(i) = 0 THEN 1 ELSE len(i))]
  IN count[0]

NewLine == 10

\* The line and the column of the position cur of a text.
line_info(s, cur) ==
  LET breaks == {i \in 0 .. cur - 1 : Unit(s, i) = NewLine}
      col_ptr == IF breaks = {} THEN 0 ELSE 1 + CHOOSE i \in breaks : \A j \in breaks : j <= i
  IN <<1 + Cardinality(breaks), 1 + codepoint_count(SubSeq(s, col_ptr + 1, cur))>>

\* Context::line_info, whose column counts bytes.  hint: the line, from 0, of
\* the answer before.
source_line_index(s) == SelectSeq([i \in DOMAIN s |-> i - 1], LAMBDA i : Unit(s, i) = NewLine) \o <<Len(s)>>
HoldsFrom(index, id, pos) ==
  id < Len(index) /\ pos <= Unit(index, id) /\ (id = 0 \/ pos >= Unit(index, id - 1))
Holds(index, id, pos) ==
  id < Len(index) /\ pos <= Unit(index, id) /\ (id = 0 \/ pos > Unit(index, id - 1))
context_line_info(s, pos, hint) ==
  LET index == source_line_index(s)
      later == {i \in 0 .. Len(index) - 1 : Unit(index, i) >= pos}
      id == IF Holds(index, hint, pos) THEN hint ELSE CHOOSE i \in later : \A j \in later : i <= j
  IN <<id + 1, 1 + pos - (IF id = 0 THEN 0 ELSE Unit(index, id - 1) + 1)>>

----------------------------------------------------------------------------
(* resolve_escape_sequence.  Named holds the escapes of one character that *)
(* stand for another; the rest of them stand for themselves.               *)
Backslash == 92
Named(c) ==
  CASE c = 102 -> 12 [] c = 110 -> 10 [] c = 114 -> 13 [] c = 116 -> 9 [] c = 118 -> 11
    [] c \in {39, 34, 91, 93, 94, 45, Backslash} -> c
    [] OTHER -> -1

is_digit(c) == c \in 48 .. 57
is_hex(c)   == is_digit(c) \/ c \in 65 .. 70 \cup 97 .. 102
DigitOff(c) == IF is_digit(c) THEN c - 48 ELSE (c % 32) + 10
Digit(c)    == IF is_digit(c) THEN c - 48 ELSE (c % 32) + 9

\* The number written at i, of all the digits there are: an octal number
\* takes 8 and 9 for digits, too.
parse_number(s, i, base, Is(_)) ==
  LET ends == {k \in i .. Len(s) : \A j \in i .. k - 1 : Is(Unit(s, j))}
      end == CHOOSE k \in ends : \A l \in ends : l <= k
  IN [cp |-> FoldLeft(LAMBDA n, c : n * base + Digit(c), 0, SubSeq(s, i + 1, end)), i |-> end]

\* What is read at i: the bytes it stands for, and where the next starts.
EscapeAt(s, i) ==
  LET c == Unit(s, i)
      coded(n) == [text |-> encode_codepoint(n.cp), i |-> n.i]
      e == Unit(s, i + 1)
  IN IF c # Backslash THEN [text |-> <<c>>, i |-> i + 1]
     ELSE CASE Named(e) # -1     -> [text |-> <<Named(e)>>, i |-> i + 2]
            [] e \in {120, 117}  -> coded(parse_number(s, i + 2, 16, is_hex))
            [] OTHER             -> coded(parse_number(s, i + 1, 8, is_digit))

resolve_escape_sequence(s) ==
  LET resolved[i \in 0 .. Len(s)] ==
        IF i = Len(s) THEN <<>> ELSE LET e == EscapeAt(s, i) IN e.text \o resolved[e.i]
  IN resolved[0]
=============================================================================
