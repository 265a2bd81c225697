-------------------------- MODULE CharacterClass ----------------------------
(***************************************************************************)
(* Operators that match one character: CharacterClass, Character and       *)
(* AnyCharacter, the classes that escapes and POSIX names stand for, and   *)
(* the byte loop that a repetition of an ASCII class becomes.  tolower and *)
(* toupper are those of the C locale.                                      *)
(***************************************************************************)
EXTENDS Utf8

Fail == -1
Inf  == -1

tolower(c) == IF c \in 65 .. 90 THEN c + 32 ELSE c
toupper(c) == IF c \in 97 .. 122 THEN c - 32 ELSE c

\* A class, of a set of ranges <<first, last>>.
Class(ranges, negated, ignore_case) ==
  [ranges |-> ranges, negated |-> negated, ignore_case |-> ignore_case]

Hyphen == 45

\* The ranges that a class's text is read as: x-y is a range, another hyphen
\* a character.
RangesOf(chars) ==
  LET read[k \in 1 .. Len(chars) + 1] ==
        IF k > Len(chars) THEN {}
        ELSE IF k + 2 <= Len(chars) /\ chars[k + 1] = Hyphen
             THEN {<<chars[k], chars[k + 2]>>} \cup read[k + 3]
             ELSE {<<chars[k], chars[k]>>} \cup read[k + 1]
  IN read[1]

cls(text, negated, ignore_case) == Class(RangesOf(decode(text)), negated, ignore_case)

in_range(range, ignore_case, cp) ==
  IF ignore_case THEN tolower(range[1]) <= tolower(cp) /\ tolower(cp) <= tolower(range[2])
  ELSE cp \in range[1] .. range[2]

\* The parse_core of the three operators, on the text that is left.
ClassMatch(class, s) ==
  LET d == decode_codepoint(s)
      hit == \E range \in class.ranges : in_range(range, class.ignore_case, d.cp)
  IN IF s # <<>> /\ hit # class.negated THEN d.bytes ELSE Fail

CharacterMatch(ch, s) ==
  IF s # <<>> /\ decode_codepoint(s).cp = ch THEN decode_codepoint(s).bytes ELSE Fail

AnyMatch(s) == IF codepoint_length(s) < 1 THEN Fail ELSE codepoint_length(s)

----------------------------------------------------------------------------
\* Where a class matches ASCII characters only, the bytes that it matches.
is_ascii_only(class) ==
  /\ ~class.negated
  /\ \A range \in class.ranges : range[1] < 128 /\ range[2] < 128

BytesOf(class) == UNION {range[1] .. range[2] : range \in class.ranges}
ascii_bitsetLower(class) ==
  BytesOf(class) \cup (IF class.ignore_case THEN {tolower(c) : c \in BytesOf(class)} ELSE {})
ascii_bitset(class) ==
  BytesOf(class) \cup (IF class.ignore_case
                      THEN UNION {{toupper(c), tolower(c)} : c \in BytesOf(class)} ELSE {})

\* A repetition with a span_bitset_: a loop over bytes.
Span(class, min, max, s) ==
  LET limit == IF max = Inf \/ max > Len(s) THEN Len(s) ELSE max
      ends == {i \in 0 .. limit : \A j \in 0 .. i - 1 : Unit(s, j) \in ascii_bitset(class)}
      i == CHOOSE i \in ends : \A j \in ends : j <= i
  IN IF i < min THEN Fail ELSE i

----------------------------------------------------------------------------
predefined_character_class ==
  [alnum  |-> << <<48, 57>>, <<65, 90>>, <<97, 122>> >>,
   alpha  |-> << <<65, 90>>, <<97, 122>> >>,
   ascii  |-> << <<0, 127>> >>,
   blank  |-> << <<9, 9>>, <<32, 32>> >>,
   cntrl  |-> << <<0, 31>>, <<127, 127>> >>,
   digit  |-> << <<48, 57>> >>,
   graph  |-> << <<33, 126>> >>,
   lower  |-> << <<97, 122>> >>,
   print  |-> << <<32, 126>> >>,
   punct  |-> << <<33, 47>>, <<58, 64>>, <<91, 96>>, <<123, 126>> >>,
   space  |-> << <<9, 13>>, <<32, 32>> >>,
   upper  |-> << <<65, 90>> >>,
   word   |-> << <<48, 57>>, <<65, 90>>, <<95, 95>>, <<97, 122>> >>,
   xdigit |-> << <<48, 57>>, <<65, 70>>, <<97, 102>> >>]

\* Of ranges in order that do not overlap.
complement_before(ranges) ==
  {<<0, ranges[1][1] - 1>>} \cup {<<ranges[k][2] + 1, ranges[k + 1][1] - 1>> : k \in 1 .. Len(ranges) - 1}
complement_character_ranges(ranges) ==
  LET lo(k) == IF k = 1 THEN 0 ELSE ranges[k - 1][2] + 1
      hi(k) == IF k > Len(ranges) THEN LastCodePoint ELSE ranges[k][1] - 1
  IN {<<lo(k), hi(k)>> : k \in {k \in 1 .. Len(ranges) + 1 : lo(k) <= hi(k)}}

\* \d \D \s \S \w \W, and [:name:] and [:^name:]
ClassEscape(ch) ==
  LET name == CASE ch \in {"d", "D"} -> "digit" [] ch \in {"s", "S"} -> "space" [] OTHER -> "word"
      ranges == predefined_character_class[name]
  IN IF ch \in {"D", "S", "W"} THEN complement_character_ranges(ranges) ELSE ToSet(ranges)

PosixClass(name, negated) ==
  IF negated THEN complement_character_ranges(predefined_character_class[name])
  ELSE ToSet(predefined_character_class[name])
=============================================================================
