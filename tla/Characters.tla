----------------------------- MODULE Characters ------------------------------
(***************************************************************************)
(* What is relied on of the operators of CharacterClass: that a character  *)
(* is read as it was written, that a complemented class is a negated one,  *)
(* and that the byte loop of a repetition is the loop it replaces, which   *)
(* is run here step by step.  A behaviour is about one sample.             *)
(***************************************************************************)
EXTENDS CharacterClass

CONSTANTS Scalars,      \* code points
          Behind,       \* texts that may stand behind one
          Repetitions   \* [kind, class, min, max, s]: a class repeated over a text

VARIABLES sample,
          loop          \* of Repetition::parse_core, without a span_bitset_

Byte == 0 .. 255
IsCodePoint(cp) == cp \in 0 .. LastCodePoint /\ cp \notin Surrogates

ASSUME ScalarsAssumption == \A cp \in Scalars : IsCodePoint(cp)
ASSUME BehindAssumption == \A rest \in Behind : rest \in Seq(Byte)
ASSUME RepetitionsAssumption ==
  \A r \in Repetitions :
    /\ r = [kind |-> "span", class |-> Class(r.class.ranges, r.class.negated, r.class.ignore_case),
            min |-> r.min, max |-> r.max, s |-> r.s]
    /\ \A range \in r.class.ranges : range[1] \in Nat /\ range[2] \in Nat
    /\ r.class.negated \in BOOLEAN /\ r.class.ignore_case \in BOOLEAN
    /\ r.min \in Nat /\ r.max \in Nat \cup {Inf} /\ r.s \in Seq(Byte)

CharacterSamples == [kind : {"character"}, cp : Scalars, rest : Behind]
ClassNames == DOMAIN predefined_character_class
ClassSamples == [kind : {"named"}, name : ClassNames, cp : Scalars]
Samples == CharacterSamples \cup ClassSamples \cup Repetitions

----------------------------------------------------------------------------
(* The loop applies the operator over and over, as often as it must and    *)
(* then as often as it may.                                                *)
Running == -2
Looping == sample.kind = "span" /\ loop.result = Running
Enough  == loop.count >= sample.min
AtMax   == Enough /\ sample.max # Inf /\ loop.count >= sample.max
Parsed  == ClassMatch(sample.class, From(sample.s, loop.i))

RepetitionStart == loop = [count |-> 0, i |-> 0, result |-> Running]

RepetitionGoesOn ==
  /\ Looping /\ ~AtMax /\ Parsed # Fail
  /\ loop' = [loop EXCEPT !.count = @ + 1, !.i = @ + Parsed]

RepetitionEnds ==
  /\ Looping /\ (AtMax \/ Parsed = Fail)
  /\ loop' = [loop EXCEPT !.result = IF Enough THEN loop.i ELSE Fail]

Init == sample \in Samples /\ RepetitionStart
Idle == ~Looping /\ UNCHANGED loop
Next == (RepetitionGoesOn \/ RepetitionEnds \/ Idle) /\ UNCHANGED sample
Spec == Init /\ [][Next]_<<sample, loop>>

----------------------------------------------------------------------------
(* A code point is read as it was written, whatever bytes follow: decoding,*)
(* '.' and a character agree on where it ends, and no other character      *)
(* matches there.                                                          *)
CodePointsAreRead ==
  sample.kind = "character" =>
    LET s == encode_codepoint(sample.cp) \o sample.rest
        n == Len(encode_codepoint(sample.cp))
    IN /\ decode_codepoint(s) = [bytes |-> n, cp |-> sample.cp]
       /\ AnyMatch(s) = n
       /\ \A cp \in Scalars : CharacterMatch(cp, s) = IF cp = sample.cp THEN n ELSE Fail

(* A complemented name in a class, [\D] or [:^digit:], matches what the    *)
(* class without it negates, [^\d]: the complement leaves out no code point*)
(* and keeps none, and all of the character is consumed.                   *)
ComplementIsNegation ==
  sample.kind = "named" =>
    LET s == encode_codepoint(sample.cp)
        negated == Class(PosixClass(sample.name, FALSE), TRUE, FALSE)
        complement == Class(PosixClass(sample.name, TRUE), FALSE, FALSE)
    IN /\ ClassMatch(complement, s) = ClassMatch(negated, s)
       /\ ClassMatch(negated, s) \in {Fail, Len(s)}

\* UTF-8: a byte that continues nothing starts the encoding of a code point.
Continues(b) == b \in 128 .. 191
IsUtf8(s) ==
  \A k \in DOMAIN s :
    IF Continues(s[k]) THEN \E j \in 1 .. k - 1 : ~Continues(s[j]) /\ k < j + Announced(s[j])
    ELSE LET n == Announced(s[k])
         IN k + n - 1 <= Len(s) /\ encode_codepoint(decode_codepoint(From(s, k - 1)).cp) = SubSeq(s, k, k + n - 1)

\* A class that ignores case has ranges of letters of one case, or of none,
\* their first and last included where the first is behind the last.
Upper == 65 .. 90
Lowercase == 97 .. 122
OneCase(class) ==
  class.ignore_case =>
    \A range \in class.ranges :
      LET chars == {range[1], range[2]} \cup range[1] .. range[2]
      IN chars \subseteq Upper \/ chars \subseteq Lowercase \/ chars \cap (Upper \cup Lowercase) = {}

(* The byte loop that takes the place of a repetition of an ASCII class    *)
(* consumes, of a text in UTF-8, what the repetition does, and fails where *)
(* it does.                                                                *)
SpanIsRepetition ==
  /\ sample.kind = "span" /\ loop.result # Running
  /\ is_ascii_only(sample.class) /\ OneCase(sample.class) /\ IsUtf8(sample.s)
  /\ sample.max = Inf \/ sample.min <= sample.max
  => loop.result = Span(sample.class, sample.min, sample.max, sample.s)
=============================================================================
