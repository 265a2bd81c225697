--------------------------- MODULE CharacterProofs ---------------------------
(***************************************************************************)
(* Proofs of what Characters states, for every code point, every text and  *)
(* every class.                                                            *)
(***************************************************************************)
EXTENDS Characters, SequenceTheorems, WellFoundedInduction, TLAPS

----------------------------------------------------------------------------
(* Six bits at a time.                                                     *)

(* A number is its last six bits and the rest.                             *)
LEMMA SixBits == \A c \in Nat : \E h \in Nat, z \in 0 .. 63 : c = h * 64 + z
<1> SUFFICES ASSUME NEW c \in Nat PROVE \E h \in Nat, z \in 0 .. 63 : c = h * 64 + z
  OBVIOUS
<1>1. c \div 64 \in Nat /\ c % 64 \in 0 .. 63 /\ c = (c \div 64) * 64 + (c % 64)
  OBVIOUS
<1> QED BY <1>1

(* A byte whose high bits are a mark and whose low bits are x.             *)
LEMMA Marked ==
  /\ \A x \in 0 .. 63 : 128 + x \in 128 .. 191 /\ (128 + x) % 64 = x
  /\ \A x \in 0 .. 31 : 192 + x \in 192 .. 223 /\ (192 + x) % 32 = x
  /\ \A x \in 0 .. 15 : 224 + x \in 224 .. 239 /\ (224 + x) % 16 = x
  /\ \A x \in 0 .. 7 : 240 + x \in 240 .. 247 /\ (240 + x) % 8 = x
OBVIOUS

(* Its six-bit digits, and what dividing by 1, 64, 4096 and 262144 leaves. *)
LEMMA OfTwoDigits ==
  ASSUME NEW c \in Nat, c < 2048
  PROVE  LET p == c \div 64  r == (c \div 1) % 64
         IN p \in 0 .. 31 /\ r \in 0 .. 63 /\ c = p * 64 + r
<1>1. PICK a \in Nat, z \in 0 .. 63 : c = a * 64 + z
  BY SixBits, SMT
<1>2. a \in 0 .. 31
  BY <1>1, SMT
<1>3. c \div 64 = a /\ c % 64 = z
  BY <1>1, SMT
<1>4. c \div 1 = c
  BY SMT
<1> DEFINE p == c \div 64  r == (c \div 1) % 64
<1>5. p = a /\ r = z
  BY <1>3, <1>4
<1> HIDE DEF p, r
<1>6. p \in 0 .. 31 /\ r \in 0 .. 63 /\ c = p * 64 + r
  BY <1>1, <1>2, <1>5, SMT
<1> QED BY <1>6 DEF p, r

(* The same of three digits.                                               *)
LEMMA OfThreeDigits ==
  ASSUME NEW c \in Nat, c < 65536
  PROVE  LET p == c \div 4096  q == (c \div 64) % 64  r == (c \div 1) % 64
         IN p \in 0 .. 15 /\ q \in 0 .. 63 /\ r \in 0 .. 63 /\ c = p * 4096 + q * 64 + r
<1>1. PICK h \in Nat, z \in 0 .. 63 : c = h * 64 + z
  BY SixBits, SMT
<1>2. PICK a \in Nat, b \in 0 .. 63 : h = a * 64 + b
  BY SixBits, SMT
<1>3. c = a * 4096 + b * 64 + z /\ a \in 0 .. 15
  BY <1>1, <1>2, SMT
<1>4. c \div 64 = h /\ c % 64 = z /\ h % 64 = b
  BY <1>1, <1>2, SMT
<1>5. c \div 4096 = a
  BY <1>1, <1>2, <1>3, SMT
<1>6. c \div 1 = c
  BY SMT
<1> DEFINE p == c \div 4096  q == (c \div 64) % 64  r == (c \div 1) % 64
<1>7. p = a /\ q = b /\ r = z
  BY <1>4, <1>5, <1>6, SMT
<1> HIDE DEF p, q, r
<1>8. p \in 0 .. 15 /\ q \in 0 .. 63 /\ r \in 0 .. 63 /\ c = p * 4096 + q * 64 + r
  BY <1>1, <1>2, <1>3, <1>7, SMT
<1> QED BY <1>8, SMT DEF p, q, r

(* The same of four digits.                                                *)
LEMMA OfFourDigits ==
  ASSUME NEW c \in Nat, c < 8 * 262144
  PROVE  LET o == c \div 262144  p == (c \div 4096) % 64  q == (c \div 64) % 64  r == (c \div 1) % 64
         IN /\ o \in 0 .. 7 /\ p \in 0 .. 63 /\ q \in 0 .. 63 /\ r \in 0 .. 63
            /\ c = o * 262144 + p * 4096 + q * 64 + r
<1>1. PICK g \in Nat, z \in 0 .. 63 : c = g * 64 + z
  BY SixBits, SMT
<1>2. PICK h \in Nat, d \in 0 .. 63 : g = h * 64 + d
  BY SixBits, SMT
<1>3. PICK a \in Nat, b \in 0 .. 63 : h = a * 64 + b
  BY SixBits, SMT
<1>4. c = a * 262144 + b * 4096 + d * 64 + z /\ a \in 0 .. 7
  BY <1>1, <1>2, <1>3, SMT
<1>5. c \div 64 = g /\ c % 64 = z /\ g % 64 = d /\ h % 64 = b
  BY <1>1, <1>2, <1>3, SMT
<1>6. c \div 262144 = a
  BY <1>1, <1>2, <1>3, <1>4, SMT
<1>7. c \div 4096 = h
  <2>1. c = h * 4096 + (d * 64 + z) /\ 0 <= d * 64 + z /\ d * 64 + z < 4096
    BY <1>1, <1>2, SMT
  <2> QED BY <1>1, <1>2, <2>1, SMT
<1>8. c \div 1 = c
  BY SMT
<1> DEFINE o == c \div 262144  p == (c \div 4096) % 64  q == (c \div 64) % 64  r == (c \div 1) % 64
<1>9. o = a /\ p = b /\ q = d /\ r = z
  BY <1>5, <1>6, <1>7, <1>8, SMT
<1> HIDE DEF o, p, q, r
<1>10. /\ o \in 0 .. 7 /\ p \in 0 .. 63 /\ q \in 0 .. 63 /\ r \in 0 .. 63
       /\ c = o * 262144 + p * 4096 + q * 64 + r
  BY <1>1, <1>2, <1>3, <1>4, <1>9, SMT
<1> QED BY <1>10, SMT DEF o, p, q, r

----------------------------------------------------------------------------
(* Encoding and decoding.                                                  *)

(* A short sequence is one.                                                *)
LEMMA ShortText ==
  /\ \A a \in Byte : <<a>> \in Seq(Byte) /\ Len(<<a>>) = 1
  /\ \A a, b \in Byte : <<a, b>> \in Seq(Byte) /\ Len(<<a, b>>) = 2
  /\ \A a, b, c \in Byte : <<a, b, c>> \in Seq(Byte) /\ Len(<<a, b, c>>) = 3
  /\ \A a, b, c, d \in Byte : <<a, b, c, d>> \in Seq(Byte) /\ Len(<<a, b, c, d>>) = 4
OBVIOUS

(* What stands first, whatever is behind.                                  *)
LEMMA InFront ==
  ASSUME NEW s \in Seq(Byte), s # <<>>, NEW rest \in Seq(Byte)
  PROVE  /\ s \o rest \in Seq(Byte) /\ s \o rest # <<>> /\ Len(s) <= Len(s \o rest)
         /\ \A k \in 1 .. Len(s) : (s \o rest)[k] = s[k]
         /\ Head(s \o rest) = s[1]
<1>1. /\ s \o rest \in Seq(Byte) /\ Len(s \o rest) = Len(s) + Len(rest) /\ Len(s) \in Nat /\ Len(rest) \in Nat
      /\ \A k \in 1 .. Len(s) : (s \o rest)[k] = s[k]
  BY ConcatProperties
<1>2. Len(s) > 0
  BY <1>1
<1> QED BY <1>1, <1>2

(* Text that has all the bytes its first one announces is read alone.      *)
LEMMA WhateverFollows ==
  ASSUME NEW e \in Seq(Byte), e # <<>>, Announced(e[1]) = Len(e), NEW rest \in Seq(Byte)
  PROVE  /\ e \o rest \in Seq(Byte) /\ e \o rest # <<>>
         /\ codepoint_length(e) = Len(e) /\ codepoint_length(e \o rest) = Len(e)
         /\ decode_codepoint(e \o rest) = decode_codepoint(e)
<1> DEFINE s == e \o rest
<1>1. /\ s \in Seq(Byte) /\ s # <<>> /\ Len(e) <= Len(s) /\ Head(s) = e[1]
      /\ \A k \in 1 .. Len(e) : s[k] = e[k]
  BY InFront
<1> HIDE DEF s
<1>2. Len(e) \in Nat /\ Head(e) = e[1]
  OBVIOUS
<1>3. codepoint_length(s) = Len(e) /\ codepoint_length(e) = Len(e)
  BY <1>1, <1>2 DEF codepoint_length
<1>4. /\ Len(e) >= 1 => s[1] = e[1]
      /\ Len(e) >= 2 => s[2] = e[2]
      /\ Len(e) >= 3 => s[3] = e[3]
      /\ Len(e) >= 4 => s[4] = e[4]
  BY <1>1, <1>2
<1>5. decode_codepoint(s) = decode_codepoint(e)
  <2>1. CASE Len(e) = 1
    BY <2>1, <1>3, <1>4 DEF decode_codepoint
  <2>2. CASE Len(e) = 2
    BY <2>2, <1>3, <1>4 DEF decode_codepoint
  <2>3. CASE Len(e) = 3
    BY <2>3, <1>3, <1>4 DEF decode_codepoint
  <2>4. CASE Len(e) = 4
    BY <2>4, <1>3, <1>4 DEF decode_codepoint
  <2>5. CASE Len(e) \notin 1 .. 4
    BY <2>5, <1>3 DEF decode_codepoint
  <2> QED BY <1>2, <2>1, <2>2, <2>3, <2>4, <2>5
<1> QED BY <1>1, <1>3, <1>5 DEF s

(* One byte.                                                               *)
LEMMA OneByte ==
  ASSUME NEW c \in Nat, c < 128
  PROVE  LET e == encode_codepoint(c) IN
         /\ e = <<c>> /\ e \in Seq(Byte) /\ Len(e) = 1 /\ Announced(e[1]) = 1
         /\ decode_codepoint(e) = [bytes |-> 1, cp |-> c]
<1> DEFINE e == <<c>>
<1>1. encode_codepoint(c) = e
  BY DEF encode_codepoint
<1>2. c \in Byte
  BY DEF Byte
<1>3. e \in Seq(Byte) /\ Len(e) = 1
  BY <1>2, ShortText
<1>4. e # <<>> /\ e[1] = c /\ Head(e) = c
  OBVIOUS
<1>5. Announced(e[1]) = 1 /\ Announced(Head(e)) = 1
  BY DEF Announced
<1> HIDE DEF e
<1>6. codepoint_length(e) = 1
  BY <1>3, <1>4, <1>5 DEF codepoint_length
<1>7. decode_codepoint(e) = [bytes |-> 1, cp |-> c]
  BY <1>4, <1>6 DEF decode_codepoint
<1> QED BY <1>1, <1>3, <1>5, <1>7 DEF e

(* Two bytes.                                                              *)
LEMMA TwoBytes ==
  ASSUME NEW c \in Nat, c >= 128, c < 2048
  PROVE  LET e == encode_codepoint(c) IN
         /\ e \in Seq(Byte) /\ Len(e) = 2 /\ Announced(e[1]) = 2
         /\ decode_codepoint(e) = [bytes |-> 2, cp |-> c]
<1> DEFINE a == c \div 64  z == (c \div 1) % 64  x == 192 + a  y == 128 + z  e == <<x, y>>
<1>1. a \in 0 .. 31 /\ z \in 0 .. 63 /\ c = a * 64 + z
  BY OfTwoDigits, SMT
<1>3. encode_codepoint(c) = e
  BY SMT DEF encode_codepoint
<1> HIDE DEF a, z
<1>4. x \in 192 .. 223 /\ y \in 128 .. 191 /\ x % 32 = a /\ y % 64 = z
  BY <1>1, Marked, SMT
<1> HIDE DEF x, y
<1>5. x \in Byte /\ y \in Byte
  BY <1>4 DEF Byte
<1>6. e \in Seq(Byte) /\ Len(e) = 2
  BY <1>5, ShortText
<1>7. e # <<>> /\ e[1] = x /\ Head(e) = x /\ e[2] = y
  OBVIOUS
<1>8. Announced(e[1]) = 2 /\ Announced(Head(e)) = 2
  BY <1>4, <1>7 DEF Announced
<1> HIDE DEF e
<1>9. codepoint_length(e) = 2
  BY <1>6, <1>7, <1>8 DEF codepoint_length
<1>10. decode_codepoint(e) = [bytes |-> 2, cp |-> c]
  BY <1>1, <1>4, <1>7, <1>9, SMT DEF decode_codepoint
<1> QED BY <1>3, <1>6, <1>8, <1>10

(* Three bytes.                                                            *)
LEMMA ThreeBytes ==
  ASSUME NEW c \in Nat, c >= 2048, c < 65536, c \notin Surrogates
  PROVE  LET e == encode_codepoint(c) IN
         /\ e \in Seq(Byte) /\ Len(e) = 3 /\ Announced(e[1]) = 3
         /\ decode_codepoint(e) = [bytes |-> 3, cp |-> c]
<1> DEFINE a == c \div 4096  b == (c \div 64) % 64  z == (c \div 1) % 64
           w == 224 + a  x == 128 + b  y == 128 + z  e == <<w, x, y>>
<1>1. a \in 0 .. 15 /\ b \in 0 .. 63 /\ z \in 0 .. 63 /\ c = a * 4096 + b * 64 + z
  BY OfThreeDigits, SMT
<1>3. encode_codepoint(c) = e
  <2>1. ~(c < 128) /\ ~(c < 2048) /\ c < 65536 /\ c \notin Surrogates /\ ~(c > LastCodePoint)
    BY SMT DEF LastCodePoint
  <2> QED BY <2>1, SMT DEF encode_codepoint
<1> HIDE DEF a, b, z
<1>4. /\ w \in 224 .. 239 /\ x \in 128 .. 191 /\ y \in 128 .. 191
      /\ w % 16 = a /\ x % 64 = b /\ y % 64 = z
  BY <1>1, Marked, SMT
<1> HIDE DEF w, x, y
<1>5. w \in Byte /\ x \in Byte /\ y \in Byte
  BY <1>4 DEF Byte
<1>6. e \in Seq(Byte) /\ Len(e) = 3
  BY <1>5, ShortText
<1>7. e # <<>> /\ e[1] = w /\ Head(e) = w /\ e[2] = x /\ e[3] = y
  OBVIOUS
<1>8. Announced(e[1]) = 3 /\ Announced(Head(e)) = 3
  BY <1>4, <1>7 DEF Announced
<1> HIDE DEF e
<1>9. codepoint_length(e) = 3
  BY <1>6, <1>7, <1>8 DEF codepoint_length
<1>10. decode_codepoint(e) = [bytes |-> 3, cp |-> c]
  BY <1>1, <1>4, <1>7, <1>9, SMT DEF decode_codepoint
<1> QED BY <1>3, <1>6, <1>8, <1>10

(* Four bytes.                                                             *)
LEMMA FourBytes ==
  ASSUME NEW c \in Nat, c >= 65536, c <= LastCodePoint, c \notin Surrogates
  PROVE  LET e == encode_codepoint(c) IN
         /\ e \in Seq(Byte) /\ Len(e) = 4 /\ Announced(e[1]) = 4
         /\ decode_codepoint(e) = [bytes |-> 4, cp |-> c]
<1> DEFINE a == c \div 262144  b == (c \div 4096) % 64  d == (c \div 64) % 64  z == (c \div 1) % 64
           v == 240 + a  w == 128 + b  x == 128 + d  y == 128 + z  e == <<v, w, x, y>>
<1>0. c < 8 * 262144
  BY SMT DEF LastCodePoint
<1>1. /\ a \in 0 .. 7 /\ b \in 0 .. 63 /\ d \in 0 .. 63 /\ z \in 0 .. 63
      /\ c = a * 262144 + b * 4096 + d * 64 + z
  BY <1>0, OfFourDigits, SMT
<1>3. encode_codepoint(c) = e
  <2>1. /\ ~(c < 128) /\ ~(c < 2048) /\ ~(c < 65536)
        /\ c \notin Surrogates /\ ~(c > LastCodePoint)
    BY SMT DEF LastCodePoint
  <2> QED BY <2>1, SMT DEF encode_codepoint
<1> HIDE DEF a, b, d, z
<1>4. /\ v \in 240 .. 247 /\ w \in 128 .. 191 /\ x \in 128 .. 191 /\ y \in 128 .. 191
      /\ v % 8 = a /\ w % 64 = b /\ x % 64 = d /\ y % 64 = z
  BY <1>1, Marked, SMT
<1> HIDE DEF v, w, x, y
<1>5. v \in Byte /\ w \in Byte /\ x \in Byte /\ y \in Byte
  BY <1>4 DEF Byte
<1>6. e \in Seq(Byte) /\ Len(e) = 4
  BY <1>5, ShortText
<1>7. e # <<>> /\ e[1] = v /\ Head(e) = v /\ e[2] = w /\ e[3] = x /\ e[4] = y
  OBVIOUS
<1>8. Announced(e[1]) = 4 /\ Announced(Head(e)) = 4
  BY <1>4, <1>7 DEF Announced
<1> HIDE DEF e
<1>9. codepoint_length(e) = 4
  BY <1>6, <1>7, <1>8 DEF codepoint_length
<1>10. decode_codepoint(e) = [bytes |-> 4, cp |-> c]
  BY <1>1, <1>4, <1>7, <1>9, SMT DEF decode_codepoint
<1> QED BY <1>3, <1>6, <1>8, <1>10

(* Every code point is encoded in bytes, and read from them.               *)
LEMMA Encoded ==
  ASSUME NEW c, IsCodePoint(c)
  PROVE  LET e == encode_codepoint(c) IN
         /\ e \in Seq(Byte) /\ e # <<>> /\ Announced(e[1]) = Len(e) /\ Len(e) \in 1 .. 4
         /\ decode_codepoint(e) = [bytes |-> Len(e), cp |-> c]
<1> DEFINE e == encode_codepoint(c)
<1>1. c \in Nat /\ c <= LastCodePoint /\ c \notin Surrogates
  <2>1. LastCodePoint \in Nat
    BY SMT DEF LastCodePoint
  <2> QED BY <2>1, SMT DEF IsCodePoint
<1>2. /\ e \in Seq(Byte) /\ Announced(e[1]) = Len(e) /\ Len(e) \in 1 .. 4
      /\ decode_codepoint(e) = [bytes |-> Len(e), cp |-> c]
  <2>1. CASE c < 128
    <3>1. e \in Seq(Byte) /\ Len(e) = 1 /\ Announced(e[1]) = 1
          /\ decode_codepoint(e) = [bytes |-> 1, cp |-> c]
      BY <1>1, <2>1, OneByte
    <3> QED BY <3>1
  <2>2. CASE c >= 128 /\ c < 2048
    <3>1. e \in Seq(Byte) /\ Len(e) = 2 /\ Announced(e[1]) = 2
          /\ decode_codepoint(e) = [bytes |-> 2, cp |-> c]
      BY <1>1, <2>2, TwoBytes
    <3> QED BY <3>1
  <2>3. CASE c >= 2048 /\ c < 65536
    <3>1. e \in Seq(Byte) /\ Len(e) = 3 /\ Announced(e[1]) = 3
          /\ decode_codepoint(e) = [bytes |-> 3, cp |-> c]
      BY <1>1, <2>3, ThreeBytes, SMT
    <3> QED BY <3>1
  <2>4. CASE c >= 65536
    <3>1. e \in Seq(Byte) /\ Len(e) = 4 /\ Announced(e[1]) = 4
          /\ decode_codepoint(e) = [bytes |-> 4, cp |-> c]
      BY <1>1, <2>4, FourBytes, SMT
    <3> QED BY <3>1
  <2> QED BY <1>1, <2>1, <2>2, <2>3, <2>4, SMT
<1> HIDE DEF e
<1>3. e # <<>>
  BY <1>2
<1> QED BY <1>2, <1>3 DEF e

----------------------------------------------------------------------------
(* A behaviour is about one sample.                                        *)
SampleStands == sample \in Samples

(* What a sample of each kind consists of.                                 *)
LEMMA SampleOf ==
  ASSUME sample \in Samples
  PROVE  /\ sample.kind = "character" => IsCodePoint(sample.cp) /\ sample.rest \in Seq(Byte)
         /\ sample.kind = "named" => IsCodePoint(sample.cp) /\ sample.name \in ClassNames
                                     /\ sample.cp \in Scalars
         /\ sample.kind = "span" => sample \in Repetitions
<1>1. CASE sample \in CharacterSamples
  BY <1>1, ScalarsAssumption, BehindAssumption DEF CharacterSamples
<1>2. CASE sample \in ClassSamples
  BY <1>2, ScalarsAssumption DEF ClassSamples
<1>3. CASE sample \in Repetitions
  <2>1. sample.kind = "span"
    BY <1>3, RepetitionsAssumption
  <2> QED BY <1>3, <2>1
<1> QED BY <1>1, <1>2, <1>3 DEF Samples

(* A code point is read as it was written, whatever follows.               *)
LEMMA ReadAsWritten ==
  ASSUME NEW cp, IsCodePoint(cp), NEW rest \in Seq(Byte)
  PROVE  LET s == encode_codepoint(cp) \o rest
             n == Len(encode_codepoint(cp))
         IN /\ s # <<>> /\ n >= 1 /\ n \in Nat
            /\ codepoint_length(s) = n
            /\ decode_codepoint(s) = [bytes |-> n, cp |-> cp]
<1> DEFINE e == encode_codepoint(cp)
<1>1. /\ e \in Seq(Byte) /\ e # <<>> /\ Announced(e[1]) = Len(e) /\ Len(e) \in 1 .. 4
      /\ decode_codepoint(e) = [bytes |-> Len(e), cp |-> cp]
  BY Encoded
<1> HIDE DEF e
<1>2. e \o rest # <<>> /\ codepoint_length(e \o rest) = Len(e) /\ decode_codepoint(e \o rest) = decode_codepoint(e)
  BY <1>1, WhateverFollows
<1>3. Len(e) >= 1 /\ Len(e) \in Nat
  BY <1>1
<1> QED BY <1>1, <1>2, <1>3 DEF e

(* Any code point is read as it was written, whatever bytes follow it, and *)
(* '.' and a character operator agree with that.                           *)
LEMMA ReadsSample == SampleStands => CodePointsAreRead
<1> SUFFICES ASSUME SampleStands, sample.kind = "character" PROVE CodePointsAreRead
  BY DEF CodePointsAreRead
<1> DEFINE s == encode_codepoint(sample.cp) \o sample.rest
           n == Len(encode_codepoint(sample.cp))
<1>1. IsCodePoint(sample.cp) /\ sample.rest \in Seq(Byte)
  BY SampleOf DEF SampleStands
<1>2. /\ s # <<>> /\ n >= 1 /\ n \in Nat
      /\ codepoint_length(s) = n
      /\ decode_codepoint(s) = [bytes |-> n, cp |-> sample.cp]
  BY <1>1, ReadAsWritten
<1> HIDE DEF s, n
<1>3. AnyMatch(s) = n
  BY <1>2 DEF AnyMatch
<1>4. \A cp \in Scalars : CharacterMatch(cp, s) = IF cp = sample.cp THEN n ELSE Fail
  BY <1>2 DEF CharacterMatch
<1> QED BY <1>2, <1>3, <1>4 DEF CodePointsAreRead, s, n

(* No step changes the sample: the loop of Repetition::parse_core reads    *)
(* its operand and its text, and writes neither.                           *)
THEOREM SampleIsFixed == Spec => []SampleStands
<1>1. Init => SampleStands
  BY DEF Init, SampleStands
<1>2. SampleStands /\ [Next]_<<sample, loop>> => SampleStands'
  BY DEF Next, SampleStands
<1> QED BY <1>1, <1>2, PTL DEF Spec

(* decode_codepoint, AnyCharacter and Character read every code point as   *)
(* encode_codepoint wrote it, whatever bytes stand behind it.              *)
THEOREM CharactersAreRead == Spec => []CodePointsAreRead
BY SampleIsFixed, ReadsSample, PTL

----------------------------------------------------------------------------
(* Complemented classes.                                                   *)

(* Ranges of code points, in order, that do not overlap.                   *)
InOrder(ranges) ==
  /\ ranges \in Seq(Nat \X Nat)
  /\ \A k \in DOMAIN ranges : ranges[k][1] <= ranges[k][2] /\ ranges[k][2] < LastCodePoint
  /\ \A j, k \in DOMAIN ranges : j < k => ranges[j][2] < ranges[k][1]

Covered(cp, ranges) == \E range \in ranges : cp \in range[1] .. range[2]

(* The complement covers what the ranges do not, and nothing else.         *)
LEMMA ComplementCovers ==
  ASSUME NEW ranges, InOrder(ranges), NEW cp \in Nat, cp <= LastCodePoint
  PROVE  Covered(cp, complement_character_ranges(ranges)) <=> ~Covered(cp, ToSet(ranges))
<1> DEFINE n == Len(ranges)
           lo(k) == IF k = 1 THEN 0 ELSE ranges[k - 1][2] + 1
           hi(k) == IF k > n THEN LastCodePoint ELSE ranges[k][1] - 1
           gaps == {k \in 1 .. n + 1 : lo(k) <= hi(k)}
<1>0. LastCodePoint \in Nat
  BY SMT DEF LastCodePoint
<1>1. n \in Nat /\ DOMAIN ranges = 1 .. n /\ \A k \in 1 .. n : ranges[k][1] \in Nat /\ ranges[k][2] \in Nat
  BY DEF InOrder
<1>2. /\ \A k \in 1 .. n : ranges[k][1] <= ranges[k][2] /\ ranges[k][2] < LastCodePoint
      /\ \A j, k \in 1 .. n : j < k => ranges[j][2] < ranges[k][1]
  BY <1>1 DEF InOrder
<1>3. Covered(cp, ToSet(ranges)) <=> \E j \in 1 .. n : ranges[j][1] <= cp /\ cp <= ranges[j][2]
  <2>1. ToSet(ranges) = {ranges[j] : j \in 1 .. n}
    BY <1>1 DEF ToSet
  <2> QED BY <2>1, <1>1 DEF Covered
<1>4. Covered(cp, complement_character_ranges(ranges)) <=> \E k \in gaps : cp \in lo(k) .. hi(k)
  <2>1. complement_character_ranges(ranges) = {<<lo(k), hi(k)>> : k \in gaps}
    BY DEF complement_character_ranges
  <2> HIDE DEF gaps, lo, hi
  <2>2. \A range : range \in complement_character_ranges(ranges) <=> \E k \in gaps : range = <<lo(k), hi(k)>>
    BY <2>1
  <2>3. \A k : <<lo(k), hi(k)>>[1] = lo(k) /\ <<lo(k), hi(k)>>[2] = hi(k)
    OBVIOUS
  <2> QED BY <2>2, <2>3 DEF Covered
<1> HIDE DEF n
<1>5. ASSUME NEW k \in gaps, cp \in lo(k) .. hi(k), NEW j \in 1 .. n,
             ranges[j][1] <= cp, cp <= ranges[j][2]
      PROVE  FALSE
  <2>1. k \in 1 .. n + 1 /\ lo(k) <= cp /\ cp <= hi(k)
    BY <1>5, <1>0, <1>1
  <2>2. CASE j < k
    <3>1. k - 1 \in 1 .. n /\ j <= k - 1 /\ lo(k) = ranges[k - 1][2] + 1
      BY <2>1, <2>2, <1>1
    <3>2. ranges[j][2] <= ranges[k - 1][2]
      <4>1. CASE j = k - 1
        BY <4>1, <1>1
      <4>2. CASE j < k - 1
        BY <4>2, <3>1, <1>1, <1>2
      <4> QED BY <3>1, <4>1, <4>2, <1>1
    <3> QED BY <3>1, <3>2, <2>1, <1>5, <1>1
  <2>3. CASE j >= k
    <3>1. k \in 1 .. n /\ hi(k) = ranges[k][1] - 1
      BY <2>1, <2>3, <1>1
    <3>2. ranges[k][1] <= ranges[j][1]
      <4>1. CASE j = k
        BY <4>1, <1>1
      <4>2. CASE j > k
        BY <4>2, <3>1, <1>1, <1>2
      <4> QED BY <3>1, <2>3, <4>1, <4>2, <1>1
    <3> QED BY <3>1, <3>2, <2>1, <1>5, <1>1
  <2> QED BY <2>1, <2>2, <2>3, <1>1
<1>6. ASSUME \A j \in 1 .. n : ~(ranges[j][1] <= cp /\ cp <= ranges[j][2])
      PROVE  \E k \in gaps : cp \in lo(k) .. hi(k)
  <2> DEFINE later == {k \in 1 .. n + 1 : k > n \/ cp < ranges[k][1]}
  <2>1. n + 1 \in later /\ later \subseteq Nat
    BY <1>1
  <2>2. PICK k \in later : \A l \in later : ~(l < k)
    <3>1. PICK k \in later : \A l \in later : <<l, k>> \notin OpToRel(<, Nat)
      BY <2>1, NatLessThanWellFounded, WFMin
    <3> QED BY <3>1, <2>1 DEF OpToRel
  <2>3. k \in 1 .. n + 1 /\ (k > n \/ cp < ranges[k][1])
    BY <2>2
  <2>4. lo(k) <= cp
    <3>1. CASE k = 1
      BY <3>1
    <3>2. CASE k # 1
      <4>1. k - 1 \in 1 .. n /\ k - 1 \in 1 .. n + 1 /\ k - 1 < k
        BY <3>2, <2>3, <1>1
      <4>2. k - 1 \notin later
        BY <4>1, <2>2
      <4>3. ~(cp < ranges[k - 1][1])
        BY <4>1, <4>2
      <4> QED BY <4>1, <4>3, <3>2, <1>1, <1>6
    <3> QED BY <3>1, <3>2
  <2>5. cp <= hi(k)
    BY <2>3, <1>0, <1>1
  <2>6. lo(k) \in Int /\ hi(k) \in Int
    <3>1. k # 1 => k - 1 \in 1 .. n
      BY <2>3, <1>1
    <3>2. ~(k > n) => k \in 1 .. n
      BY <2>3, <1>1
    <3> QED BY <3>1, <3>2, <1>0, <1>1
  <2> HIDE DEF lo, hi
  <2> QED BY <2>3, <2>4, <2>5, <2>6
<1> HIDE DEF gaps, lo, hi
<1> QED BY <1>3, <1>4, <1>5, <1>6

(* One to four ranges in order.                                            *)
LEMMA OneRange ==
  ASSUME NEW a \in Nat, NEW b \in Nat, a <= b, b < 128
  PROVE  InOrder(<< <<a, b>> >>)
<1>1. b < LastCodePoint
  BY SMT DEF LastCodePoint
<1> QED BY <1>1 DEF InOrder

(* Two ranges of ASCII characters, in order and apart.                     *)
LEMMA TwoRanges ==
  ASSUME NEW a \in Nat, NEW b \in Nat, NEW c \in Nat, NEW d \in Nat,
         a <= b, b < c, c <= d, d < 128
  PROVE  InOrder(<< <<a, b>>, <<c, d>> >>)
<1>1. b < LastCodePoint /\ d < LastCodePoint
  BY SMT DEF LastCodePoint
<1> DEFINE r == << <<a, b>>, <<c, d>> >>
<1>2. /\ r \in Seq(Nat \X Nat) /\ DOMAIN r = {1, 2}
      /\ r[1][1] = a /\ r[1][2] = b /\ r[2][1] = c /\ r[2][2] = d
  OBVIOUS
<1> HIDE DEF r
<1>3. InOrder(r)
  BY <1>1, <1>2 DEF InOrder
<1> QED BY <1>3 DEF r

(* Three of them.                                                          *)
LEMMA ThreeRanges ==
  ASSUME NEW a \in Nat, NEW b \in Nat, NEW c \in Nat, NEW d \in Nat, NEW e \in Nat, NEW f \in Nat,
         a <= b, b < c, c <= d, d < e, e <= f, f < 128
  PROVE  InOrder(<< <<a, b>>, <<c, d>>, <<e, f>> >>)
<1>1. b < LastCodePoint /\ d < LastCodePoint /\ f < LastCodePoint
  BY SMT DEF LastCodePoint
<1> DEFINE r == << <<a, b>>, <<c, d>>, <<e, f>> >>
<1>2. /\ r \in Seq(Nat \X Nat) /\ DOMAIN r = {1, 2, 3}
      /\ r[1][1] = a /\ r[1][2] = b /\ r[2][1] = c /\ r[2][2] = d /\ r[3][1] = e /\ r[3][2] = f
  OBVIOUS
<1> HIDE DEF r
<1>3. InOrder(r)
  BY <1>1, <1>2 DEF InOrder
<1> QED BY <1>3 DEF r

(* Four of them.                                                           *)
LEMMA FourRanges ==
  ASSUME NEW a \in Nat, NEW b \in Nat, NEW c \in Nat, NEW d \in Nat, NEW e \in Nat, NEW f \in Nat,
         NEW g \in Nat, NEW h \in Nat,
         a <= b, b < c, c <= d, d < e, e <= f, f < g, g <= h, h < 128
  PROVE  InOrder(<< <<a, b>>, <<c, d>>, <<e, f>>, <<g, h>> >>)
<1>1. b < LastCodePoint /\ d < LastCodePoint /\ f < LastCodePoint /\ h < LastCodePoint
  BY SMT DEF LastCodePoint
<1> DEFINE r == << <<a, b>>, <<c, d>>, <<e, f>>, <<g, h>> >>
<1>2. /\ r \in Seq(Nat \X Nat) /\ DOMAIN r = {1, 2, 3, 4}
      /\ r[1][1] = a /\ r[1][2] = b /\ r[2][1] = c /\ r[2][2] = d
      /\ r[3][1] = e /\ r[3][2] = f /\ r[4][1] = g /\ r[4][2] = h
  OBVIOUS
<1> HIDE DEF r
<1>3. InOrder(r)
  <2>1. \A k \in DOMAIN r : r[k][1] <= r[k][2] /\ r[k][2] < LastCodePoint
    BY <1>1, <1>2
  <2>2. ASSUME NEW j \in DOMAIN r, NEW k \in DOMAIN r, j < k PROVE r[j][2] < r[k][1]
    <3>1. CASE k = 2
      BY <3>1, <2>2, <1>2
    <3>2. CASE k = 3
      BY <3>2, <2>2, <1>2
    <3>3. CASE k = 4
      BY <3>3, <2>2, <1>2
    <3> QED BY <3>1, <3>2, <3>3, <2>2, <1>2
  <2> QED BY <1>2, <2>1, <2>2 DEF InOrder
<1> QED BY <1>3 DEF r

(* The predefined classes are.                                             *)
LEMMA NamedAreInOrder ==
  ASSUME NEW name \in ClassNames
  PROVE  InOrder(predefined_character_class[name])
<1> DEFINE p == predefined_character_class
<1>1. name \in {"alnum", "alpha", "ascii", "blank", "cntrl", "digit", "graph", "lower", "print",
                "punct", "space", "upper", "word", "xdigit"}
  BY DEF ClassNames, predefined_character_class
<1>2. /\ p["alnum"] = << <<48, 57>>, <<65, 90>>, <<97, 122>> >>
      /\ p["alpha"] = << <<65, 90>>, <<97, 122>> >>
      /\ p["ascii"] = << <<0, 127>> >>
      /\ p["blank"] = << <<9, 9>>, <<32, 32>> >>
      /\ p["cntrl"] = << <<0, 31>>, <<127, 127>> >>
      /\ p["digit"] = << <<48, 57>> >>
      /\ p["graph"] = << <<33, 126>> >>
  BY DEF predefined_character_class
<1>3. /\ p["lower"] = << <<97, 122>> >>
      /\ p["print"] = << <<32, 126>> >>
      /\ p["punct"] = << <<33, 47>>, <<58, 64>>, <<91, 96>>, <<123, 126>> >>
      /\ p["space"] = << <<9, 13>>, <<32, 32>> >>
      /\ p["upper"] = << <<65, 90>> >>
      /\ p["word"] = << <<48, 57>>, <<65, 90>>, <<95, 95>>, <<97, 122>> >>
      /\ p["xdigit"] = << <<48, 57>>, <<65, 70>>, <<97, 102>> >>
  BY DEF predefined_character_class
<1> HIDE DEF p
<1>4. InOrder(p["ascii"]) /\ InOrder(p["digit"]) /\ InOrder(p["graph"]) /\ InOrder(p["lower"])
      /\ InOrder(p["print"]) /\ InOrder(p["upper"])
  BY <1>2, <1>3, OneRange
<1>5. InOrder(p["alpha"]) /\ InOrder(p["blank"]) /\ InOrder(p["cntrl"]) /\ InOrder(p["space"])
  BY <1>2, <1>3, TwoRanges
<1>6. InOrder(p["alnum"]) /\ InOrder(p["xdigit"])
  <2>1. InOrder(<< <<48, 57>>, <<65, 90>>, <<97, 122>> >>)
    BY ThreeRanges
  <2>2. InOrder(<< <<48, 57>>, <<65, 70>>, <<97, 102>> >>)
    BY ThreeRanges
  <2> QED BY <1>2, <1>3, <2>1, <2>2
<1>7. InOrder(p["punct"]) /\ InOrder(p["word"])
  <2>1. InOrder(<< <<33, 47>>, <<58, 64>>, <<91, 96>>, <<123, 126>> >>)
    <3>1. 33 <= 47 /\ 47 < 58 /\ 58 <= 64 /\ 64 < 91 /\ 91 <= 96 /\ 96 < 123 /\ 123 <= 126 /\ 126 < 128
      OBVIOUS
    <3> QED BY <3>1, FourRanges, SMTT(60)
  <2>2. InOrder(<< <<48, 57>>, <<65, 90>>, <<95, 95>>, <<97, 122>> >>)
    BY FourRanges
  <2> QED BY <1>3, <2>1, <2>2
<1>8. InOrder(p[name])
  BY <1>1, <1>4, <1>5, <1>6, <1>7
<1> QED BY <1>8 DEF p

(* A named class and its complement, on one character.                     *)
LEMMA ComplementsSample == SampleStands => ComplementIsNegation
<1> SUFFICES ASSUME SampleStands, sample.kind = "named" PROVE ComplementIsNegation
  BY DEF ComplementIsNegation
<1> DEFINE s == encode_codepoint(sample.cp)
           ranges == predefined_character_class[sample.name]
           negated == Class(PosixClass(sample.name, FALSE), TRUE, FALSE)
           complement == Class(PosixClass(sample.name, TRUE), FALSE, FALSE)
<1>1. IsCodePoint(sample.cp) /\ sample.name \in ClassNames
  BY SampleOf DEF SampleStands
<1>2. sample.cp \in Nat /\ sample.cp <= LastCodePoint
  <2>1. LastCodePoint \in Nat
    BY SMT DEF LastCodePoint
  <2> QED BY <1>1, <2>1, SMT DEF IsCodePoint
<1>3. InOrder(ranges)
  BY <1>1, NamedAreInOrder
<1>4. s # <<>> /\ decode_codepoint(s) = [bytes |-> Len(s), cp |-> sample.cp]
  BY <1>1, Encoded
<1>5. Covered(sample.cp, complement_character_ranges(ranges)) <=> ~Covered(sample.cp, ToSet(ranges))
  BY <1>2, <1>3, ComplementCovers
<1>6. /\ negated.ranges = ToSet(ranges) /\ negated.negated = TRUE /\ negated.ignore_case = FALSE
      /\ complement.ranges = complement_character_ranges(ranges)
      /\ complement.negated = FALSE /\ complement.ignore_case = FALSE
  BY DEF Class, PosixClass
<1> HIDE DEF s, ranges, negated, complement
<1>7. /\ ClassMatch(negated, s) = IF Covered(sample.cp, ToSet(ranges)) THEN Fail ELSE Len(s)
      /\ ClassMatch(complement, s)
           = IF Covered(sample.cp, complement_character_ranges(ranges)) THEN Len(s) ELSE Fail
  <2>1. \A class : class.ignore_case = FALSE =>
          ((\E range \in class.ranges : in_range(range, class.ignore_case, sample.cp))
             <=> Covered(sample.cp, class.ranges))
    BY DEF Covered, in_range
  <2> DEFINE hit(class) ==
               \E range \in class.ranges : in_range(range, class.ignore_case, decode_codepoint(s).cp)
  <2>2. \A class : ClassMatch(class, s)
                     = IF s # <<>> /\ hit(class) # class.negated THEN decode_codepoint(s).bytes ELSE Fail
    BY DEF ClassMatch
  <2>3. /\ hit(negated) <=> Covered(sample.cp, ToSet(ranges))
        /\ hit(complement) <=> Covered(sample.cp, complement_character_ranges(ranges))
    BY <1>4, <1>6, <2>1
  <2>4. decode_codepoint(s).bytes = Len(s)
    BY <1>4
  <2>5. hit(negated) \in BOOLEAN /\ hit(complement) \in BOOLEAN
    OBVIOUS
  <2> HIDE DEF hit
  <2> QED BY <1>4, <1>6, <2>2, <2>3, <2>4, <2>5
<1>8. ClassMatch(complement, s) = ClassMatch(negated, s) /\ ClassMatch(negated, s) \in {Fail, Len(s)}
  BY <1>5, <1>7
<1> QED BY <1>8 DEF ComplementIsNegation, s, negated, complement

(* For every predefined class and every code point, the complement that    *)
(* the loader makes of the gaps matches what CharacterClass::parse_core    *)
(* matches when it is negated.                                             *)
THEOREM ComplementsNegate == Spec => []ComplementIsNegation
BY SampleIsFixed, ComplementsSample, PTL

----------------------------------------------------------------------------
(* The byte loop.                                                          *)

\* What SpanIsRepetition is stated for.
AsciiClass(class) ==
  /\ \A range \in class.ranges : range[1] \in Nat /\ range[2] \in Nat
  /\ class.negated \in BOOLEAN /\ class.ignore_case \in BOOLEAN
  /\ is_ascii_only(class) /\ OneCase(class)

(* A byte is a natural number.                                             *)
LEMMA ByteIsNumber == \A b \in Byte : b \in Nat
BY DEF Byte

(* The code point that is read of bytes is a natural number.               *)
LEMMA ReadsNumber ==
  ASSUME NEW s \in Seq(Byte)
  PROVE  decode_codepoint(s).cp \in Nat
<1>1. \A k \in 1 .. Len(s) : s[k] \in Nat
  <2>1. \A b \in Byte : b \in Nat
    BY DEF Byte
  <2>2. \A k \in 1 .. Len(s) : s[k] \in Byte
    OBVIOUS
  <2> QED BY <2>1, <2>2
<1>2. codepoint_length(s) \in 0 .. 4 /\ codepoint_length(s) <= Len(s)
  <2>1. \A b \in Byte : Announced(b) \in 0 .. 4
    BY DEF Announced, Byte
  <2>2. s # <<>> => Head(s) \in Byte
    OBVIOUS
  <2> QED BY <2>1, <2>2 DEF codepoint_length
<1>3. \A x \in Nat : x % 64 \in Nat /\ x % 32 \in Nat /\ x % 16 \in Nat /\ x % 8 \in Nat
  OBVIOUS
<1> DEFINE n == codepoint_length(s)
<1> HIDE DEF n
<1>4. n \in 0 .. 4 /\ n <= Len(s) /\ n = codepoint_length(s)
  BY <1>2 DEF n
<1>5. CASE n = 0
  BY <1>4, <1>5 DEF decode_codepoint
<1>6. CASE n = 1
  <2>1. s[1] \in Nat
    BY <1>1, <1>4, <1>6
  <2> QED BY <1>4, <1>6, <2>1 DEF decode_codepoint
<1>7. CASE n = 2
  <2>1. (s[1] % 32) \in Nat /\ (s[2] % 64) \in Nat
    BY <1>1, <1>3, <1>4, <1>7
  <2> QED BY <1>4, <1>7, <2>1, SMT DEF decode_codepoint
<1>8. CASE n = 3
  <2> DEFINE a == s[1] % 16  b == s[2] % 64  c == s[3] % 64
  <2>1. a \in Nat /\ b \in Nat /\ c \in Nat
    BY <1>1, <1>3, <1>4, <1>8
  <2>2. decode_codepoint(s).cp = a * 4096 + b * 64 + c
    BY <1>4, <1>8, SMT DEF decode_codepoint
  <2> HIDE DEF a, b, c
  <2> QED BY <2>1, <2>2, SMT
<1>9. CASE n = 4
  <2> DEFINE a == s[1] % 8  b == s[2] % 64  c == s[3] % 64  d == s[4] % 64
  <2>0. s[1] \in Nat /\ s[2] \in Nat /\ s[3] \in Nat /\ s[4] \in Nat
    BY <1>1, <1>4, <1>9
  <2>1. a \in Nat /\ b \in Nat /\ c \in Nat /\ d \in Nat
    BY <2>0, <1>3
  <2>2. decode_codepoint(s).cp = a * 262144 + b * 4096 + c * 64 + d
    BY <1>4, <1>9, SMT DEF decode_codepoint
  <2> HIDE DEF a, b, c, d
  <2> QED BY <2>1, <2>2, SMT
<1> QED BY <1>4, <1>5, <1>6, <1>7, <1>8, <1>9

(* An ASCII class has ASCII bytes, those of the characters that it hits.   *)
LEMMA BytesOfClass ==
  ASSUME NEW class, AsciiClass(class), NEW b \in Nat
  PROVE  /\ b \in ascii_bitset(class) => b < 128
         /\ b \in ascii_bitset(class) <=> \E range \in class.ranges : in_range(range, class.ignore_case, b)
<1>1. \A range \in class.ranges : range[1] \in Nat /\ range[2] \in Nat /\ range[1] < 128 /\ range[2] < 128
  BY DEF AsciiClass, is_ascii_only
<1>2. b \in BytesOf(class) <=> \E range \in class.ranges : range[1] <= b /\ b <= range[2]
  BY <1>1 DEF BytesOf
<1>3. \A c : c \in BytesOf(class) => c \in 0 .. 127
  BY <1>1 DEF BytesOf
<1>4. CASE ~class.ignore_case
  <2>1. ascii_bitset(class) = BytesOf(class)
    BY <1>4 DEF ascii_bitset
  <2> QED BY <2>1, <1>1, <1>2, <1>3, <1>4 DEF in_range
<1>5. CASE class.ignore_case
  <2>1. b \in ascii_bitset(class)
          <=> b \in BytesOf(class) \/ \E c \in BytesOf(class) : b = toupper(c) \/ b = tolower(c)
    BY <1>5 DEF ascii_bitset
  <2>2. b \in ascii_bitset(class) => b < 128
    BY <2>1, <1>3 DEF toupper, tolower
  <2>3. ASSUME NEW range \in class.ranges
        PROVE  in_range(range, TRUE, b)
                 <=> \E c \in range[1] .. range[2] : b = c \/ b = toupper(c) \/ b = tolower(c)
    <3> DEFINE x == range[1]  y == range[2]  ends == {x, y}
               means == \E c \in x .. y : b = c \/ b = toupper(c) \/ b = tolower(c)
    <3>1. x \in 0 .. 127 /\ y \in 0 .. 127
      BY <1>1
    <3>2. \/ ends \cup x .. y \subseteq Upper \/ ends \cup x .. y \subseteq Lowercase
          \/ (ends \cup x .. y) \cap (Upper \cup Lowercase) = {}
      BY <1>5 DEF AsciiClass, OneCase
    <3>3. in_range(range, TRUE, b) <=> tolower(x) <= tolower(b) /\ tolower(b) <= tolower(y)
      BY DEF in_range
    <3> HIDE DEF x, y
    <3>4. CASE ends \cup x .. y \subseteq Upper
      <4>1. x \in 65 .. 90 /\ y \in 65 .. 90
        BY <3>4 DEF Upper
      <4>2. tolower(x) <= tolower(b) /\ tolower(b) <= tolower(y) <=> b \in x .. y \/ b - 32 \in x .. y
        BY <4>1, SMT DEF tolower
      <4>3. means <=> b \in x .. y \/ b - 32 \in x .. y
        <5>1. \A c \in x .. y : tolower(c) = c + 32 /\ toupper(c) = c /\ c \in Int
          BY <4>1 DEF tolower, toupper
        <5>2. b - 32 \in x .. y => b = tolower(b - 32)
          BY <5>1
        <5> QED BY <5>1, <5>2
      <4> QED BY <3>3, <4>2, <4>3 DEF x, y
    <3>5. CASE ends \cup x .. y \subseteq Lowercase
      <4>1. x \in 97 .. 122 /\ y \in 97 .. 122
        BY <3>5 DEF Lowercase
      <4>2. tolower(x) <= tolower(b) /\ tolower(b) <= tolower(y) <=> b \in x .. y \/ b + 32 \in x .. y
        BY <4>1, SMT DEF tolower
      <4>3. means <=> b \in x .. y \/ b + 32 \in x .. y
        <5>1. \A c \in x .. y : tolower(c) = c /\ toupper(c) = c - 32 /\ c \in Int
          BY <4>1 DEF tolower, toupper
        <5>2. b + 32 \in x .. y => b = toupper(b + 32)
          BY <5>1
        <5> QED BY <5>1, <5>2
      <4> QED BY <3>3, <4>2, <4>3 DEF x, y
    <3>6. CASE (ends \cup x .. y) \cap (Upper \cup Lowercase) = {}
      <4>1. /\ x \notin 65 .. 90 /\ x \notin 97 .. 122 /\ y \notin 65 .. 90 /\ y \notin 97 .. 122
            /\ \A c \in x .. y : c \notin 65 .. 90 /\ c \notin 97 .. 122
        BY <3>6 DEF Upper, Lowercase
      <4>2. tolower(x) = x /\ tolower(y) = y /\ \A c \in x .. y : tolower(c) = c /\ toupper(c) = c
        BY <4>1 DEF tolower, toupper
      <4>3. x <= tolower(b) /\ tolower(b) <= y <=> b \in x .. y
        <5>1. tolower(b) \in Int
          BY DEF tolower
        <5>2. tolower(b) # b => tolower(b) \in 97 .. 122
          BY DEF tolower
        <5> QED BY <3>1, <4>1, <4>2, <5>1, <5>2
      <4>4. means <=> b \in x .. y
        BY <4>2
      <4> QED BY <3>3, <4>2, <4>3, <4>4 DEF x, y
    <3> QED BY <3>2, <3>4, <3>5, <3>6
  <2>4. \A c : c \in BytesOf(class) <=> \E range \in class.ranges : c \in range[1] .. range[2]
    BY DEF BytesOf
  <2>5. b \in ascii_bitset(class)
          <=> \E c \in BytesOf(class) : b = c \/ b = toupper(c) \/ b = tolower(c)
    BY <2>1
  <2>6. b \in ascii_bitset(class) <=> \E range \in class.ranges : in_range(range, TRUE, b)
    BY <2>3, <2>4, <2>5
  <2>7. class.ignore_case = TRUE
    BY <1>5 DEF AsciiClass
  <2> QED BY <2>2, <2>6, <2>7
<1> QED BY <1>4, <1>5 DEF AsciiClass

(* The rest of a text, from a position.                                    *)
LEMMA RestOf ==
  ASSUME NEW s \in Seq(Byte), NEW i \in 0 .. Len(s)
  PROVE  /\ From(s, i) \in Seq(Byte) /\ Len(From(s, i)) = Len(s) - i
         /\ i = Len(s) => From(s, i) = <<>>
         /\ i < Len(s) => /\ From(s, i) # <<>> /\ From(s, i)[1] = Unit(s, i)
                          /\ Head(From(s, i)) = Unit(s, i) /\ Unit(s, i) \in Byte
<1>1. Len(s) \in Nat /\ i + 1 \in 1 .. Len(s) + 1 /\ Len(s) \in i .. Len(s)
  OBVIOUS
<1>2. /\ From(s, i) \in Seq(Byte) /\ Len(From(s, i)) = Len(s) - i
      /\ \A k \in 1 .. Len(s) - i : From(s, i)[k] = s[i + k]
  BY <1>1, SubSeqProperties DEF From
<1>3. CASE i < Len(s)
  <2>1. From(s, i)[1] = Unit(s, i) /\ Unit(s, i) \in Byte
    BY <1>1, <1>2, <1>3 DEF Unit
  <2> QED BY <1>1, <1>2, <1>3, <2>1
<1> QED BY <1>1, <1>2, <1>3

(* What the class matches where ASCII characters only are behind: the next *)
(* byte, if it is one of the class's.  A code point of more than one byte  *)
(* is none of its characters.                                              *)
LEMMA NextByte ==
  ASSUME NEW class, AsciiClass(class), NEW s \in Seq(Byte), IsUtf8(s), NEW i \in 0 .. Len(s),
         \A j \in 0 .. i - 1 : Unit(s, j) \in ascii_bitset(class)
  PROVE  /\ i = Len(s) => ClassMatch(class, From(s, i)) = Fail
         /\ i < Len(s) => ClassMatch(class, From(s, i))
                            = IF Unit(s, i) \in ascii_bitset(class) THEN 1 ELSE Fail
<1> DEFINE rest == From(s, i)  b == Unit(s, i)  d == decode_codepoint(rest)
           hit(cp) == \E range \in class.ranges : in_range(range, class.ignore_case, cp)
<1>1. rest \in Seq(Byte) /\ (i = Len(s) => rest = <<>>)
  BY RestOf
<1>2. ClassMatch(class, rest) = IF rest # <<>> /\ hit(d.cp) THEN d.bytes ELSE Fail
  <2>1. class.negated = FALSE
    BY DEF AsciiClass, is_ascii_only
  <2> QED BY <2>1 DEF ClassMatch
<1>3. CASE i = Len(s)
  BY <1>1, <1>2, <1>3
<1>4. CASE i < Len(s)
  <2>1. rest # <<>> /\ rest[1] = b /\ Head(rest) = b /\ b \in Byte /\ Len(rest) = Len(s) - i
    BY <1>4, RestOf
  <2>2. b \in Nat
    BY <2>1, ByteIsNumber
  <2>3. \A n \in Nat : (n \in ascii_bitset(class) => n < 128) /\ (n \in ascii_bitset(class) <=> hit(n))
    BY BytesOfClass
  <2>4. CASE b < 128
    <3>1. codepoint_length(rest) = 1
      <4>1. Announced(b) = 1 /\ Len(rest) >= 1
        BY <2>1, <2>4, <1>4 DEF Announced
      <4> QED BY <2>1, <4>1 DEF codepoint_length
    <3>2. d = [bytes |-> 1, cp |-> b]
      BY <2>1, <3>1 DEF decode_codepoint
    <3> HIDE DEF rest, b, d, hit
    <3> QED BY <1>2, <1>4, <2>1, <2>2, <2>3, <3>2 DEF rest, b
  <2>5. CASE b >= 128
    <3>1. i + 1 \in DOMAIN s /\ s[i + 1] = b
      BY <1>4 DEF Unit
    <3>2. ~Continues(b)
      <4>1. SUFFICES ASSUME Continues(b) PROVE FALSE
        OBVIOUS
      <4>2. PICK j \in 1 .. i : i + 1 < j + Announced(s[j])
        BY <3>1, <4>1 DEF IsUtf8
      <4>3. j - 1 \in 0 .. i - 1 /\ s[j] = Unit(s, j - 1) /\ j \in 1 .. Len(s)
        BY <4>2 DEF Unit
      <4>4. s[j] \in Nat
        <5>1. s[j] \in Byte
          BY <4>3
        <5> QED BY <5>1, ByteIsNumber
      <4>5. s[j] < 128
        BY <4>3, <4>4, <2>3
      <4>6. Announced(s[j]) = 1
        BY <4>4, <4>5 DEF Announced
      <4> QED BY <4>2, <4>6
    <3>3. encode_codepoint(d.cp) = SubSeq(s, i + 1, i + Announced(b))
      <4>1. i + 1 - 1 = i /\ i + 1 + Announced(b) - 1 = i + Announced(b)
        <5>1. Announced(b) \in Nat
          BY DEF Announced
        <5> QED BY <5>1
      <4>2. \A k \in DOMAIN s :
              ~Continues(s[k]) => encode_codepoint(decode_codepoint(From(s, k - 1)).cp)
                                    = SubSeq(s, k, k + Announced(s[k]) - 1)
        BY DEF IsUtf8
      <4>3. encode_codepoint(decode_codepoint(From(s, i + 1 - 1)).cp)
              = SubSeq(s, i + 1, i + 1 + Announced(b) - 1)
        BY <3>1, <3>2, <4>2
      <4> QED BY <4>1, <4>3
    <3>4. d.cp \in Nat
      BY <1>1, ReadsNumber
    <3>5. ~(d.cp < 128)
      <4>1. SUFFICES ASSUME d.cp < 128 PROVE FALSE
        OBVIOUS
      <4>2. encode_codepoint(d.cp) = <<d.cp>>
        BY <3>4, <4>1 DEF encode_codepoint
      <4> DEFINE n == Announced(b)
      <4>3. n \in Nat
        BY DEF Announced
      <4>4. SubSeq(s, i + 1, i + n) = <<d.cp>>
        BY <3>3, <4>2
      <4> HIDE DEF n, d
      <4>5. CASE n = 0
        <5>1. SubSeq(s, i + 1, i + n) = <<>>
          BY <4>5
        <5>2. <<d.cp>> # <<>>
          OBVIOUS
        <5> QED BY <4>4, <5>1, <5>2
      <4>6. CASE n >= 1
        <5>1. SubSeq(s, i + 1, i + n)[1] = s[i + 1]
          BY <3>1, <4>3, <4>6
        <5>2. <<d.cp>>[1] = d.cp
          OBVIOUS
        <5>3. d.cp = b
          BY <3>1, <4>4, <5>1, <5>2
        <5> QED BY <3>4, <4>1, <5>3, <2>5
      <4> QED BY <4>3, <4>5, <4>6
    <3>6. ~hit(d.cp) /\ b \notin ascii_bitset(class)
      BY <2>2, <2>3, <2>5, <3>4, <3>5
    <3> HIDE DEF rest, b, d, hit
    <3> QED BY <1>2, <1>4, <3>6 DEF rest, b
  <2> QED BY <2>2, <2>4, <2>5
<1> QED BY <1>3, <1>4

\* A repetition that the byte loop may replace.
Replaceable ==
  /\ sample.kind = "span" /\ AsciiClass(sample.class) /\ IsUtf8(sample.s)
  /\ sample.max = Inf \/ sample.min <= sample.max

(* The inductive invariant of the loop: one byte of the class for every    *)
(* turn, no turn too many, and a result only where the loop may end.       *)
LoopShape == DOMAIN loop = {"count", "i", "result"}
LoopInvariant ==
  /\ SampleStands /\ LoopShape
  /\ Replaceable =>
       /\ loop.i \in 0 .. Len(sample.s) /\ loop.count = loop.i
       /\ \A j \in 0 .. loop.i - 1 : Unit(sample.s, j) \in ascii_bitset(sample.class)
       /\ sample.max # Inf => loop.i <= sample.max
       /\ loop.result # Running => /\ AtMax \/ Parsed = Fail
                                   /\ loop.result = IF Enough THEN loop.i ELSE Fail

(* What is known of a repetition.                                          *)
LEMMA RepetitionOf ==
  ASSUME SampleStands, sample.kind = "span"
  PROVE  /\ \A range \in sample.class.ranges : range[1] \in Nat /\ range[2] \in Nat
         /\ sample.class.negated \in BOOLEAN /\ sample.class.ignore_case \in BOOLEAN
         /\ sample.min \in Nat /\ sample.max \in Nat \cup {Inf} /\ sample.s \in Seq(Byte)
         /\ Len(sample.s) \in Nat
<1>1. sample \in Repetitions
  BY SampleOf DEF SampleStands
<1> QED BY <1>1, RepetitionsAssumption

(* What the loop's operator matches at its position.                       *)
LEMMA ParsedByte ==
  ASSUME LoopInvariant, Replaceable
  PROVE  /\ loop.i = Len(sample.s) => Parsed = Fail
         /\ loop.i < Len(sample.s) => Parsed = IF Unit(sample.s, loop.i) \in ascii_bitset(sample.class) THEN 1 ELSE Fail
<1>1. sample.s \in Seq(Byte)
  BY RepetitionOf DEF LoopInvariant, Replaceable
<1> QED BY <1>1, NextByte DEF LoopInvariant, Replaceable, Parsed

(* The loop begins with nothing consumed.                                  *)
LEMMA LoopStarts == Init => LoopInvariant
<1> SUFFICES ASSUME Init PROVE LoopInvariant
  OBVIOUS
<1>1. SampleStands /\ loop = [count |-> 0, i |-> 0, result |-> Running]
  BY DEF Init, SampleStands, RepetitionStart
<1>2. LoopShape /\ loop.count = 0 /\ loop.i = 0 /\ loop.result = Running
  BY <1>1 DEF LoopShape
<1>3. ASSUME Replaceable PROVE Len(sample.s) \in Nat /\ sample.max \in Nat \cup {Inf}
  BY <1>1, <1>3, RepetitionOf DEF Replaceable
<1> QED BY <1>1, <1>2, <1>3 DEF LoopInvariant

(* The three steps of the loop.                                            *)
LEMMA LoopGoesOn == LoopInvariant /\ RepetitionGoesOn /\ sample' = sample => LoopInvariant'
<1> SUFFICES ASSUME LoopInvariant, RepetitionGoesOn, sample' = sample PROVE LoopInvariant'
  OBVIOUS
<1>1. /\ SampleStands' /\ LoopShape'
      /\ loop'.count = loop.count + 1 /\ loop'.i = loop.i + Parsed /\ loop'.result = loop.result
  BY DEF LoopInvariant, SampleStands, LoopShape, RepetitionGoesOn
<1>2. Replaceable' <=> Replaceable
  BY DEF Replaceable
<1>3. ASSUME Replaceable
      PROVE  /\ loop'.i \in 0 .. Len(sample.s) /\ loop'.count = loop'.i
             /\ \A j \in 0 .. loop'.i - 1 : Unit(sample.s, j) \in ascii_bitset(sample.class)
             /\ sample.max # Inf => loop'.i <= sample.max
             /\ loop'.result = Running
  <2>1. sample.min \in Nat /\ sample.max \in Nat \cup {Inf} /\ Len(sample.s) \in Nat
    BY <1>3, RepetitionOf DEF LoopInvariant, Replaceable
  <2>2. /\ loop.i \in 0 .. Len(sample.s) /\ loop.count = loop.i
        /\ \A j \in 0 .. loop.i - 1 : Unit(sample.s, j) \in ascii_bitset(sample.class)
        /\ sample.max # Inf => loop.i <= sample.max
    BY <1>3 DEF LoopInvariant
  <2>3. Parsed # Fail /\ ~AtMax /\ loop.result = Running
    BY DEF RepetitionGoesOn, Looping
  <2>4. loop.i < Len(sample.s) /\ Parsed = 1 /\ Unit(sample.s, loop.i) \in ascii_bitset(sample.class)
    BY <1>3, <2>1, <2>2, <2>3, ParsedByte DEF Fail
  <2>5. sample.max # Inf => loop.i + 1 <= sample.max
    BY <1>3, <2>1, <2>2, <2>3 DEF AtMax, Enough, Replaceable
  <2>6. \A j \in 0 .. loop.i : Unit(sample.s, j) \in ascii_bitset(sample.class)
    BY <2>2, <2>4
  <2> QED BY <1>1, <2>1, <2>2, <2>3, <2>4, <2>5, <2>6
<1> QED BY <1>1, <1>2, <1>3 DEF LoopInvariant

(* It ends where it stands, or fails.                                      *)
LEMMA LoopEnds == LoopInvariant /\ RepetitionEnds /\ sample' = sample => LoopInvariant'
<1> SUFFICES ASSUME LoopInvariant, RepetitionEnds, sample' = sample PROVE LoopInvariant'
  OBVIOUS
<1>1. /\ SampleStands' /\ LoopShape'
      /\ loop'.count = loop.count /\ loop'.i = loop.i /\ loop'.result = IF Enough THEN loop.i ELSE Fail
      /\ AtMax \/ Parsed = Fail
  BY DEF LoopInvariant, SampleStands, LoopShape, RepetitionEnds
<1>2. /\ Replaceable' <=> Replaceable
      /\ AtMax' <=> AtMax
      /\ Enough' <=> Enough
      /\ Parsed' = Parsed
  BY <1>1 DEF Replaceable, AtMax, Enough, Parsed
<1> QED BY <1>1, <1>2 DEF LoopInvariant

(* It stays as it ended.                                                   *)
LEMMA LoopStands == LoopInvariant /\ sample' = sample /\ loop' = loop => LoopInvariant'
BY DEF LoopInvariant, SampleStands, LoopShape, Replaceable, AtMax, Enough, Parsed

(* The loop of Repetition::parse_core over an ASCII class has consumed     *)
(* one byte a round, each of them in the bitset, and no more than it may;  *)
(* once it has ended, the next byte stops it.                              *)
THEOREM LoopIsKept == Spec => []LoopInvariant
<1>1. LoopInvariant /\ [Next]_<<sample, loop>> => LoopInvariant'
  <2> SUFFICES ASSUME LoopInvariant, [Next]_<<sample, loop>> PROVE LoopInvariant'
    OBVIOUS
  <2>1. CASE RepetitionGoesOn /\ sample' = sample
    BY <2>1, LoopGoesOn
  <2>2. CASE RepetitionEnds /\ sample' = sample
    BY <2>2, LoopEnds
  <2>3. CASE sample' = sample /\ loop' = loop
    BY <2>3, LoopStands
  <2> QED BY <2>1, <2>2, <2>3 DEF Next, Idle
<1> QED BY <1>1, LoopStarts, PTL DEF Spec

(* Where the loop has ended, the byte loop ends.                           *)
LEMMA SpanAgrees == LoopInvariant => SpanIsRepetition
<1> SUFFICES ASSUME LoopInvariant, sample.kind = "span", loop.result # Running,
                    is_ascii_only(sample.class), OneCase(sample.class), IsUtf8(sample.s),
                    sample.max = Inf \/ sample.min <= sample.max
             PROVE  loop.result = Span(sample.class, sample.min, sample.max, sample.s)
  BY DEF SpanIsRepetition
<1> DEFINE s == sample.s  bytes == ascii_bitset(sample.class)
           limit == IF sample.max = Inf \/ sample.max > Len(s) THEN Len(s) ELSE sample.max
           ends == {i \in 0 .. limit : \A j \in 0 .. i - 1 : Unit(s, j) \in bytes}
           last == CHOOSE i \in ends : \A j \in ends : j <= i
<1>1. /\ sample.min \in Nat /\ sample.max \in Nat \cup {Inf} /\ Len(s) \in Nat
      /\ \A range \in sample.class.ranges : range[1] \in Nat /\ range[2] \in Nat
      /\ sample.class.negated \in BOOLEAN /\ sample.class.ignore_case \in BOOLEAN
  BY RepetitionOf DEF LoopInvariant
<1>2. Replaceable
  BY <1>1 DEF Replaceable, AsciiClass
<1>3. /\ loop.i \in 0 .. Len(s) /\ loop.count = loop.i
      /\ \A j \in 0 .. loop.i - 1 : Unit(s, j) \in bytes
      /\ sample.max # Inf => loop.i <= sample.max
      /\ AtMax \/ Parsed = Fail
      /\ loop.result = IF Enough THEN loop.i ELSE Fail
  BY <1>2 DEF LoopInvariant
<1>4. limit \in Nat /\ limit <= Len(s) /\ (sample.max # Inf => limit <= sample.max)
  BY <1>1 DEF Inf
<1>5. loop.i \in ends
  <2>1. loop.i \in 0 .. limit
    BY <1>1, <1>3
  <2> QED BY <2>1, <1>3
<1>6. ASSUME NEW j \in ends PROVE j <= loop.i
  <2>1. j \in 0 .. limit /\ \A k \in 0 .. j - 1 : Unit(s, k) \in bytes
    OBVIOUS
  <2>2. SUFFICES ASSUME j > loop.i PROVE FALSE
    BY <2>1, <1>3, <1>4
  <2>3. loop.i < Len(s) /\ loop.i \in 0 .. j - 1
    BY <2>1, <2>2, <1>3, <1>4
  <2>4. Parsed = 1
    BY <2>1, <2>3, <1>2, ParsedByte
  <2>5. sample.max # Inf /\ loop.i >= sample.max
    BY <2>4, <1>3 DEF AtMax, Fail
  <2> QED BY <2>1, <2>2, <2>5, <1>1, <1>3, <1>4
<1>7. last = loop.i
  <2>1. \A i \in ends : i \in Int
    BY <1>4
  <2> HIDE DEF ends
  <2>2. last \in ends /\ \A j \in ends : j <= last
    BY <1>5, <1>6
  <2>3. last <= loop.i /\ loop.i <= last /\ last \in Int /\ loop.i \in Int
    BY <1>5, <1>6, <2>1, <2>2
  <2> QED BY <2>3
<1>8. Span(sample.class, sample.min, sample.max, s) = IF last < sample.min THEN Fail ELSE last
  BY DEF Span
<1> HIDE DEF last
<1> QED BY <1>1, <1>3, <1>7, <1>8 DEF Enough

(* Of every UTF-8 text, with every bound, the span loop that stands for a  *)
(* repetition of an ASCII class consumes what the repetition does, and     *)
(* fails where it fails.                                                   *)
THEOREM SpansAreRepetitions == Spec => []SpanIsRepetition
BY LoopIsKept, SpanAgrees, PTL
=============================================================================
