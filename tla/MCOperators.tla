---------------------------- MODULE MCOperators -----------------------------
(***************************************************************************)
(* The operators that read characters, and precedence climbing, each with  *)
(* every input of a small domain: a state is one operator and one text, and*)
(* what the operator does with it is compared with what it stands for.     *)
(***************************************************************************)
EXTENDS KeywordGuard, Characters

P == INSTANCE Precedence

CONSTANT MaxText         \* the length of a text

Texts(alphabet) == BoundedSeq(alphabet, MaxText)

----------------------------------------------------------------------------
(* Texts of code points, and a position in them.                           *)
TextScalars == {10, 65, 127, 128, 2047, 2048, 55295, 57344, 65535, 65536, 1114111}
TextSamples == [kind : {"text"}, cps : Texts(TextScalars), cur : 0 .. MaxText]

EncodeAll(cps) == FoldLeft(LAMBDA s, cp : s \o encode_codepoint(cp), <<>>, cps)

(* The line and the column told of an error are those a reader counts, in  *)
(* lines and code points, for a position behind any of the code points.    *)
(* Those of a value are in lines and bytes, whichever line was asked for   *)
(* before.  decode cuts the text into its code points.                     *)
LinesAndColumns ==
  sample.kind = "text" /\ sample.cur <= Len(sample.cps) =>
    LET before == SubSeq(sample.cps, 1, sample.cur)
        breaks == {k \in DOMAIN before : before[k] = NewLine}
        last == CHOOSE k \in breaks \cup {0} : \A l \in breaks : l <= k
        s == EncodeAll(sample.cps)
        pos == Len(EncodeAll(before))
        bytes == Len(EncodeAll(SubSeq(sample.cps, last + 1, sample.cur)))
    IN /\ decode(s) = sample.cps
       /\ line_info(s, pos) = <<1 + Cardinality(breaks), 1 + sample.cur - last>>
       /\ \A hint \in 0 .. Len(s) + 1 :
            context_line_info(s, pos, hint) = <<1 + Cardinality(breaks), 1 + bytes>>

----------------------------------------------------------------------------
(* Classes of ASCII characters repeated over a text.  One that ignores case*)
(* has ranges of one case or of no letters.                                *)
OneClass == {cls(t, FALSE, FALSE) : t \in {<<97>>, <<65, 45, 95>>, <<45, 97>>, <<90, 45, 97, 128>>}}
            \cup {cls(t, FALSE, TRUE) : t \in {<<97, 45, 122, 95>>, <<65, 45, 66, 48>>, <<91>>}}
MCRepetitions == [kind : {"span"}, class : {c \in OneClass : is_ascii_only(c)}, min : 0 .. 2,
                  max : {Inf, 1, 2}, s : Texts({65, 90, 91, 95, 97, 122, 45, 194, 128})]

----------------------------------------------------------------------------
(* Dictionaries of distinct words, some of which %word does not match.     *)
Words == BoundedSeq({97, 98}, 2) \ {<<>>}
Dictionaries == {d \in BoundedSeq(Words, 3) : d # <<>> /\ IsInjective(d)}
DictionarySamples == [kind : {"dictionary"}, items : Dictionaries, ignore_case : BOOLEAN,
                      word : {{}, {97}, {97, 98, 65}}, s : Texts({97, 98, 65, 32})]

DictionarySays ==
  DictionaryMatch(Trie(sample.items, sample.ignore_case), sample.word, {32}, sample.s)

\* The words of a dictionary that the text starts with.
Spelled ==
  {k \in DOMAIN sample.items :
     IsPrefix(sample.items[k], Folded(SubSeq(sample.s, 1, Min({Len(sample.s), Len(sample.items[k])})),
                                      sample.ignore_case))}
Longest == CHOOSE k \in Spelled : \A l \in Spelled : Len(sample.items[l]) <= Len(sample.items[k])

(* A dictionary matches the longest of its words that the text starts with,*)
(* unless a character of a word follows it, whatever the word itself is    *)
(* made of, and then the white space.  A literal looks at what follows only*)
(* where it is a word itself (3481): so a dictionary matches what the      *)
(* choice of its words would, were they tried longest first, when there is *)
(* no %word, or the words and the text that spells them are made of its    *)
(* characters.                                                             *)
DictionaryIsChoice ==
  sample.kind = "dictionary" =>
    LET n == Len(sample.items[Longest])
        rest == From(sample.s, n)
        goes_on == rest # <<>> /\ Head(rest) \in sample.word
        literal(k) == [op |-> "lit", text |-> sample.items[k], ignore_case |-> sample.ignore_case]
        order == SetToSortSeq(DOMAIN sample.items, LAMBDA k, l : Len(sample.items[k]) > Len(sample.items[l]))
        choice == Cho([k \in DOMAIN order |-> literal(order[k])])
        of_word(text) == ToSet(text) \subseteq sample.word
        says == DictionarySays.len
    IN /\ says = IF Spelled = {} \/ goes_on THEN Fail ELSE n + skip_whitespace({32}, rest)
       /\ \/ sample.word = {}
          \/ /\ \A k \in DOMAIN sample.items : of_word(sample.items[k])
             /\ Spelled # {} => of_word(SubSeq(sample.s, 1, n))
          => says = Match(<<>>, choice, sample.word, {32}, sample.s, FALSE)

(* choice() is the number of the word matched (README.md:442), whatever the*)
(* order of the words (README.md:430).                                     *)
ChoiceIsWordMatched ==
  sample.kind = "dictionary" /\ DictionarySays.len # Fail => DictionarySays.choice = Longest - 1

\* The same where no word goes on as one that is listed before it.
ChoiceIsWordInOrder ==
  sample.kind = "dictionary"
    /\ (\A k, l \in DOMAIN sample.items : IsPrefix(sample.items[k], sample.items[l]) => k <= l)
  => ChoiceIsWordMatched

----------------------------------------------------------------------------
(* !Keyword <identifier>, as in README's keyword grammars: 'i' 'fi' x as   *)
(* keywords, alone and as the first of a compound.                         *)
Letters == cls(<<97, 45, 122, 95>>, FALSE, TRUE)
Digits  == cls(<<97, 45, 122, 95, 48>>, FALSE, TRUE)
I == LitI(<<105>>)
FI == LitI(<<70, 105>>)
KeywordRules == {[Keyword |-> Cho(alts)] :
                   alts \in {<<I>>, <<FI, I>>, <<Seqn(<<FI, I>>), I>>, <<Seqn(<<I, FI>>), FI>>,
                             <<I, Seqn(<<I, I>>)>>, <<I, Seqn(<<Not(I), FI>>)>>}}
Identifiers == {Tok(Seqn(<<Cls(Letters), Rep(Cls(Digits), 0, Inf)>>))}
KeywordSamples ==
  [kind : {"keyword"}, rules : KeywordRules, identifier : Identifiers, blanks : {{}, {32}},
   s : BoundedSeq({105, 70, 102, 48, 32}, MaxText + 1)]

(* The scan and lookup answers as the operators it stands for, where %word *)
(* is made of the characters an identifier goes on with.                   *)
GuardIsSequence ==
  sample.kind = "keyword" =>
    LET e == Seqn(<<Not(Ref("Keyword")), sample.identifier>>)
        word == ascii_bitset(Digits)
    IN SequenceMatch(sample.rules, e, word, sample.blanks, sample.s)
         = Match(sample.rules, e, word, sample.blanks, sample.s, FALSE)

----------------------------------------------------------------------------
(* Literals as a grammar text writes them: a sequence of Chars, each a byte*)
(* or an escape, by which the grammar of grammars reads them, with the     *)
(* bytes that it stands for: A 9 \n \\ \101 \7 \x4 \x4a \u00e9.           *)
Char(written, stands) == [written |-> written, stands |-> stands]
Chars == {Char(<<65>>, <<65>>), Char(<<57>>, <<57>>), Char(<<92, 110>>, <<10>>), Char(<<92, 92>>, <<92>>),
          Char(<<92, 49, 48, 49>>, <<65>>), Char(<<92, 55>>, <<7>>), Char(<<92, 120, 52>>, <<4>>),
          Char(<<92, 120, 52, 97>>, <<74>>), Char(<<92, 117, 48, 48, 101, 57>>, <<195, 169>>)}
EscapeSamples == [kind : {"escape"}, chars : BoundedSeq(Chars, 2)]

\* That no digit follows a number.
Separate(cs) ==
  \A k \in 1 .. Len(cs) - 1 :
    cs[k].written \notin {<<65>>, <<57>>, <<92, 110>>, <<92, 92>>} => ~is_hex(Head(cs[k + 1].written))

(* A literal is what its Chars stand for one by one, backslashes that      *)
(* follow each other and numbers included, unless a digit follows a number.*)
EscapesStandAlone ==
  sample.kind = "escape" /\ Separate(sample.chars) =>
    resolve_escape_sequence(FlattenSeq([k \in DOMAIN sample.chars |-> sample.chars[k].written]))
      = FlattenSeq([k \in DOMAIN sample.chars |-> sample.chars[k].stands])

----------------------------------------------------------------------------
(* Infix expressions: operands with operators between them, some of which  *)
(* no entry lists; parens says which of the operands are (1^1+1), missing  *)
(* that the last one is not there.                                         *)
Entry(assoc, ops) == [assoc |-> assoc, ops |-> ops]
Entries == {<<Entry("L", {"+"}), Entry("L", {"*"}), Entry("R", {"^"})>>,
            <<Entry("R", {"+", "^"}), Entry("L", {"*"})>>,
            <<Entry("L", {"+", "*"}), Entry("R", {"*", "^"})>>}
InfixSamples ==
  {j \in [kind : {"infix"}, entries : Entries, ops : BoundedSeq({"+", "*", "^", "?"}, 3),
          parens : SUBSET (1 .. 3), missing : BOOLEAN, memoized : BOOLEAN, tried : BOOLEAN] :
     (j.missing => j.ops # <<>>) /\ j.parens \subseteq 1 .. Len(j.ops) + 1}

Inner == <<<<"1">>, "^", <<"1">>, "+", <<"1">>>>
Operand(j, k) == IF k \in j.parens THEN <<"(", "1", "^", "1", "+", "1", ")">>
                 ELSE IF j.missing /\ k = Len(j.ops) + 1 THEN <<>> ELSE <<"1">>
Infix(j) == Operand(j, 1) \o FlattenSeq([k \in DOMAIN j.ops |-> <<j.ops[k]>> \o Operand(j, k + 1)])
Climbed(j) == P!Expression(P!Parse(Infix(j), {"+", "*", "^", "?"}, j.entries, j.memoized), j.tried)

\* The operators up to one that is not listed.
Listed(j) == Cardinality({k \in DOMAIN j.ops : "?" \notin ToSet(SubSeq(j.ops, 1, k))})

(* Precedence climbing groups as the levels and associativities listed say,*)
(* up to an operator that is not listed, and an operand that is missing    *)
(* fails it; what the nested calls note in each other's tok, and what they *)
(* then read again from the memo, does not mislead them.  That takes that O*)
(* has not been memoized before.                                           *)
PrecedenceGroups ==
  sample.kind = "infix" /\ ~(sample.memoized /\ sample.tried) =>
    LET info == P!BinOpeInfo(sample.entries)
        operand(k) == IF k \in sample.parens THEN P!Grouped(info, Inner) ELSE <<"1">>
        n == Listed(sample)
        items == [k \in 1 .. 2 * n + 1 |-> IF k % 2 = 0 THEN sample.ops[k \div 2] ELSE operand((k + 1) \div 2)]
        got == Climbed(sample)
    IN IF Operand(sample, n + 1) = <<>> THEN got.len = Fail
       ELSE got.val = P!Grouped(info, items) /\ got.len = Len(Infix([sample EXCEPT !.ops = SubSeq(@, 1, n), !.missing = FALSE]))

----------------------------------------------------------------------------
MCInit == /\ sample \in Samples \cup TextSamples \cup DictionarySamples \cup KeywordSamples
                          \cup EscapeSamples \cup InfixSamples
          /\ RepetitionStart
MCSpec == MCInit /\ [][Next]_<<sample, loop>>

MCScalars == {9, 10, 13, 32, 47, 48, 57, 58, 65, 95, 96, 97, 126, 127, 128, 2047, 2048, 55295, 57344,
              65535, 65536, 1114111}
MCBehind == Texts({65, 128, 194, 240})
=============================================================================
