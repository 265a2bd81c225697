---------------------------- MODULE KeywordGuard ----------------------------
(***************************************************************************)
(* Sequence::parse_keyword_guarded: the scan and lookup that SetupFirstSets*)
(* puts in the place of !Keyword <identifier>, and the operators it stands *)
(* for.  rules: the operator of each rule; word and blanks as in           *)
(* Dictionary.                                                             *)
(***************************************************************************)
EXTENDS Dictionary

\* Operators of a grammar text, as in PegGrammar.
LitI(text)       == [op |-> "lit", text |-> text, ignore_case |-> TRUE]
Cls(class)       == [op |-> "cls", class |-> class]
Seqn(kids)       == [op |-> "seq", kids |-> kids]
Cho(kids)        == [op |-> "cho", kids |-> kids]
Rep(e, min, max) == [op |-> "rep", kid |-> e, min |-> min, max |-> max]
Not(e)           == [op |-> "not", kid |-> e]
Tok(e)           == [op |-> "tok", kid |-> e]
Ref(name)        == [op |-> "ref", name |-> name]

----------------------------------------------------------------------------
\* What the operators match at s, white space outside a token included.
LiteralMatch(e, word, blanks, s, in_token) ==
  LET n == Len(e.text)
      rest == From(s, n)
      is_word == e.text # <<>> /\ Head(e.text) \in word
      same == n <= Len(s) /\ Folded(SubSeq(s, 1, n), e.ignore_case) = Folded(e.text, e.ignore_case)
  IN IF ~same \/ (is_word /\ rest # <<>> /\ Head(rest) \in word) THEN Fail
     ELSE n + (IF in_token THEN 0 ELSE skip_whitespace(blanks, rest))

RECURSIVE Match(_, _, _, _, _, _), MatchRep(_, _, _, _, _, _, _)
Match(rules, e, word, blanks, s, in_token) ==
  LET M(d, t) == Match(rules, d, word, blanks, t, in_token) IN
  CASE e.op = "lit" -> LiteralMatch(e, word, blanks, s, in_token)
    [] e.op = "cls" -> ClassMatch(e.class, s)
    [] e.op = "ref" -> M(rules[e.name], s)
    [] e.op = "not" -> IF M(e.kid, s) = Fail THEN 0 ELSE Fail
    [] e.op = "seq" -> FoldLeft(LAMBDA n, d : IF n = Fail THEN Fail
                                              ELSE LET l == M(d, From(s, n))
                                                   IN IF l = Fail THEN Fail ELSE n + l, 0, e.kids)
    [] e.op = "cho" -> LET ks == {k \in DOMAIN e.kids : M(e.kids[k], s) # Fail}
                       IN IF ks = {} THEN Fail
                          ELSE M(e.kids[CHOOSE k \in ks : \A l \in ks : k <= l], s)
    [] e.op = "rep" -> MatchRep(rules, e, word, blanks, s, in_token, 0)
    [] e.op = "tok" -> LET n == Match(rules, e.kid, word, blanks, s, TRUE)
                       IN IF n = Fail \/ in_token THEN n
                          ELSE n + skip_whitespace(blanks, From(s, n))

MatchRep(rules, e, word, blanks, s, in_token, count) ==
  LET len == IF count >= e.min /\ e.max # Inf /\ count >= e.max THEN Fail ELSE Match(rules, e.kid, word, blanks, s, in_token) IN
  IF len = Fail THEN (IF count < e.min THEN Fail ELSE 0)
  ELSE LET rest == MatchRep(rules, e, word, blanks, From(s, len), in_token, count + 1)
       IN IF rest = Fail THEN Fail ELSE len + rest

----------------------------------------------------------------------------
NoGuard == [exact_keywords |-> {}]

IsLitI(e)       == e.op = "lit" /\ e.ignore_case
IsCompound(e)   == e.op = "seq" /\ e.kids # <<>> /\ \A k \in DOMAIN e.kids : IsLitI(e.kids[k])
IsKeywords(e)   == e.op = "cho" /\ \A k \in DOMAIN e.kids : IsLitI(e.kids[k]) \/ IsCompound(e.kids[k])
IsIdentifier(e) == /\ e.op = "seq" /\ Len(e.kids) = 2
                   /\ e.kids[1].op = "cls" /\ e.kids[2].op = "rep" /\ e.kids[2].kid.op = "cls"
                   /\ is_ascii_only(e.kids[1].class) /\ is_ascii_only(e.kids[2].kid.class)

\* The repetition's own bounds are not looked at.
setup_keyword_guarded_identifier(rules, e) ==
  LET keywords == rules[e.kids[1].kid.name].kids
      exact == {Lower(keywords[k].text) : k \in {k \in DOMAIN keywords : keywords[k].op = "lit"}}
      prefix == {Lower(keywords[k].kids[1].text) : k \in {k \in DOMAIN keywords : keywords[k].op = "seq"}}
      identifier == e.kids[2].kid
  IN IF /\ Len(e.kids) = 2 /\ e.kids[1].op = "not" /\ e.kids[1].kid.op = "ref"
        /\ IsKeywords(rules[e.kids[1].kid.name])
        /\ exact # {} /\ e.kids[2].op = "tok" /\ IsIdentifier(identifier)
     THEN [exact_keywords |-> exact, prefix_keywords |-> prefix,
           identifier_first |-> ascii_bitset(identifier.kids[1].class),
           identifier_rest |-> ascii_bitset(identifier.kids[2].kid.class),
           keyword_lens |-> {Len(k) : k \in exact \cup prefix}]
     ELSE NoGuard

\* Between the shortest and the longest.
LookedUpBelow(lens, id_len) == \E l, m \in lens : l <= id_len /\ id_len < m
LookedUp(lens, id_len) == \E l, m \in lens : l <= id_len /\ id_len <= m

\* What a sequence with a guard matches, and whether it leaves that to its
\* operators: the first word of a compound keyword.
parse_keyword_guarded(kw, blanks, s) ==
  LET ends == {n \in 1 .. Len(s) : \A i \in 2 .. n : s[i] \in kw.identifier_rest}
      id_len == CHOOSE n \in ends : \A l \in ends : l <= n
      looked_up == LookedUp(kw.keyword_lens, id_len)
      lower == Lower(SubSeq(s, 1, id_len))
      answer(len) == [len |-> len, falls_through |-> FALSE]
  IN IF s = <<>> \/ Head(s) \notin kw.identifier_first THEN answer(Fail)
     ELSE IF looked_up /\ lower \in kw.exact_keywords THEN answer(Fail)
     ELSE IF looked_up /\ lower \in kw.prefix_keywords THEN [len |-> 0, falls_through |-> TRUE]
     ELSE answer(id_len + skip_whitespace(blanks, From(s, id_len)))

SequenceMatch(rules, e, word, blanks, s) ==
  LET kw == setup_keyword_guarded_identifier(rules, e)
      fast == parse_keyword_guarded(kw, blanks, s)
      operators == Match(rules, e, word, blanks, s, FALSE)
  IN IF kw = NoGuard \/ fast.falls_through THEN operators ELSE fast.len
=============================================================================
