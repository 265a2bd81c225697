---------------------------- MODULE GrammarBlob -----------------------------
(***************************************************************************)
(* GrammarBlob: a loaded grammar written to a blob and read from one.  A   *)
(* blob is a sequence of items (a tag, a number, a string, a flag), each   *)
(* of which is read whole or found missing.                                *)
(***************************************************************************)
EXTENDS GrammarLoad

MAGIC == "PEG2"
Unserializable == <<>>          \* serialize has thrown

Concat(ss) == FlattenSeq(ss)

RECURSIVE write_ope(_)
WriteAll(opes) == Concat([k \in DOMAIN opes |-> write_ope(opes[k])])
WriteInfo(info) ==
  LET ops == SetToSeq(DOMAIN info)
  IN <<Len(ops)>> \o Concat([k \in DOMAIN ops |-> <<ops[k], info[ops[k]][1], info[ops[k]][2]>>])
write_ope(e) ==
  CASE e.op = "none" -> <<"none">>
    [] e.op = "seq" -> <<"seq", Len(e.kids)>> \o WriteAll(e.kids)
    [] e.op = "cho" -> <<"cho", e.for_label, Len(e.kids)>> \o WriteAll(e.kids)
    [] e.op = "rep" -> <<"rep", e.min, e.max>> \o write_ope(e.kid)
    [] e.op = "lit" -> <<"lit", e.text>>
    [] e.op = "chr" -> <<"chr", e.set>>
    [] e.op = "bkr" -> <<"bkr", e.name>>
    [] e.op = "ref" -> <<"ref", e.name>>
    [] e.op = "cut" -> <<"cut">>
    [] e.op = "pre" -> <<"pre">> \o write_ope(e.atom) \o write_ope(e.binop) \o WriteInfo(e.info)
    [] e.op \in Unary \ {"rep", "cap"} -> <<e.op>> \o write_ope(e.kid)

\* A capture of a grammar text has a match action.
IsSerializable(rs) ==
  \A r \in DOMAIN rs :
    LET body == rs[r].body
    IN body.op = "pre" \/ \A e \in Within(Unary, body) : e.op # "cap"

FlagsOfSome(rule) ==
  <<rule.ignoreSemanticValue, rule.eoi_check, rule.enablePackratParsing, rule.is_left_recursive,
    rule.can_be_empty, rule.disable_action, rule.error_message, rule.error_message>>
FlagsOf(rule) ==
  <<rule.ignoreSemanticValue, rule.eoi_check, rule.enablePackratParsing, rule.is_left_recursive,
    rule.can_be_empty, rule.disable_action, rule.no_whitespace, rule.error_message>>

serialize(rs, start) ==
  LET names == SetToSeq(DOMAIN rs)
      written(r) == <<r>> \o FlagsOf(rs[r]) \o write_ope(rs[r].body)
  IN IF ~IsSerializable(rs) THEN Unserializable
     ELSE <<MAGIC, start, Len(names)>> \o Concat([k \in DOMAIN names |-> written(names[k])])

----------------------------------------------------------------------------
(* Reading.  What has been read, and the position of the next item; at is  *)
(* Thrown when there was none.                                             *)
Thrown == 0
Got(val, at) == [val |-> val, at |-> at]
Throw == Got(NoNode, Thrown)
Has(b, at, n) == at # Thrown /\ at + n - 1 <= Len(b)

RECURSIVE read_ope(_, _), ReadOpes(_, _, _, _), ReadInfo(_, _, _, _)
ReadOpesToEnd(b, n, at, opes) ==
  IF n = 0 \/ at = Thrown \/ at > Len(b) THEN Got(opes, at)
  ELSE LET kid == read_ope(b, at) IN ReadOpes(b, n - 1, kid.at, Append(opes, kid.val))
ReadOpes(b, n, at, opes) ==
  IF n = 0 \/ at = Thrown THEN Got(opes, at)
  ELSE LET kid == read_ope(b, at) IN ReadOpes(b, n - 1, kid.at, Append(opes, kid.val))

ReadInfo(b, n, at, info) ==
  IF n = 0 THEN Got(info, at)
  ELSE IF ~Has(b, at, 3) THEN Throw
  ELSE ReadInfo(b, n - 1, at + 3, (b[at] :> <<b[at + 1], b[at + 2]>>) @@ info)

\* The operator of read, when it could be read.
Made(read, F(_)) == IF read.at = Thrown THEN Throw ELSE Got(F(read.val), read.at)

ReadPre(b, at) ==
  LET atom == read_ope(b, at)
      binop == read_ope(b, atom.at)
      info == IF Has(b, binop.at, 1) THEN ReadInfo(b, b[binop.at], binop.at + 1, <<>>) ELSE Throw
  IN IF Thrown \in {atom.at, binop.at} THEN Throw
     ELSE Made(info, LAMBDA i : Pre(atom.val, binop.val, i))

\* The items after the tag that are not operators.
Fixed == [seq |-> 1, cho |-> 2, rep |-> 2, lit |-> 1, chr |-> 1, bkr |-> 1, ref |-> 1]
read_ope(b, at) ==
  LET tag == b[at]
      fixed == IF tag \in DOMAIN Fixed THEN Fixed[tag] ELSE 0
      kid == read_ope(b, at + 1 + fixed)
      leaf(e) == Got(e, at + 1 + fixed)
      kids(n) == ReadOpes(b, n, at + 1 + fixed, <<>>)
      unary(F(_)) == Made(kid, F)
  IN IF ~Has(b, at, 1) \/ ~Has(b, at, 1 + fixed) THEN Throw
     ELSE CASE tag = "none" -> leaf(NoNode)
            [] tag = "seq" -> Made(kids(b[at + 1]), Seqn)
            [] tag = "cho" -> Made(kids(b[at + 2]), LAMBDA es : [Cho(es) EXCEPT !.for_label = b[at + 1]])
            [] tag = "rep" -> unary(LAMBDA e : Rep(e, b[at + 1], b[at + 2]))
            [] tag = "lit" -> leaf(Lit(b[at + 1]))
            [] tag = "chr" -> leaf(Chr(b[at + 1]))
            [] tag = "bkr" -> leaf(Back(b[at + 1]))
            [] tag = "ref" -> leaf(Ref(b[at + 1]))
            [] tag = "cut" -> leaf(Cut)
            [] tag = "pre" -> ReadPre(b, at + 1)
            [] tag \in Unary -> unary(LAMBDA e : [op |-> tag, kid |-> e])

RECURSIVE ReadRules(_, _, _, _)
ReadRules(b, n, at, rs) ==
  LET body == read_ope(b, at + 9)
      flag(k) == b[at + k]
      rule == [Definition(body.val) EXCEPT
                 !.ignoreSemanticValue = flag(1), !.eoi_check = flag(2),
                 !.enablePackratParsing = flag(3), !.is_left_recursive = flag(4),
                 !.can_be_empty = flag(5), !.disable_action = flag(6),
                 !.no_whitespace = flag(7), !.error_message = flag(8)]
  IN IF n = 0 THEN Got(rs, at)
     ELSE IF ~Has(b, at, 9) \/ body.at = Thrown THEN Throw
     ELSE ReadRules(b, n - 1, body.at, (b[at] :> rule) @@ rs)

\* The start rule's name is stored before the rest is read; no name when the
\* blob was refused before.
deserialize(b, start) ==
  LET read == ReadRules(b, b[3], 4, <<>>)
  IN IF ~Has(b, 1, 1) \/ b[1] # MAGIC \/ ~Has(b, 1, 2) THEN [ok |-> FALSE, rules |-> <<>>, start |-> start]
     ELSE IF ~Has(b, 1, 3) \/ read.at = Thrown THEN [ok |-> FALSE, rules |-> <<>>, start |-> b[2]]
     ELSE [ok |-> TRUE, rules |-> SetUpAll(read.val), start |-> b[2]]
=============================================================================
