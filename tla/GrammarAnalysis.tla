-------------------------- MODULE GrammarAnalysis ---------------------------
(***************************************************************************)
(* What peglib.h works out about a grammar before it parses with it:       *)
(* ComputeCanBeEmpty, DetectLeftRecursion, ComputeFirstSet and             *)
(* SetupFirstSets, AssignIDToDefinition's has_cut, and the packrat filter. *)
(* Loaded(gr) is a grammar as ParserGenerator leaves it, Built(gr) one put *)
(* together from combinators, which the first and the last two reach.      *)
(* The operand of e^label is a macro call whose argument only some of them *)
(* follow: it is never empty and starts with any byte.                     *)
(***************************************************************************)
EXTENDS PegGrammar, FiniteSets, SequencesExt

CONSTANT Bytes          \* the alphabet: what an any_char first set stands for

\* The function of F over D, built up element by element.
Tabulate(D, F(_)) == FoldSet(LAMBDA d, f : (d :> F(d)) @@ f, <<>>, D)

\* The operators with operands that a TraversalVisitor merely walks through.
Transparent == {"cap", "csc", "tok", "ign", "wsp"}

----------------------------------------------------------------------------
(* ComputeCanBeEmpty, and the fixed point over the rules: E is the set of  *)
(* rules whose can_be_empty is set.                                        *)
RECURSIVE CanBeEmpty(_, _)
CanBeEmpty(E, e) ==
  CASE e.op = "seq" -> \A k \in DOMAIN e.kids : CanBeEmpty(E, e.kids[k])
    [] e.op = "cho" -> \E k \in DOMAIN e.kids : CanBeEmpty(E, e.kids[k])
    [] e.op = "rep" -> e.min = 0
    [] e.op = "lit" -> e.text = <<>>
    [] e.op = "ref" -> e.name \in E
    [] e.op \in {"and", "not"} -> TRUE
    [] e.op \in Transparent -> CanBeEmpty(E, e.kid)
    [] OTHER -> FALSE

RECURSIVE EmptyRules(_, _)
EmptyRules(rs, E) ==
  LET next == {r \in DOMAIN rs : CanBeEmpty(E, rs[r].body)}
  IN IF next = E THEN E ELSE EmptyRules(rs, next)

\* The references of e that it walks into where they are combinators' (a
\* WeakHolder); all_of and any_of stop at the first element that decides.
RECURSIVE Walked(_, _)
Walked(E, e) ==
  LET undecided(stop) == {k \in DOMAIN e.kids : \A l \in 1 .. k - 1 : CanBeEmpty(E, e.kids[l]) # stop} IN
  CASE e.op = "seq" -> UNION {Walked(E, e.kids[k]) : k \in undecided(FALSE)}
    [] e.op = "cho" -> UNION {Walked(E, e.kids[k]) : k \in undecided(TRUE)}
    [] e.op = "ref" -> {e.name}
    [] e.op \in Transparent -> Walked(E, e.kid)
    [] OTHER -> {}

RECURSIVE WalkedFrom(_, _, _)
WalkedFrom(rs, E, R) ==
  LET next == R \cup UNION {Walked(E, rs[r].body) : r \in R}
  IN IF next = R THEN R ELSE WalkedFrom(rs, E, next)

\* No such walk comes back to a rule that it is in.
WalksEnd(gr) ==
  LET E == EmptyRules(gr.rules, {})
  IN \A r \in DOMAIN gr.rules : r \notin WalkedFrom(gr.rules, E, Walked(E, gr.rules[r].body))

----------------------------------------------------------------------------
(* DetectLeftRecursion(name): the visitor's done_, error_s and refs_ are   *)
(* threaded through the operators in the order it visits them.             *)
RECURSIVE Visit(_, _, _, _, _), VisitSequence(_, _, _, _, _), VisitChoice(_, _, _, _, _)

VisitRef(rs, E, name, r, st) ==
  LET after(s) == [s EXCEPT !.done = r \notin E] IN
  IF r = name THEN after([st EXCEPT !.error = TRUE])
  ELSE IF r \in st.refs THEN after(st)
  ELSE LET in == Visit(rs, E, name, rs[r].body, [st EXCEPT !.refs = @ \cup {r}])
       IN IF in.done THEN after(in) ELSE in

VisitSequence(rs, E, name, kids, st) ==
  IF kids = <<>> THEN st
  ELSE LET a == Visit(rs, E, name, Head(kids), st)
       IN IF a.done \/ a.error THEN [a EXCEPT !.done = TRUE]
          ELSE VisitSequence(rs, E, name, Tail(kids), a)

VisitChoice(rs, E, name, kids, st) ==
  IF kids = <<>> THEN st
  ELSE LET a == Visit(rs, E, name, Head(kids), st)
       IN IF a.error THEN [a EXCEPT !.done = TRUE]
          ELSE VisitChoice(rs, E, name, Tail(kids), a)

Visit(rs, E, name, e, st) ==
  CASE e.op = "seq" -> VisitSequence(rs, E, name, e.kids, st)
    [] e.op = "cho" -> VisitChoice(rs, E, name, e.kids, st)
    [] e.op = "rep" -> [Visit(rs, E, name, e.kid, st) EXCEPT !.done = e.min > 0]
    [] e.op \in {"and", "not"} -> [Visit(rs, E, name, e.kid, st) EXCEPT !.done = FALSE]
    [] e.op = "lit" -> [st EXCEPT !.done = e.text # <<>>]
    [] e.op \in {"chr", "bkr", "cut"} -> [st EXCEPT !.done = TRUE]
    [] e.op = "ref" -> VisitRef(rs, E, name, e.name, st)
    [] e.op \in Transparent \cup {"rec"} -> Visit(rs, E, name, e.kid, st)

LeftRecursiveRules(rs) ==
  LET E == EmptyRules(rs, {})
  IN {r \in DOMAIN rs :
        Visit(rs, E, r, rs[r].body, [done |-> FALSE, error |-> FALSE, refs |-> {}]).error}

----------------------------------------------------------------------------
(* The operators of e, through the operands of the unary operators in U.   *)
RECURSIVE Within(_, _)
Within(U, e) ==
  {e} \cup (IF e.op \in {"seq", "cho"} THEN UNION {Within(U, e.kids[k]) : k \in DOMAIN e.kids}
            ELSE IF e.op \in U THEN Within(U, e.kid) ELSE {})

(* Tokens: a literal or a choice of literals, a rule with a token boundary *)
(* or without a reference (TokenChecker); the literal that a rule is       *)
(* (FindLiteralToken).                                                     *)
RECURSIVE IsLiteralToken(_)
IsLiteralToken(e) ==
  e.op = "lit" \/ (e.op = "cho" /\ \A k \in DOMAIN e.kids : IsLiteralToken(e.kids[k]))

is_token(e) ==
  LET ops == {d.op : d \in Within(Unary \ {"and", "not"}, e)}
  IN IsLiteralToken(e) \/ "tok" \in ops \/ "ref" \notin ops

RECURSIVE FindLiteralToken(_)
FindLiteralToken(e) ==
  IF e.op = "lit" THEN e.text
  ELSE IF e.op \in {"tok", "ign"} THEN FindLiteralToken(e.kid) ELSE NoText

----------------------------------------------------------------------------
(* ComputeFirstSet: the bytes that can start e, and whether e can match    *)
(* nothing; any_char is all Bytes.  A rule met again within itself         *)
(* contributes nothing.  literal and rule are what an error says was       *)
(* expected of e.                                                          *)
Bytes1(set, empty) == [chars |-> set, can_be_empty |-> empty, literal |-> NoText, rule |-> NoName]

\* Then b, where a can be empty.
FirstOfBoth(a, b) ==
  [chars |-> a.chars \cup b.chars, can_be_empty |-> b.can_be_empty,
   literal |-> IF a.literal = NoText THEN b.literal ELSE a.literal,
   rule |-> IF a.rule = NoName THEN b.rule ELSE a.rule]

FirstOfRule(f, name, token) ==
  [f EXCEPT !.rule = IF @ = NoName /\ token THEN name ELSE @]

RECURSIVE FirstSet(_, _, _), SequenceFirst(_, _, _)
SequenceFirst(rs, kids, refs) ==
  IF kids = <<>> THEN Bytes1({}, TRUE)
  ELSE LET a == FirstSet(rs, Head(kids), refs)
           b == SequenceFirst(rs, Tail(kids), refs)
       IN IF a.can_be_empty THEN FirstOfBoth(a, b) ELSE a

FirstSet(rs, e, refs) ==
  CASE e.op = "seq" -> SequenceFirst(rs, e.kids, refs)
    [] e.op = "cho" ->
         LET fs == {FirstSet(rs, e.kids[k], refs) : k \in DOMAIN e.kids}
         IN Bytes1(UNION {f.chars : f \in fs}, \E f \in fs : f.can_be_empty)
    [] e.op = "rep" ->
         LET f == FirstSet(rs, e.kid, refs) IN [f EXCEPT !.can_be_empty = @ \/ e.min = 0]
    [] e.op \in {"and", "not", "cut"} -> Bytes1({}, TRUE)
    [] e.op = "lit" -> IF e.text = <<>> THEN Bytes1({}, TRUE)
                       ELSE [Bytes1({Head(e.text)}, FALSE) EXCEPT !.literal = e.text]
    [] e.op = "chr" -> Bytes1(e.set, FALSE)
    [] e.op \in {"bkr", "rec"} -> Bytes1(Bytes, FALSE)
    [] e.op = "ref" -> IF e.name \in refs THEN Bytes1({}, FALSE)
                       ELSE FirstOfRule(FirstSet(rs, rs[e.name].body, refs \cup {e.name}),
                                        e.name, is_token(rs[e.name].body))
    [] e.op \in Transparent -> FirstSet(rs, e.kid, refs)

(* SetupFirstSets: the filters of the choices, the spans of the            *)
(* repetitions.                                                            *)
Filter(f) == IF f.can_be_empty THEN Bytes ELSE f.chars
Named(f)  == IF f.literal = NoText THEN <<NoText, f.rule>> ELSE <<f.literal, NoName>>

RECURSIVE SetUp(_, _)
SetUp(rs, e) ==
  CASE e.op \in {"seq", "cho"} ->
         LET set == [e EXCEPT !.kids = Tabulate(DOMAIN @, LAMBDA k : SetUp(rs, e.kids[k]))]
             filter(k) == Filter(FirstSet(rs, e.kids[k], {}))
             named(k) == Named(FirstSet(rs, e.kids[k], {}))
         IN IF e.op = "seq" THEN set
            ELSE [set EXCEPT !.first = Tabulate(DOMAIN e.kids, filter),
                             !.named = Tabulate(DOMAIN e.kids, named)]
    [] e.op = "rep" -> [e EXCEPT !.kid = SetUp(rs, e.kid), !.span = e.kid.op = "chr" /\ e.kid.set # Bytes]
    [] e.op \in Unary \ {"rep"} -> [e EXCEPT !.kid = SetUp(rs, e.kid)]
    [] OTHER -> e

----------------------------------------------------------------------------
(* The rules that e refers to, those reached from a set of rules, and all  *)
(* their operators; through the operands of the unary operators in U.      *)
RefsIn(U, e) == {d.name : d \in {d \in Within(U, e) : d.op = "ref"}}

RECURSIVE Reached(_, _, _)
Reached(U, rs, R) ==
  LET next == R \cup UNION {RefsIn(U, rs[r].body) : r \in R}
  IN IF next = R THEN R ELSE Reached(U, rs, next)

ReachedIn(U, gr) == Reached(U, gr.rules, {gr.start} \cup RefsIn(U, gr.whitespace))
Operators(U, gr) ==
  UNION ({Within(U, gr.rules[r].body) : r \in ReachedIn(U, gr)} \cup {Within(U, gr.whitespace)})

has_cut(gr) == \E e \in Operators(Unary, gr) : e.op \in {"cut", "rec"}

----------------------------------------------------------------------------
(* initialize_packrat_filter: the rules that two alternatives of a choice  *)
(* may ask for at the same position.                                       *)
RECURSIVE Leftmost(_, _)          \* CollectLeftmostRules, references not followed
Leftmost(E, e) ==
  CASE e.op = "seq" ->
         UNION {Leftmost(E, e.kids[k]) :
                  k \in {k \in DOMAIN e.kids : \A l \in 1 .. k - 1 : CanBeEmpty(E, e.kids[l])}}
    [] e.op = "cho" -> UNION {Leftmost(E, e.kids[k]) : k \in DOMAIN e.kids}
    [] e.op = "ref" -> {e.name}
    [] e.op \in Unary \ {"rec"} -> Leftmost(E, e.kid)
    [] OTHER -> {}

RECURSIVE LeftmostReached(_, _, _)
LeftmostReached(rs, E, R) ==
  LET next == R \cup UNION {Leftmost(E, rs[r].body) : r \in R}
  IN IF next = R THEN R ELSE LeftmostReached(rs, E, next)

ElementsOf(alt) == IF alt.op = "seq" THEN alt.kids ELSE <<alt>>

\* The same elements; a cut or a back reference is only the same as itself.
SameSignature(d, e) == d = e /\ \A f \in Within(Unary, d) : f.op \notin {"cut", "bkr"}

\* group: alternatives that agree on their elements before the k-th.
RECURSIVE MarkAligned(_, _, _, _, _)
MarkAligned(rs, E, alts, group, k) ==
  IF Cardinality(group) < 2 THEN {}
  ELSE LET reachable(a) ==
             LeftmostReached(rs, E, Leftmost(E, Seqn(SubSeq(alts[a], k, Len(alts[a])))))
           longer == {a \in group : k <= Len(alts[a])}
       IN {r \in DOMAIN rs : \E a, b \in group : a # b /\ r \in reachable(a) \cap reachable(b)}
          \cup UNION {MarkAligned(rs, E, alts, {b \in longer : SameSignature(alts[b][k], alts[a][k])}, k + 1) :
                        a \in longer}

PackratFilterAligned(gr, E) ==
  UNION {MarkAligned(gr.rules, E, [k \in DOMAIN c.kids |-> ElementsOf(c.kids[k])],
                     DOMAIN c.kids, 1) :
           c \in {c \in Operators(Unary \ {"rec"}, gr) : c.op = "cho"}}
PackratFilter(gr, E) ==
  UNION {MarkAligned(gr.rules, E, [k \in DOMAIN c.kids |-> ElementsOf(c.kids[k])],
                     DOMAIN c.kids, 1) :
           c \in {c \in Operators(Unary \ {"rec"}, gr) : c.op = "cho"}}
  \cup {r \in DOMAIN gr.rules : gr.rules[r].is_left_recursive}

----------------------------------------------------------------------------
\* All that the rules of gr are made of.
Owned(gr) ==
  {Ref(gr.start)} \cup (Within(Unary, gr.whitespace) \ {NoNode})
    \cup UNION {Within(Unary, gr.rules[r].body) : r \in DOMAIN gr.rules}

EachRule(gr, F(_, _)) ==
  [gr EXCEPT !.rules = Tabulate(DOMAIN @, LAMBDA r : F(r, gr.rules[r]))]

WithIds(gr, E) ==
  LET slots == PackratFilter(gr, E)
      identified(r, rule) == [rule EXCEPT !.cached = r \in slots,
                                          !.is_token = is_token(rule.body),
                                          !.token = FindLiteralToken(rule.body)]
  IN EachRule([gr EXCEPT !.has_cut = has_cut(gr), !.definition_ids = ReachedIn(Unary, gr)], identified)

(* Without first sets or left recursion.  There are no recoveries in it,   *)
(* whose operand is a Reference, and its rules have been given names.  The *)
(* first parse with packrat parsing sets up the filter, and begins only if *)
(* its walks end: ComputeCanBeEmpty goes from each reference into the rule.*)
Built(gr) == WithIds(gr, EmptyRules(gr.rules, {}))
CanBeBuilt(gr) == \A e \in Operators(Unary, gr) : e.op # "rec"
PackratBuilt(gr) == {packrat \in BOOLEAN : packrat => WalksEnd(gr)}

(* With %whitespace, a rule that is a literal or a choice of literals      *)
(* becomes a token.                                                        *)
Tokenized(gr) ==
  IF gr.whitespace = NoNode THEN gr
  ELSE EachRule(gr, LAMBDA r, rule :
                      [rule EXCEPT !.body = IF IsLiteralToken(@) THEN Tok(@) ELSE @])

Loaded(gr) ==
  LET E == EmptyRules(gr.rules, {})
      L == LeftRecursiveRules(gr.rules)
      tokenized == Tokenized(gr)
      setup(r, rule) == [rule EXCEPT !.body = SetUp(tokenized.rules, @),
                                     !.is_left_recursive = r \in L]
  IN WithIds([EachRule(tokenized, setup) EXCEPT !.whitespace = SetUp(tokenized.rules, @),
                                               !.first_sets = TRUE], E)
=============================================================================
