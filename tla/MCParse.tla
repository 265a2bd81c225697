------------------------------ MODULE MCParse -------------------------------
(***************************************************************************)
(* Grammars without left recursion, each with every input over a small     *)
(* alphabet, as loaded from a text and as built from combinators, with and *)
(* without packrat parsing and a log.                                      *)
(***************************************************************************)
EXTENDS ParseProps, GrammarAnalysis

a == Lit(<<"a">>)
b == Lit(<<"b">>)
x == Lit(<<"x">>)
y == Lit(<<"y">>)
AB == Chr({"a", "b"})
AnyByte == Chr(Bytes)
Blanks == Zom(Chr({" "}))
Valued(e) == [Rule(e) EXCEPT !.action = TRUE]

\* Alternatives with a common prefix, which the packrat filter memoizes.
Prefix == Grammar(
  "S" :> Valued(Cho(<<Seqn(<<Ref("A"), x>>), Seqn(<<Ref("A"), y>>), Zom(Seqn(<<Not(y), AnyByte>>))>>)) @@
  "A" :> Valued(Cho(<<Seqn(<<a, Ref("A")>>), Ref("B")>>)) @@
  "B" :> Valued(Opt(a)), "S", NoNode, {})

\* Nothing observes the values of this one; its rules call each other.
Nest == Grammar(
  "S" :> Rule(Cho(<<Seqn(<<x, Ref("S"), y>>), Seqn(<<x, Ref("S"), x>>), Ref("A")>>)) @@
  "A" :> Rule(Rep(Seqn(<<a, Opt(b)>>), 1, 2)), "S", NoNode, {})

\* Tokens, whitespace, a rule without whitespace, a predicate.
Tokens == Grammar(
  "S" :> Valued(Cho(<<Seqn(<<Ref("T"), x, Ref("T")>>), Seqn(<<Ref("T"), Ref("N")>>)>>)) @@
  "T" :> [Valued(Tok(Oom(AB))) EXCEPT !.rejected = {<<"b">>, <<"b", " ">>}] @@
  "N" :> [Rule(Zom(Cho(<<x, Seqn(<<And(a), AnyByte>>)>>))) EXCEPT !.no_whitespace = TRUE, !.ignoreSemanticValue = TRUE],
  "S", Blanks, {})

\* Words: 'a' must not be the start of a longer word.  The literal 'y' in
\* the whitespace would itself skip whitespace.
Words == Grammar(
  "S" :> Valued(Cho(<<Seqn(<<a, Ref("W")>>), Ref("W")>>)) @@
  "W" :> Valued(Tok(Oom(AB))), "S", Zom(Cho(<<Chr({" "}), y>>)), {"a", "b"})

\* Whitespace that can fail.
Strict == Grammar("S" :> Valued(Seqn(<<a, Opt(a)>>)), "S", Oom(Chr({" "})), {})

\* Captures that are undone by alternatives, predicates and options.
Captures == Grammar(
  "S" :> Valued(Seqn(<<Cho(<<Seqn(<<Cap("c", a), x>>), Cap("c", AB)>>),
                       Opt(Seqn(<<Cap("c", b), x>>)), Not(Seqn(<<Cap("c", AnyByte), x>>)),
                       Csc(Opt(Seqn(<<x, Cap("c", x)>>))), Back("c")>>)), "S", NoNode, {})

\* Cuts in nested choices, in a rule, in a repetition, in a predicate.
Cuts == Grammar(
  "S" :> Valued(Cho(<<Seqn(<<Cho(<<Seqn(<<a, Cut, b>>), a>>), x>>), Ref("C"),
                      Seqn(<<Not(Seqn(<<b, Cut, b>>)), b, x>>), AnyByte>>)) @@
  "C" :> Rule(Seqn(<<a, Zom(Seqn(<<a, Cut, b>>)), a>>)), "S", NoNode, {})

\* Recovery at a label, and after it.
Recover == Grammar(
  "S" :> Valued(Oom(Cho(<<Seqn(<<a, Labelled(b, "L")>>), Seqn(<<a, x>>), Ref("B")>>))) @@
  "B" :> Valued(b) @@
  "L" :> Rule(Oom(Chr({"x"}))), "S", NoNode, {})

Raw == [prefix |-> Prefix, nest |-> Nest, tokens |-> Tokens, words |-> Words,
        captures |-> Captures, cuts |-> Cuts, recover |-> Recover, strict |-> Strict]
Alphabet == [prefix |-> {"a", "x", "y"}, nest |-> {"a", "b", "x", "y"},
             tokens |-> {"a", "b", "x", " "}, words |-> {"a", "b", "y", " "},
             captures |-> {"a", "b", "x"}, cuts |-> {"a", "b", "x"}, recover |-> {"a", "b", "x"},
             strict |-> {"a", " "}]

MCBytes == {"a", "b", "x", "y", " "}
CONSTANT MaxInput

\* A log matters only where nothing else observes the values.
BuiltAndLoaded ==
  LET jobs(r, grammars, packrats) ==
        [grammar : grammars, packrat : packrats, log : IF r = "nest" THEN BOOLEAN ELSE {FALSE},
         input : BoundedSeq(Alphabet[r], MaxInput)]
  IN UNION {jobs(r, {Loaded(Raw[r])}, BOOLEAN) : r \in DOMAIN Raw}
     \cup UNION {jobs(r, {Built(Raw[r])}, PackratBuilt(Raw[r])) :
                   r \in {r \in DOMAIN Raw : CanBeBuilt(Raw[r])}}
MCJobs == BuiltAndLoaded      \* TLC evaluates a definition once, but not one given in a .cfg
MCNodes == [gr \in {j.grammar : j \in BuiltAndLoaded} |-> Owned(gr)]
=============================================================================
