-------------------------- MODULE MCDisagreements ---------------------------
(***************************************************************************)
(* Small grammars on which the parser does not do what the repository says *)
(* of it.  Subject, given in the .cfg, is the grammar to parse with.       *)
(***************************************************************************)
EXTENDS ParseProps, GrammarAnalysis

L(text) == Lit(<<text>>)

\* S <- <A> 'x' / A 'y'      A <- 'a'      %whitespace <- [ ]*
Blanked == Grammar(
  "S" :> Rule(Cho(<<Seqn(<<Tok(Ref("A")), L("x")>>), Seqn(<<Ref("A"), L("y")>>)>>)) @@
  "A" :> Rule(L("a")), "S", Zom(Chr({" "})), {})

\* A <- &A C / 'a'           C <- A 'b'
Seeds == Grammar(
  "A" :> Rule(Cho(<<Seqn(<<And(Ref("A")), Ref("C")>>), L("a")>>)) @@
  "C" :> Rule(Seqn(<<Ref("A"), L("b")>>)), "A", NoNode, {})

\* S <- B 'x' / 'q'          B <- B 'c' / ''
Filtered == Grammar(
  "S" :> Rule(Cho(<<Seqn(<<Ref("B"), L("x")>>), L("q")>>)) @@
  "B" :> Rule(Cho(<<Seqn(<<Ref("B"), L("c")>>), Lit(<<>>)>>)), "S", NoNode, {})

\* E <- E 'b' T / T          T <- 'a' / 'x' E 'y'
Unnamed == Grammar(
  "E" :> Rule(Cho(<<Seqn(<<Ref("E"), L("b"), Ref("T")>>), Ref("T")>>)) @@
  "T" :> Rule(Cho(<<L("a"), Seqn(<<L("x"), Ref("E"), L("y")>>)>>)), "E", NoNode, {})

Raw == [tokens |-> Blanked, growing |-> Seeds, filtered |-> Filtered, unnamed |-> Unnamed]
Alphabet == [tokens |-> {"a", "x", "y", " "}, growing |-> {"a", "b"}, filtered |-> {"c", "x", "q"},
             unnamed |-> {"a", "b", "x", "y"}]

MCBytes == {"a", "b", "c", "q", "x", "y", " "}
CONSTANTS Subject, MaxInput

SubjectJobs == [grammar : {Loaded(Raw[Subject])}, packrat : BOOLEAN, log : {Subject = "unnamed"},
                input : BoundedSeq(Alphabet[Subject], MaxInput)]
MCJobs == SubjectJobs
MCNodes == [gr \in {j.grammar : j \in SubjectJobs} |-> Owned(gr)]
=============================================================================
