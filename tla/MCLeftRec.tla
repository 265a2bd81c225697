----------------------------- MODULE MCLeftRec ------------------------------
(***************************************************************************)
(* Left-recursive grammars, as ParserGenerator loads them from a text,     *)
(* which detects the left recursion: direct, indirect and mutual, below    *)
(* rules that are memoized and between alternatives that share a prefix.   *)
(* And left recursion that no analysis has marked, which only the re-entry *)
(* guards end: these grammars put together from combinators, for which no  *)
(* analysis is run, and, with and without packrat parsing, texts whose     *)
(* recursion DetectLeftRecursion does not see, behind a cut or an empty    *)
(* alternative.  With packrat parsing a left-recursive grammar that is put *)
(* together from combinators does not come to be parsed (see WalksEnd).    *)
(***************************************************************************)
EXTENDS ParseProps, GrammarAnalysis

L(text) == Lit(<<text>>)
Valued(e) == [Rule(e) EXCEPT !.action = TRUE]

\* E <- E '+' T / T          T <- 'a' / 'x' E 'y'
Sums == Grammar(
  "E" :> Valued(Cho(<<Seqn(<<Ref("E"), L("+"), Ref("T")>>), Ref("T")>>)) @@
  "T" :> Valued(Cho(<<L("a"), Seqn(<<L("x"), Ref("E"), L("y")>>)>>)), "E", NoNode, {})

\* S <- A 'x' / B 'y' / A     A <- B 'x' / 'a'      B <- A 'y' / 'b'
Mutual == Grammar(
  "S" :> Valued(Cho(<<Seqn(<<Ref("A"), L("x")>>), Seqn(<<Ref("B"), L("y")>>), Ref("A")>>)) @@
  "A" :> Valued(Cho(<<Seqn(<<Ref("B"), L("x")>>), L("a")>>)) @@
  "B" :> Valued(Cho(<<Seqn(<<Ref("A"), L("y")>>), L("b")>>)), "S", NoNode, {})

\* S <- E 'x' / E 'y'        E <- E 'a' / F         F <- 'a'
Shared == Grammar(
  "S" :> Valued(Cho(<<Seqn(<<Ref("E"), L("x")>>), Seqn(<<Ref("E"), L("y")>>)>>)) @@
  "E" :> Valued(Cho(<<Seqn(<<Ref("E"), L("a")>>), Ref("F")>>)) @@
  "F" :> Valued(L("a")), "S", NoNode, {})

\* E <- T '+' E / T     T <- 'b'? T 'a' / 'a'
Nullable == Grammar(
  "E" :> Valued(Cho(<<Seqn(<<Ref("T"), L("+"), Ref("E")>>), Ref("T")>>)) @@
  "T" :> Rule(Cho(<<Seqn(<<Opt(L("b")), Ref("T"), L("a")>>), L("a")>>)), "E", NoNode, {})

\* E <- E '+' E / <'a'>      with blanks, and no value observed
Double == Grammar(
  "E" :> Rule(Cho(<<Seqn(<<Ref("E"), L("+"), Ref("E")>>), Tok(L("a"))>>)),
  "E", Zom(Chr({" "})), {})

\* E <- E '+' T / T      T <- T 'x' F / F      F <- 'a'
Levels == Grammar(
  "E" :> Valued(Cho(<<Seqn(<<Ref("E"), L("+"), Ref("T")>>), Ref("T")>>)) @@
  "T" :> Valued(Cho(<<Seqn(<<Ref("T"), L("x"), Ref("F")>>), Ref("F")>>)) @@
  "F" :> Rule(L("a")), "E", NoNode, {})

Raw == [sums |-> Sums, mutual |-> Mutual, shared |-> Shared, nullable |-> Nullable,
        double |-> Double, levels |-> Levels]
Alphabet == [sums |-> {"a", "+", "x", "y"}, mutual |-> {"a", "b", "x", "y"},
             shared |-> {"a", "x", "y"}, nullable |-> {"a", "b", "+"},
             double |-> {"a", "+", " "}, levels |-> {"a", "+", "x"}]

MCBytes == {"a", "b", "x", "y", "+", " "}
CONSTANT MaxInput

LoadedJobs ==
  UNION {[grammar : {Loaded(Raw[r])}, packrat : BOOLEAN, log : {FALSE},
          input : BoundedSeq(Alphabet[r], MaxInput)] : r \in DOMAIN Raw}

----------------------------------------------------------------------------
\* S <- ('' / 'x') S 'a' / A 'x' / A      A <- ↑ A 'a' / 'a'
Hidden == Grammar(
  "A" :> Valued(Cho(<<Seqn(<<Cut, Ref("A"), L("a")>>), L("a")>>)) @@
  "S" :> Valued(Cho(<<Seqn(<<Cho(<<Lit(<<>>), L("x")>>), Ref("S"), L("a")>>),
                      Seqn(<<Ref("A"), L("x")>>), Ref("A")>>)), "S", NoNode, {})

\* A <- &('a' A?) A 'a' / 'a', in which a call further on returns before the
\* call that must be refused; and with ('' / 'x') before that call.
Ahead(hiding) == Grammar(
  "A" :> Valued(Cho(<<Seqn(<<And(Seqn(<<L("a"), Opt(Ref("A"))>>))>> \o hiding \o <<Ref("A"), L("a")>>),
                      L("a")>>)), "A", NoNode, {})
MayBeX == <<Cho(<<Lit(<<>>), L("x")>>)>>

BuiltJobs ==
  UNION {[grammar : {Built(Raw[r])}, packrat : PackratBuilt(Raw[r]), log : {FALSE},
          input : BoundedSeq(Alphabet[r], MaxInput)] : r \in DOMAIN Raw}
  \cup [grammar : {Loaded(Hidden), Loaded(Ahead(MayBeX))}, packrat : BOOLEAN, log : {FALSE},
        input : BoundedSeq({"a", "x"}, MaxInput)]
  \cup [grammar : {Built(Ahead(<<>>))}, packrat : PackratBuilt(Ahead(<<>>)), log : {FALSE},
        input : BoundedSeq({"a", "x"}, MaxInput)]
AllJobs == LoadedJobs \cup BuiltJobs
AllNodes == [gr \in {j.grammar : j \in AllJobs} |-> Owned(gr)]

(* A grammar whose left recursion the loader has detected is parsed as it  *)
(* says: the result is the denotation's, through every round of growing.   *)
DetectedIsPEG == job \in LoadedJobs => ResultIsPEG
=============================================================================
