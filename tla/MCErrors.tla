------------------------------ MODULE MCErrors ------------------------------
(***************************************************************************)
(* The grammars of MCParse, and others that are parsed with a log, for     *)
(* what it is told; and the analysis that PegAnalysis asks for, worked out *)
(* for a grammar: the least sets that are closed under its operators, and  *)
(* the longest chains of calls in one place.                               *)
(***************************************************************************)
EXTENDS MCParse, PegAnalysis

\* The grammar, and an input with every character in it.
LanguageOf(gr) == [grammar |-> gr, own |-> Owned(gr), input |-> SetToSeq(Bytes)]

RECURSIVE VanishingIn(_, _)
VanishingIn(L, N) ==
  LET next == {e \in L.own : MayVanish(L, N, e)} IN IF next = N THEN N ELSE VanishingIn(L, next)

LedBy(L, N, e) == {d \in L.own : Leads(L, N, e, d)}

RECURSIVE StartsIn(_, _, _)
StartsIn(L, N, F) ==
  LET starts(e) == CASE e.op = "chr" -> e.set
                     [] e.op = "lit" /\ e.text # <<>> -> {Head(e.text)}
                     [] e.op \in {"and", "not"} -> {}
                     [] OTHER -> UNION {F[d] : d \in LedBy(L, N, e)}
      next == [e \in L.own |-> starts(e)]
  IN IF next = F THEN F ELSE StartsIn(L, N, next)

RECURSIVE RankIn(_, _, _)
RankIn(L, N, e) == Max({0} \cup {RankIn(L, N, d) + 1 : d \in LedBy(L, N, e)})

\* The operators and environments that those in A call.
CalledIn(L, e, env) ==
  {<<e.kid, InKid(L, e, env)>> : u \in {e.op} \cap Unary}
  \cup {<<e.kids[k], env>> : k \in IF e.op \in {"seq", "cho"} THEN DOMAIN e.kids ELSE {}}
  \cup {<<RuleOf(L, e).body, InBody(L, RuleOf(L, e), env)>> : u \in {e.op} \cap {"ref"}}
  \cup {<<L.grammar.whitespace, env>> :
          u \in {e.op} \cap (IF ~Spaces(L) \/ env.token THEN {} ELSE {"lit", "tok", "ref"})}

RECURSIVE Calling(_, _)
Calling(L, A) ==
  LET next == A \cup UNION {CalledIn(L, q[1], q[2]) : q \in A}
  IN IF next = A THEN A ELSE Calling(L, next)

EnvironmentsIn(L) ==
  LET roots == {Ref(L.grammar.start), L.grammar.whitespace} \cap L.own
      called == Calling(L, roots \X {Outermost})
  IN [e \in L.own |-> {env \in Environments(L) : <<e, env>> \in called}]

\* The operators that record no failure but that of a literal.
RECURSIVE QuietIn(_, _)
QuietIn(L, W) ==
  LET next == {e \in W : OnlyLiterals(W, e)} IN IF next = W THEN W ELSE QuietIn(L, next)

(* It is one, for a grammar that has one.                                  *)
HasAnalysis(gr) ==
  LET L  == LanguageOf(gr)
      N  == VanishingIn(L, {})
      F  == StartsIn(L, N, [e \in L.own |-> {}])
      at == EnvironmentsIn(L)
  IN /\ ClassicalIn(L) /\ Analysis(L, N, F, [e \in L.own |-> RankIn(L, N, e)])
     /\ SpreadsIn(L, at) /\ OneEnvironment(L, at)

----------------------------------------------------------------------------
Told(e) == [Rule(e) EXCEPT !.error_message = TRUE]

\* Alternatives that share a prefix, a token, a longer literal.
Alternatives == Grammar(
  "S" :> Rule(Cho(<<Seqn(<<Ref("A"), x>>), Seqn(<<Ref("A"), Lit(<<"b", "b">>)>>), Seqn(<<a, Ref("T")>>)>>)) @@
  "A" :> Rule(Seqn(<<a, Opt(Ref("A"))>>)) @@
  "T" :> Rule(Tok(Seqn(<<x, Chr({"b"})>>))), "S", NoNode, {})

\* Words, whitespace that fails further on, a predicate.
LoggedWords == Grammar(
  "S" :> Rule(Seqn(<<Not(Seqn(<<a, b>>)), Oom(Ref("W"))>>)) @@
  "W" :> Rule(Cho(<<a, Tok(Oom(Chr({"a", "b"})))>>)), "S",
  Zom(Cho(<<Chr({" "}), Lit(<<"x", "x">>)>>)), {"a", "b"})

\* Two labels, one with a message, recovered in a repetition.
Labels == Grammar(
  "S" :> Rule(Oom(Cho(<<Seqn(<<Ref("A"), Labelled(x, "l")>>), Seqn(<<b, Labelled(x, "m")>>)>>))) @@
  "A" :> Rule(a) @@
  "l" :> Told(Zom(Chr({"b"}))) @@
  "m" :> Rule(Seqn(<<b, a, Zom(AnyByte)>>)), "S", NoNode, {})

\* A predicate and a rule with messages, a back reference to no capture.
Messages == Grammar(
  "S" :> Rule(Cho(<<Seqn(<<Opt(Cap("c", Ref("P"))), x, Back("c")>>), Seqn(<<Ref("R"), Ref("P")>>)>>)) @@
  "P" :> [Rule(Chr({"a", "b"})) EXCEPT !.rejected = {<<"b">>}, !.predicate_message = TRUE] @@
  "R" :> Told(Seqn(<<a, b>>)), "S", NoNode, {})

\* E <- E 'b' T / T          T <- [ax]
Sums == Grammar(
  "E" :> Rule(Cho(<<Seqn(<<Ref("E"), b, Ref("T")>>), Ref("T")>>)) @@
  "T" :> Rule(Chr({"a", "x"})), "E", NoNode, {})

\* The grammars of the theorems on what a parse returns: each without left
\* recursion, cuts, recovery and back references has an analysis.
Analysable == {Prefix, Nest, Tokens, Words, Strict, Alternatives, LoggedWords}
ASSUME AnalysableAssumption ==
  \A raw \in Analysable : HasAnalysis(Built(raw)) /\ HasAnalysis(Loaded(raw))

Logged == [choices |-> Alternatives, words |-> LoggedWords, labels |-> Labels,
           messages |-> Messages, growing |-> Sums]

\* Those of the theorems on what it records: all of them name only what is
\* absent, and a failure of the former tells why, except in Tokens.
ASSUME NamingAssumption ==
  /\ \A raw \in {Raw[r] : r \in DOMAIN Raw} \cup {Logged[r] : r \in DOMAIN Logged} :
       LET L == LanguageOf(Loaded(raw)) IN NamesLiterals(L, QuietIn(L, L.own))
  /\ \A raw \in Analysable \ {Tokens} : Tells(LanguageOf(Loaded(raw)))
LoggedAlphabet(r) == IF r = "words" THEN {"a", "b", "x", " "} ELSE {"a", "b", "x"}

LoggedJobs ==
  LET jobs(r, grammars, packrats) ==
        [grammar : grammars, packrat : packrats, log : {TRUE}, input : BoundedSeq(LoggedAlphabet(r), MaxInput)]
  IN UNION {jobs(r, {Loaded(Logged[r])}, BOOLEAN) : r \in DOMAIN Logged}
     \cup UNION {jobs(r, {Built(Logged[r])}, PackratBuilt(Logged[r])) :
                   r \in {r \in DOMAIN Logged \ {"growing"} : CanBeBuilt(Logged[r])}}
AllJobs == BuiltAndLoaded \cup LoggedJobs
AllNodes == [gr \in {j.grammar : j \in AllJobs} |-> Owned(gr)]
=============================================================================
