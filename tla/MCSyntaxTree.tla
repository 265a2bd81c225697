---------------------------- MODULE MCSyntaxTree ----------------------------
(***************************************************************************)
(* Grammars whose trees have chains, exempt rules and renamed nodes, and   *)
(* alternatives that a packrat parse answers from its memo.                *)
(***************************************************************************)
EXTENDS SyntaxTree, GrammarAnalysis

CONSTANT MaxInput

L(c) == Lit(<<c>>)
Comma == Zom(Seqn(<<L(","), Ref("P")>>))

\* S <- P (',' P)*   P <- 'b'? Q   Q <- R R / R / ''   R <- T   T <- < [ab] >
\* with no_ast_opt for some of them, and T's name for Q's nodes or its own.
List(exempt, renamed) ==
  LET rule(r, e) == Node(e, IF r = "Q" THEN renamed ELSE NoName, r \in exempt) IN
  Grammar([S |-> rule("S", Seqn(<<Ref("P"), Comma>>)),
           P |-> rule("P", Seqn(<<Opt(L("b")), Ref("Q")>>)),
           Q |-> rule("Q", Cho(<<Seqn(<<Ref("R"), Ref("R")>>), Ref("R"), Lit(<<>>)>>)),
           R |-> rule("R", Ref("T")),
           T |-> rule("T", Tok(Chr({"a", "b"})))], "S", NoNode, {})

\* S <- A 'x' / &B A ~B? 'y' / A !B 'z'   A <- N   B <- N   N <- < 'a' >
Shared ==
  LET plain(e) == Node(e, NoName, FALSE) IN
  Grammar([S |-> plain(Cho(<<Seqn(<<Ref("A"), L("x")>>),
                             Seqn(<<And(Ref("B")), Ref("A"), Opt(Ign(Ref("B"))), L("y")>>),
                             Seqn(<<Ref("A"), Not(Ref("B")), Opt(L("z"))>>)>>)),
           A |-> plain(Ref("N")), B |-> plain(Ref("N")), N |-> plain(Tok(L("a")))], "S", NoNode, {})

Lists == [grammar : {Loaded(List(exempt, renamed)) : exempt \in SUBSET {"S", "P", "Q", "R"},
                                                     renamed \in {NoName, "T"}},
          packrat : BOOLEAN, input : BoundedSeq({"a", "b", ","}, MaxInput)]
Answered == [grammar : {Loaded(Shared)}, packrat : BOOLEAN,
             input : BoundedSeq({"a", "x", "y", "z"}, MaxInput)]
MCJobs == Lists \cup Answered
MCBytes == {"a", "b", "x", "y", "z", ","}

RECURSIVE Preorder(_)
Preorder(id) == <<id>> \o FlattenSeq([k \in DOMAIN heap[id].nodes |-> Preorder(heap[id].nodes[k])])

(* Optimizing keeps the tokens, and in mode opt_mode the nodes of the rules*)
(* with no_ast_opt, in their order and with their texts; no other node has *)
(* a single kid afterwards.  Otherwise it is only theirs that go.          *)
Tokens(id) == LET ts == SelectSeq(Preorder(id), LAMBDA i : heap[i].is_token)
              IN [k \in DOMAIN ts |-> heap[ts[k]].token]
Exempt(id) == LET es == SelectSeq(Preorder(id), LAMBDA i : heap[i].preserve_position)
              IN [k \in DOMAIN es |-> <<heap[es[k]].name, heap[es[k]].position, heap[es[k]].length>>]
OptimizeKeeps ==
  doing.do = "rest" =>
    \A t \in {t \in held : t.from # NoTree} :
      /\ Tokens(t.root) = Tokens(t.from)
      /\ t.mode => Exempt(t.root) = Exempt(t.from)
      /\ ChainsGone
=============================================================================
