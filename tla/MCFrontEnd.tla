----------------------------- MODULE MCFrontEnd -----------------------------
(***************************************************************************)
(* Grammar texts: some that use what a text can have, good and bad, and a  *)
(* family of repetitions of what may match nothing.                        *)
(***************************************************************************)
EXTENDS FrontEndProps

a == Lit(<<"a">>)
b == Lit(<<"b">>)
S == Ref("S")
R == Ref("R")
Empty == Lit(<<>>)

Plain(definitions) == Text(definitions, {}, NoName, TRUE)
With(def, types) == [def EXCEPT !.instructions = types]

\* S <- R 'a' / R 'b' R / L    R <- T    T <- [ab]    L <- L 'a' / T 'b'
Shared == <<Def("S", Cho(<<Seqn(<<R, a>>), Seqn(<<R, b, R>>), Ref("L")>>)), Def("R", Ref("T")),
            Def("T", Chr({"a", "b"})), Def("L", Cho(<<Seqn(<<Ref("L"), a>>), Seqn(<<Ref("T"), b>>)>>))>>

Spaces == Def("%whitespace", Zom(Chr({" "})))
Words == Def("%word", Oom(Chr({"a", "b"})))
Info == ("a" :> <<1, "L">>) @@ ("b" :> <<2, "R">>)
ListOf(tail) == Seqn(<<R, Zom(Seqn(<<Ref("O"), R>>))>> \o tail)
Precedence(tail) == With(Def("E", ListOf(tail)), <<Instruction("precedence", Info)>>)

\* S <- <R> ~T^R 'b'?    and what goes with it
Marked == <<Def("S", Seqn(<<Tok(R), Labelled(Ign(Ref("T")), "R"), Opt(b)>>)),
            With(Def("R", a), <<Instruction("no_whitespace", "")>>),
            [With(Def("T", Cho(<<b, a>>)), <<Instruction("error_message", "")>>) EXCEPT !.ignore = TRUE]>>

Captures(e) == <<Def("S", Seqn(<<R, e>>)), Def("R", Seqn(<<Cap("c", a), Csc(Cap("d", b)), Back("c")>>))>>

\* S <- R 'a' / R 'b' / R with a rule R whose back reference is sure to find
\* what R has captured, comes before that or is in another rule, finds it on
\* one way only, or finds what Q captures later.
AnyOf == Chr({"a", "b"})
CaptureTexts ==
  {Plain(<<Def("S", Cho(<<Seqn(<<R, a>>), Seqn(<<R, b>>), R>>)), Def("R", body), Def("Q", Cap("c", Opt(AnyOf)))>>) :
     body \in {Seqn(<<Cap("c", AnyOf), Back("c")>>), Seqn(<<Cho(<<Cap("c", a), Cap("c", b)>>), Back("c")>>),
               Seqn(<<Oom(Cap("c", a)), Opt(b), Back("c")>>), Seqn(<<Cap("c", a), Csc(Cap("d", b)), Back("c")>>),
               Seqn(<<Opt(Back("c")), Cap("c", AnyOf)>>), Seqn(<<Ref("Q"), Back("c")>>),
               Cho(<<Seqn(<<Cap("c", a), a>>), Back("c"), b>>), Seqn(<<Cap("c", a), Ref("Q"), Back("c")>>)}}
  \cup {Plain(<<Def("S", Seqn(<<Cap("c", a), R>>)), Def("R", Cho(<<Back("c"), b>>))>>)}

ObjectTexts ==
  {Plain(Shared), Plain(Shared \o <<Spaces, Words>>), Plain(Marked), Plain(Marked \o <<Spaces>>),
   Plain(<<Spaces, Def("S", Cho(<<Ref("E"), Ref("O")>>)), Precedence(<<>>), Def("R", a),
           Def("O", Chr({"a", "b"}))>>),
   Plain(<<Precedence(<<b>>), Def("R", a), Def("O", b)>>),
   Plain(<<Precedence(<<>>), Def("R", a)>>),
   Plain(<<With(Def("S", Seqn(<<R, Zom(R)>>)), <<Instruction("precedence", Info)>>), Def("R", a)>>),
   Plain(Captures(Back("c"))), Plain(Captures(Back("d"))), Plain(Captures(And(R))),
   Text(Reverse(Captures(Back("c"))), {}, "S", TRUE),
   Plain(<<Def("S", a), Def("S", b)>>), Plain(<<Def("S", a), Def("R", Seqn(<<b, Labelled(b, "L")>>))>>),
   Plain(<<With(Def("S", a), <<Instruction("no_whitespace", ""), Instruction("no_whitespace", "")>>)>>)}
  \cup {Text(Shared, provided, requested, recursive) :
          provided \in {{Provided("T", TRUE, Cho(<<a, Ref("U")>>)), Provided("U", FALSE, b)},
                        {Provided("T", FALSE, Ref("V"))}, {Provided("S", TRUE, R)}, {Provided("", TRUE, a)}},
          requested \in {NoName, "R", "U"}, recursive \in BOOLEAN}

\* Operands that may match nothing, in places where that matters.
Operands == {a, Empty, Opt(a), Oom(a), Zom(a), R, S, And(a), Not(b), Cut}
Elements == Operands \cup {Seqn(<<x, y>>) : x, y \in Operands} \cup {Cho(<<x, y>>) : x, y \in Operands}
Bodies(x) == {Seqn(<<Zom(x), b>>), Seqn(<<a, Oom(x)>>), Rep(x, 1, 3)}
LoopTexts ==
  {Plain(<<Def("S", body), Def("R", Opt(b))>>) : body \in UNION {Bodies(x) : x \in Elements}}

MCBytes == {"a", "b", " "}
MCInputs == BoundedSeq({"a", "b"}, 2)
MCTexts == ObjectTexts \cup CaptureTexts \cup LoopTexts

\* S <- R 'a' / R 'b'    R <- T    T <- 'a'
StartRuleTexts ==
  {Plain(<<Def("S", Cho(<<Seqn(<<R, a>>), Seqn(<<R, b>>)>>)), Def("R", Ref("T")), Def("T", a)>>)}

\* S <- (('a'*)* 'b')*    S <- 'b' ('a' / CUT)* 'b'    S <- 'a' S* / ''
EndlessTexts ==
  {Plain(<<Def("S", body)>>) :
     body \in {Zom(Seqn(<<Zom(Zom(a)), b>>)), Seqn(<<b, Zom(Cho(<<a, Cut>>)), b>>),
               Cho(<<Seqn(<<a, Zom(S)>>), Empty>>)}}
=============================================================================
