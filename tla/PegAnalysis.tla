---------------------------- MODULE PegAnalysis -----------------------------
(***************************************************************************)
(* What a grammar must be like for its parses to be derivations, in terms  *)
(* of its operators alone: which of them may match nothing, what they      *)
(* start with, which of them call each other where they are.  The analyses *)
(* of GrammarAnalysis compute such things; here they are any sets and      *)
(* functions that are closed under the operators.                          *)
(***************************************************************************)
EXTENDS PegDerivation

Spaces(L)    == L.grammar.whitespace # NoNode
RuleOf(L, e) == L.grammar.rules[e.name]

(* What a well-formed grammar and its input are made of.                   *)
Formed(L) ==
  /\ Len(L.input) \in Nat
  /\ Spaces(L) => L.grammar.whitespace \in L.own
  /\ \A e \in L.own :
       /\ e.op \in {"seq", "cho"} =>
            Len(e.kids) \in Nat /\ \A k \in 1 .. Len(e.kids) : e.kids[k] \in L.own
       /\ e.op \in Unary => e.kid \in L.own
       /\ e.op = "rep" => e.min \in Nat /\ e.max \in Nat \cup {Inf}
       /\ e.op = "lit" => Len(e.text) \in Nat /\ (e.text = <<>> <=> Len(e.text) = 0)
       /\ e.op = "ref" => RuleOf(L, e).body \in L.own

(* The operators are those with a rule of inference, built as the          *)
(* factories and SetupFirstSets build them; no rule is marked as left      *)
(* recursive.                                                              *)
ClassicalOps == {"chr", "lit", "seq", "cho", "rep", "and", "not", "cap", "csc", "tok", "ign",
                 "wsp", "ref"}
ClassicalIn(L) ==
  /\ \A r \in DOMAIN L.grammar.rules : ~L.grammar.rules[r].is_left_recursive
  /\ \A e \in L.own :
       /\ e.op \in ClassicalOps
       /\ e.op = "ref" => e = Ref(e.name)
       /\ e.op = "wsp" => Spaces(L)
       /\ e.op = "rep" => (e.max = Inf \/ e.min <= e.max) /\ (e.span => e.kid.op = "chr")

----------------------------------------------------------------------------
(* The environments in which an operator may be called: at[e] has those of *)
(* the start, and each operator passes its own on to its operands and to   *)
(* the whitespace after it.                                                *)
InKid(L, e, env) ==
  IF e.op = "tok" THEN InToken(L, env) ELSE IF e.op = "wsp" THEN InSpace(L, env) ELSE env
InBody(L, r, env) == IF r.no_whitespace THEN InToken(L, env) ELSE env

SpreadsIn(L, at) ==
  /\ at \in [L.own -> SUBSET Environments(L)]
  /\ Outermost \in at[Ref(L.grammar.start)] /\ (Spaces(L) => Outermost \in at[L.grammar.whitespace])
  /\ \A e \in L.own : \A env \in at[e] :
       /\ e.op \in Unary => InKid(L, e, env) \in at[e.kid]
       /\ e.op \in {"seq", "cho"} => \A k \in 1 .. Len(e.kids) : env \in at[e.kids[k]]
       /\ e.op = "ref" => InBody(L, RuleOf(L, e), env) \in at[RuleOf(L, e).body]
       /\ Spaces(L) /\ ~env.token
            /\ (e.op \in {"lit", "tok"} \/ (e.op = "ref" /\ RuleOf(L, e).no_whitespace))
          => env \in at[L.grammar.whitespace]

(* A rule with a slot for its memos is called in one environment only.     *)
OneEnvironment(L, at) ==
  \A e \in L.own : e.op = "ref" /\ RuleOf(L, e).cached => \A env, other \in at[e] : env = other

----------------------------------------------------------------------------
(* N: the operators that may match nothing.                                *)
MayVanish(L, N, e) ==
  \/ e.op \in {"and", "not", "wsp"}
  \/ e.op = "lit" /\ e.text = <<>>
  \/ e.op = "seq" /\ \A k \in 1 .. Len(e.kids) : e.kids[k] \in N
  \/ e.op = "cho" /\ \E k \in 1 .. Len(e.kids) : e.kids[k] \in N
  \/ e.op = "rep" /\ (e.min = 0 \/ e.kid \in N)
  \/ e.op \in {"cap", "csc", "ign", "tok"} /\ e.kid \in N
  \/ e.op = "ref" /\ RuleOf(L, e).body \in N
Vanishing(L, N) == \A e \in L.own : MayVanish(L, N, e) => e \in N

(* e may call d where it was called itself: d comes after what may match   *)
(* nothing.                                                                *)
SpaceLeads(L, N, e) ==
  \/ e.op = "lit" /\ e.text = <<>>
  \/ e.op = "tok" /\ e.kid \in N
  \/ e.op = "ref" /\ RuleOf(L, e).no_whitespace /\ RuleOf(L, e).body \in N
Leads(L, N, e, d) ==
  \/ e.op \in Unary /\ d = e.kid
  \/ e.op = "cho" /\ \E k \in 1 .. Len(e.kids) : d = e.kids[k]
  \/ e.op = "seq" /\ \E k \in 1 .. Len(e.kids) : /\ d = e.kids[k]
                                                /\ \A j \in 1 .. k - 1 : e.kids[j] \in N
  \/ e.op = "ref" /\ d = RuleOf(L, e).body
  \/ Spaces(L) /\ SpaceLeads(L, N, e) /\ d = L.grammar.whitespace

(* No left recursion: what an operator may call where it is ranks below    *)
(* it.                                                                     *)
Ranked(L, N, rank) ==
  /\ rank \in [L.own -> Nat]
  /\ \A e, d \in L.own : Leads(L, N, e, d) => rank[d] < rank[e]

(* No endless repetition of what may match nothing.                        *)
Ending(L, N) == \A e \in L.own : e.op = "rep" /\ e.max = Inf => e.kid \notin N

(* F[e]: the characters that a match of e may start with.                  *)
Starting(L, N, F) ==
  \A e \in L.own :
    /\ e.op = "chr" => e.set \subseteq F[e]
    /\ e.op = "lit" /\ e.text # <<>> => e.text[1] \in F[e]
    /\ e.op \notin {"and", "not"} => \A d \in L.own : Leads(L, N, e, d) => F[d] \subseteq F[e]

(* What the first set of an alternative rules out cannot start it.         *)
RulesOut(L, N, F) ==
  \A e \in L.own, q \in 1 .. Len(L.input) : e.op = "cho" /\ e.first # <<>> =>
    \A k \in 1 .. Len(e.kids) :
      L.input[q] \notin e.first[k] => e.kids[k] \notin N /\ L.input[q] \notin F[e.kids[k]]

(* The analysis of a language.                                             *)
Analysis(L, N, F, rank) ==
  Vanishing(L, N) /\ Ranked(L, N, rank) /\ Ending(L, N) /\ Starting(L, N, F) /\ RulesOut(L, N, F)

----------------------------------------------------------------------------
(* What an error says of the grammar.                                      *)

(* W: operators of which none but the literals records a failure.          *)
OnlyLiterals(W, e) ==
  \/ e.op = "lit"
  \/ e.op \in {"tok", "ign", "wsp"} /\ e.kid \in W
  \/ e.op = "rep" /\ e.span /\ e.min = 0

(* A literal stands for a rule or an alternative in an error only where it *)
(* is what is missing: a rule that has such a token is made of it, its     *)
(* whitespace included, and an alternative starts with it.                 *)
NamesLiterals(L, W) ==
  /\ W \subseteq L.own /\ \A e \in W : OnlyLiterals(W, e)
  /\ \A r \in DOMAIN L.grammar.rules : L.grammar.rules[r].token # NoText =>
       L.grammar.rules[r].body \in W /\ (Spaces(L) => L.grammar.whitespace \in W)
  /\ \A e \in L.own : e.op = "cho" /\ e.first # <<>> =>
       \A k \in 1 .. Len(e.kids) : e.named[k][1] # NoText =>
         e.named[k][1] \in Seq(STRING) /\ e.named[k][1][1] \in e.first[k]

(* Nothing fails without a word: predicates have messages, and of the      *)
(* alternatives of a choice that are all filtered out one has a name.      *)
Tells(L) ==
  /\ \A r \in DOMAIN L.grammar.rules :
       /\ ~L.grammar.rules[r].is_left_recursive
       /\ L.grammar.rules[r].rejected # {} => L.grammar.rules[r].predicate_message
  /\ \A e \in L.own :
       /\ e.op # "rec"
       /\ e.op = "cho" => Len(e.kids) # 0
       /\ e.op = "cho" /\ e.first # <<>> =>
            \A q \in 1 .. Len(L.input) :
              (\A k \in 1 .. Len(e.kids) : L.input[q] \notin e.first[k])
                => \E k \in 1 .. Len(e.kids) : e.named[k] # <<NoText, NoName>>
=============================================================================
