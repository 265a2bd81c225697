--------------------------- MODULE PegDerivation ----------------------------
(***************************************************************************)
(* What parsing expressions match, as inference rules: the results of an   *)
(* expression are those in every set closed under the rules.  The rules    *)
(* know no stack, no memo, no rollback and no first set and, unlike the    *)
(* denotation of PegSemantics, no recursion.                               *)
(*                                                                         *)
(* A language L is a grammar, its operators and an input: the record       *)
(* [grammar, own, input].  The rules are those of the operators without    *)
(* cuts, recovery, back references and left recursion; captures are        *)
(* transparent.                                                            *)
(***************************************************************************)
EXTENDS PegGrammar

(* Where an expression is: inside a token boundary, inside whitespace.     *)
(* Without whitespace to skip there is no difference.                      *)
Env(token, space)   == [token |-> token, space |-> space]
Outermost           == Env(FALSE, FALSE)
Environments(L)     == IF L.grammar.whitespace = NoNode THEN {Outermost}
                       ELSE [token : BOOLEAN, space : BOOLEAN]
InToken(L, env)     == IF L.grammar.whitespace = NoNode THEN env ELSE Env(TRUE, env.space)
InSpace(L, env)     == IF L.grammar.whitespace = NoNode THEN env ELSE Env(env.token, TRUE)

PlacesOf(L)   == 0 .. Len(L.input)
LengthsOf(L)  == PlacesOf(L) \cup {Fail}
Judgements(L) == L.own \X PlacesOf(L) \X Environments(L) \X LengthsOf(L)
Partials(L)   == L.own \X PlacesOf(L) \X Environments(L) \X Nat \X PlacesOf(L)

Plus(m, w) == IF Fail \in {m, w} THEN Fail ELSE m + w

----------------------------------------------------------------------------
(* R: the results so far.  <<e, p, env, m>>: e at p gives m.               *)
(* S: <<e, p, env, k, i>>: the first k operands of a sequence e, or k      *)
(* matches of a repetition e, come to i.                                   *)

(* A match of b at p comes to m with the whitespace after it.              *)
Trailed(L, R, p, env, b, m) ==
  IF b = Fail \/ env.token \/ L.grammar.whitespace = NoNode THEN m = b
  ELSE \E w \in LengthsOf(L) : <<L.grammar.whitespace, p + b, env, w>> \in R /\ m = Plus(b, w)

(* The operators without operands.                                         *)
ChrGives(L, e, p, m) == m = IF p < Len(L.input) /\ L.input[p + 1] \in e.set THEN 1 ELSE Fail
LitGives(L, R, e, p, env, m) ==
  Trailed(L, R, p, env, IF StandsAt(e.text, p, L.input, L.grammar.word) THEN Len(e.text) ELSE Fail, m)

(* An alternative is the choice's if those before it fail.                 *)
FailsBefore(R, e, p, env, k) == \A j \in 1 .. k - 1 : <<e.kids[j], p, env, Fail>> \in R
ChoGives(R, e, p, env, m) ==
  IF m = Fail THEN \A k \in 1 .. Len(e.kids) : <<e.kids[k], p, env, Fail>> \in R
  ELSE \E k \in 1 .. Len(e.kids) : FailsBefore(R, e, p, env, k) /\ <<e.kids[k], p, env, m>> \in R

(* The operators of one operand but repetition.                            *)
Turned(op, n) ==
  IF op = "and" THEN (IF n = Fail THEN Fail ELSE 0)
  ELSE IF op = "not" THEN (IF n = Fail THEN 0 ELSE Fail) ELSE n
OneGives(L, R, e, p, env, m) ==
  \E n \in LengthsOf(L) : <<e.kid, p, env, n>> \in R /\ m = Turned(e.op, n)
TokGives(L, R, e, p, env, m) ==
  \E b \in LengthsOf(L) : <<e.kid, p, InToken(L, env), b>> \in R /\ Trailed(L, R, p, env, b, m)
WspGives(L, R, e, p, env, m) ==           \* whitespace in whitespace is empty
  IF env.space THEN m = 0 ELSE <<e.kid, p, InSpace(L, env), m>> \in R

(* A rule: its body, the whitespace after it if it has the no_whitespace   *)
(* instruction, its predicate.                                             *)
Accepted(L, r, p, n) == IF n # Fail /\ SubSeq(L.input, p + 1, p + n) \in r.rejected THEN Fail ELSE n
RefGives(L, R, e, p, env, m) ==
  LET r == L.grammar.rules[e.name] IN
  \E b, n \in LengthsOf(L) :
    /\ IF r.no_whitespace THEN /\ <<r.body, p, InToken(L, env), b>> \in R
                               /\ Trailed(L, R, p, env, b, n)
                          ELSE <<r.body, p, env, b>> \in R /\ n = b
    /\ m = Accepted(L, r, p, n)

(* A sequence goes on to its next operand, a repetition to its next match. *)
GoesOn(e, k)  == IF e.op = "seq" THEN k < Len(e.kids) ELSE e.max = Inf \/ k < e.max
NextKid(e, k) == IF e.op = "seq" THEN e.kids[k + 1] ELSE e.kid
ManyGives(R, S, e, p, env, m) ==
  \E k \in Nat, i \in Nat :
    /\ <<e, p, env, k, i>> \in S
    /\ IF GoesOn(e, k) THEN /\ <<NextKid(e, k), p + i, env, Fail>> \in R
                            /\ m = IF e.op = "rep" /\ k >= e.min THEN i ELSE Fail
                       ELSE m = i

Gives(L, R, S, e, p, env, m) ==
  \/ e.op = "chr" /\ ChrGives(L, e, p, m)
  \/ e.op = "lit" /\ LitGives(L, R, e, p, env, m)
  \/ e.op = "cho" /\ ChoGives(R, e, p, env, m)
  \/ e.op \in {"and", "not", "cap", "csc", "ign"} /\ OneGives(L, R, e, p, env, m)
  \/ e.op = "tok" /\ TokGives(L, R, e, p, env, m)
  \/ e.op = "wsp" /\ WspGives(L, R, e, p, env, m)
  \/ e.op = "ref" /\ RefGives(L, R, e, p, env, m)
  \/ e.op \in {"seq", "rep"} /\ ManyGives(R, S, e, p, env, m)

ComesTo(R, S, e, p, env, k, i) ==
  /\ e.op \in {"seq", "rep"}
  /\ \/ k = 0 /\ i = 0
     \/ \E j, n \in Nat :
          /\ k # 0 /\ <<e, p, env, k - 1, j>> \in S /\ GoesOn(e, k - 1)
          /\ <<NextKid(e, k - 1), p + j, env, n>> \in R /\ i = j + n

Closed(L, R, S) ==
  /\ \A e \in L.own, p \in PlacesOf(L), env \in Environments(L), m \in LengthsOf(L) :
       Gives(L, R, S, e, p, env, m) => <<e, p, env, m>> \in R
  /\ \A e \in L.own, p \in PlacesOf(L), env \in Environments(L), k \in Nat, i \in PlacesOf(L) :
       ComesTo(R, S, e, p, env, k, i) => <<e, p, env, k, i>> \in S

----------------------------------------------------------------------------
(* What is derived is in all of them.                                      *)
Derived(L) == {q \in Judgements(L) : \A R, S : Closed(L, R, S) => q \in R}
Passed(L) == {q \in Partials(L) : \A R, S : Closed(L, R, S) => q \in S}

Derives(L, e, p, env, m)    == <<e, p, env, m>> \in Derived(L)
Reaches(L, e, p, env, k, i) == <<e, p, env, k, i>> \in Passed(L)
=============================================================================
