------------------------- MODULE ParseMeaningProofs -------------------------
(***************************************************************************)
(* Proofs that a parse returns what the inference rules derive.            *)
(***************************************************************************)
EXTENDS ParseMeaning, ParseRuleProofs, PegProofs

(* The language of this parse is that of its grammar and its input.        *)
LEMMA HereIs ==
  /\ Here.grammar = g /\ Here.own = Own /\ Here.input = input
  /\ PlacesOf(Here) = Places /\ LengthsOf(Here) = Lengths
  /\ \A env : /\ InToken(Here, env) = IF HasSpace THEN Env(TRUE, env.space) ELSE env
              /\ InSpace(Here, env) = IF HasSpace THEN Env(env.token, TRUE) ELSE env
BY DEF Here, PlacesOf, LengthsOf, Places, Lengths, InToken, InSpace, HasSpace

(* The grammars the theorems are about, in terms of the parse.             *)
LEMMA ClassicalIs ==
  Classical <=>
    /\ \A r \in Names : ~rules[r].is_left_recursive
    /\ \A e \in Own :
         /\ e.op \in ClassicalOps
         /\ e.op = "ref" => e = Ref(e.name)
         /\ e.op = "wsp" => HasSpace
         /\ e.op = "rep" => (e.max = Inf \/ e.min <= e.max) /\ (e.span => e.kid.op = "chr")
BY HereIs DEF Classical, ClassicalIn, Spaces, HasSpace, Names, rules

(* What it is for at to give every operator the environments it may be     *)
(* called in.                                                              *)
LEMMA SpreadsIs ==
  ASSUME NEW at
  PROVE  Spreads(at) <=>
    /\ at \in [Own -> SUBSET Environments(Here)]
    /\ Outermost \in at[Ref(g.start)] /\ (HasSpace => Outermost \in at[g.whitespace])
    /\ \A e \in Own : \A env \in at[e] :
         /\ e.op \in Unary => InKid(Here, e, env) \in at[e.kid]
         /\ e.op \in {"seq", "cho"} => \A k \in 1 .. Len(e.kids) : env \in at[e.kids[k]]
         /\ e.op = "ref" => InBody(Here, rules[e.name], env) \in at[rules[e.name].body]
         /\ HasSpace /\ ~env.token
              /\ (e.op \in {"lit", "tok"} \/ (e.op = "ref" /\ rules[e.name].no_whitespace))
            => env \in at[g.whitespace]
BY HereIs DEF Spreads, SpreadsIn, Spaces, RuleOf, HasSpace, rules

(* What an operator matches is what its rule gives.                        *)
LEMMA GetsIff ==
  ASSUME NEW e \in Own, NEW p \in Places, NEW env \in Environments(Here), NEW m \in Lengths
  PROVE  Gets(e, p, env, m) <=> Gives(Here, Derived(Here), Passed(Here), e, p, env, m)
BY HereIs, DerivesIff DEF Gets

(* How far a sequence or a repetition comes is what its rule gives.        *)
LEMMA ComesIff ==
  ASSUME NEW e \in Own, NEW p \in Places, NEW env \in Environments(Here), NEW k \in Nat,
         NEW i \in Places
  PROVE  ComesFar(e, p, env, k, i) <=> ComesTo(Derived(Here), Passed(Here), e, p, env, k, i)
BY HereIs, ReachesIff DEF ComesFar

(* The types of what is matched.                                           *)
LEMMA GetsTypes ==
  ASSUME NEW e, NEW p, NEW env, NEW m, Gets(e, p, env, m)
  PROVE  e \in Own /\ p \in Places /\ env \in Environments(Here) /\ m \in Lengths
BY HereIs, DerivesTypes DEF Gets

(* The types of how far a sequence or a repetition comes.                  *)
LEMMA ComesTypes ==
  ASSUME NEW e, NEW p, NEW env, NEW k, NEW i, ComesFar(e, p, env, k, i)
  PROVE  e \in Own /\ p \in Places /\ env \in Environments(Here) /\ k \in Nat /\ i \in Places
BY HereIs, ReachesTypes DEF ComesFar

----------------------------------------------------------------------------
(* What each operator matches.                                             *)

(* A match with the whitespace after it, if there is any to skip.          *)
Then(p, env, b, m) == Trailed(Here, Derived(Here), p, env, b, m)

(* Nothing follows a mismatch, a match inside a token, or any match of a   *)
(* grammar without whitespace.                                             *)
LEMMA ThenPlain ==
  ASSUME NEW p, NEW env, NEW b, b = Fail \/ env.token \/ ~HasSpace
  PROVE  Then(p, env, b, b)
BY HereIs DEF Then, Trailed, HasSpace

(* Elsewhere the whitespace follows, and its mismatch is one of the whole. *)
LEMMA ThenSpace ==
  ASSUME NEW p, NEW env, NEW b, b # Fail, ~env.token, HasSpace, NEW w, Gets(g.whitespace, p + b, env, w)
  PROVE  Then(p, env, b, Plus(b, w))
BY HereIs, GetsTypes DEF Then, Trailed, HasSpace, Gets, Derives

(* A character.                                                            *)
LEMMA ChrMatches ==
  ASSUME NEW e \in Own, e.op = "chr", NEW p \in Places, NEW env \in Environments(Here),
         NEW m \in Lengths, m = IF p < Len(input) /\ Byte(p) \in e.set THEN 1 ELSE Fail
  PROVE  Gets(e, p, env, m)
BY GetsIff, HereIs DEF Gives, ChrGives, Byte

(* A literal.                                                              *)
LEMMA LitMatches ==
  ASSUME NEW e \in Own, e.op = "lit", NEW p \in Places, NEW env \in Environments(Here),
         NEW m \in Lengths,
         Then(p, env, IF StandsAt(e.text, p, input, g.word) THEN Len(e.text) ELSE Fail, m)
  PROVE  Gets(e, p, env, m)
BY GetsIff, HereIs DEF Gives, LitGives, Then

(* The first alternatives of a choice that fail, and the one that does not. *)
Fails(e, p, env, k) == \A j \in 1 .. k : Gets(e.kids[j], p, env, Fail)

(* A choice fails where all its alternatives do.                           *)
LEMMA ChoFails ==
  ASSUME NEW e \in Own, e.op = "cho", NEW p \in Places, NEW env \in Environments(Here),
         Fails(e, p, env, Len(e.kids))
  PROVE  Gets(e, p, env, Fail)
BY GetsIff DEF Gives, ChoGives, Fails, Gets, Derives, Lengths

(* It matches what its first alternative that does not fail matches.       *)
LEMMA ChoMatches ==
  ASSUME NEW e \in Own, e.op = "cho", NEW p \in Places, NEW env \in Environments(Here),
         NEW k \in 1 .. Len(e.kids), Fails(e, p, env, k - 1),
         NEW m \in Lengths, m # Fail, Gets(e.kids[k], p, env, m)
  PROVE  Gets(e, p, env, m)
BY GetsIff DEF Gives, ChoGives, FailsBefore, Fails, Gets, Derives

(* Predicates, captures and ignored operators.                             *)
LEMMA OneMatches ==
  ASSUME NEW e \in Own, e.op \in {"and", "not", "cap", "csc", "ign"}, NEW p \in Places,
         NEW env \in Environments(Here), NEW n, Gets(e.kid, p, env, n),
         NEW m \in Lengths, m = Turned(e.op, n)
  PROVE  Gets(e, p, env, m)
BY GetsIff, GetsTypes, HereIs DEF Gives, OneGives, Gets, Derives

(* A token.                                                                *)
LEMMA TokMatches ==
  ASSUME NEW e \in Own, e.op = "tok", NEW p \in Places, NEW env \in Environments(Here),
         NEW b, Gets(e.kid, p, InToken(Here, env), b), NEW m \in Lengths, Then(p, env, b, m)
  PROVE  Gets(e, p, env, m)
BY GetsIff, GetsTypes, HereIs DEF Gives, TokGives, Gets, Derives, Then

(* Whitespace.                                                             *)
LEMMA WspMatches ==
  ASSUME NEW e \in Own, e.op = "wsp", NEW p \in Places, NEW env \in Environments(Here),
         NEW m \in Lengths, IF env.space THEN m = 0 ELSE Gets(e.kid, p, InSpace(Here, env), m)
  PROVE  Gets(e, p, env, m)
BY GetsIff DEF Gives, WspGives, Gets, Derives

(* A rule.                                                                 *)
LEMMA RefMatches ==
  ASSUME NEW e \in Own, e.op = "ref", NEW p \in Places, NEW env \in Environments(Here),
         NEW b, Gets(rules[e.name].body, p, InBody(Here, rules[e.name], env), b), NEW n \in Lengths,
         IF rules[e.name].no_whitespace THEN Then(p, env, b, n) ELSE n = b,
         NEW m \in Lengths, m = Accepted(Here, rules[e.name], p, n)
  PROVE  Gets(e, p, env, m)
<1> DEFINE r == rules[e.name]
<1>1. Here.grammar.rules[e.name] = r /\ b \in LengthsOf(Here) /\ n \in LengthsOf(Here)
  BY HereIs, GetsTypes DEF rules
<1>2. IF r.no_whitespace THEN /\ <<r.body, p, InToken(Here, env), b>> \in Derived(Here)
                              /\ Trailed(Here, Derived(Here), p, env, b, n)
                         ELSE <<r.body, p, env, b>> \in Derived(Here) /\ n = b
  BY DEF InBody, Gets, Derives, Then
<1> HIDE DEF r
<1>3. RefGives(Here, Derived(Here), e, p, env, m)
  BY <1>1, <1>2 DEF RefGives, r
<1> QED BY <1>3, GetsIff DEF Gives

(* A sequence or repetition that begins, and one that goes on.             *)
LEMMA ComesFirst ==
  ASSUME job \in Jobs, NEW e \in Own, e.op \in {"seq", "rep"}, NEW p \in Places,
         NEW env \in Environments(Here)
  PROVE  ComesFar(e, p, env, 0, 0)
BY ComesIff, InputFacts DEF ComesTo

(* A sequence or repetition that goes on, by the match of its next         *)
(* operand.                                                                *)
LEMMA ComesOn ==
  ASSUME NEW e \in Own, e.op \in {"seq", "rep"}, NEW p \in Places, NEW env \in Environments(Here),
         NEW k \in Nat, NEW i \in Nat, ComesFar(e, p, env, k, i), GoesOn(e, k),
         NEW n \in Nat, Gets(NextKid(e, k), p + i, env, n), i + n \in Places
  PROVE  ComesFar(e, p, env, k + 1, i + n)
<1>1. k + 1 \in Nat /\ k + 1 # 0 /\ k + 1 - 1 = k
  OBVIOUS
<1>2. <<e, p, env, k + 1 - 1, i>> \in Passed(Here) /\ GoesOn(e, k + 1 - 1)
  BY <1>1 DEF ComesFar, Reaches
<1>3. <<NextKid(e, k + 1 - 1), p + i, env, n>> \in Derived(Here)
  BY <1>1 DEF Gets, Derives
<1>4. ASSUME NEW R, NEW S, NEW l \in Nat, l # 0, <<e, p, env, l - 1, i>> \in S, GoesOn(e, l - 1),
             <<NextKid(e, l - 1), p + i, env, n>> \in R
      PROVE  ComesTo(R, S, e, p, env, l, i + n)
  <2> DEFINE x == i + n  q == l - 1
  <2>1. x = i + n /\ l # 0 /\ <<e, p, env, q, i>> \in S /\ GoesOn(e, q) /\ <<NextKid(e, q), p + i, env, n>> \in R
    BY <1>4
  <2> HIDE DEF x
  <2> QED BY <2>1 DEF ComesTo, x
<1>5. ComesTo(Derived(Here), Passed(Here), e, p, env, k + 1, i + n)
  BY <1>1, <1>2, <1>3, <1>4
<1> QED BY <1>1, <1>5, ComesIff

(* Where it ends.                                                          *)
LEMMA ManyEnds ==
  ASSUME NEW e \in Own, e.op \in {"seq", "rep"}, NEW p \in Places, NEW env \in Environments(Here),
         NEW k \in Nat, NEW i \in Nat, ComesFar(e, p, env, k, i), ~GoesOn(e, k), i \in Lengths
  PROVE  Gets(e, p, env, i)
<1>1. ManyGives(Derived(Here), Passed(Here), e, p, env, i)
  BY DEF ManyGives, ComesFar, Reaches
<1> QED BY <1>1, GetsIff DEF Gives

(* Where the next operand fails, a repetition with enough matches ends and *)
(* anything else fails.                                                    *)
LEMMA ManyStops ==
  ASSUME NEW e \in Own, e.op \in {"seq", "rep"}, NEW p \in Places, NEW env \in Environments(Here),
         NEW k \in Nat, NEW i \in Nat, ComesFar(e, p, env, k, i), GoesOn(e, k),
         Gets(NextKid(e, k), p + i, env, Fail),
         NEW m \in Lengths, m = IF e.op = "rep" /\ k >= e.min THEN i ELSE Fail
  PROVE  Gets(e, p, env, m)
<1>1. ManyGives(Derived(Here), Passed(Here), e, p, env, m)
  BY DEF ManyGives, ComesFar, Reaches, Gets, Derives
<1> QED BY <1>1, GetsIff DEF Gives

----------------------------------------------------------------------------
(* Where the frames' operators are.                                        *)

(* Only the frames below matter for where a frame's operand is.            *)
LEMMA AroundBelow ==
  ASSUME NEW s, NEW t, NEW k, \A j \in 1 .. k - 1 : t[j] = s[j]
  PROVE  Around(t, k) = Around(s, k)
BY DEF Around

(* Where a frame puts its operand when it is itself in env.                *)
Inside(f, env) ==
  IF ~HasSpace THEN Outermost
  ELSE Env(env.token \/ Owes(f, "boundary"), env.space \/ Owes(f, "whitespace"))

(* What the frame after one calls is where that frame puts its operand.    *)
LEMMA AroundNext ==
  ASSUME NEW s, NEW k \in Nat, k # 0
  PROVE  Around(s, k + 1) = Inside(s[k], Around(s, k))
<1>1. CASE ~HasSpace
  BY <1>1 DEF Around, Inside
<1>2. CASE HasSpace
  <2> DEFINE O(what) == \E j \in 1 .. k - 1 : Owes(s[j], what)
  <2>1. ASSUME NEW what
        PROVE  (\E j \in 1 .. k + 1 - 1 : Owes(s[j], what)) <=> (O(what) \/ Owes(s[k], what))
    <3>1. 1 .. k + 1 - 1 = (1 .. k - 1) \cup {k}
      OBVIOUS
    <3> QED BY <3>1
  <2>2. Around(s, k) = Env(O("boundary"), O("whitespace"))
    BY <1>2 DEF Around
  <2>3. Around(s, k).token = O("boundary") /\ Around(s, k).space = O("whitespace")
    BY <2>2 DEF Env
  <2> HIDE DEF O
  <2>4. Around(s, k + 1) = Env(\E j \in 1 .. k + 1 - 1 : Owes(s[j], "boundary"),
                               \E j \in 1 .. k + 1 - 1 : Owes(s[j], "whitespace"))
    BY <1>2 DEF Around
  <2>5. (\E j \in 1 .. k + 1 - 1 : Owes(s[j], "boundary")) = (O("boundary") \/ Owes(s[k], "boundary"))
    BY <2>1
  <2>6. (\E j \in 1 .. k + 1 - 1 : Owes(s[j], "whitespace")) = (O("whitespace") \/ Owes(s[k], "whitespace"))
    BY <2>1
  <2> QED BY <1>2, <2>3, <2>4, <2>5, <2>6 DEF Inside
<1> QED BY <1>1, <1>2

(* An operator's operand is where the operator puts it.                    *)
LEMMA InsideIs ==
  ASSUME NEW f, f.op \in FrameOps, NEW env \in Environments(Here)
  PROVE  /\ f.op = "tok" => Inside(f, env) = InToken(Here, env)
         /\ f.op = "wsp" => Inside(f, env) = InSpace(Here, env)
         /\ f.op = "body" =>
              Inside(f, env) = IF f.k = 0 THEN InBody(Here, rule_of(f), env) ELSE env
         /\ f.op \notin {"tok", "wsp", "body"} => Inside(f, env) = env
<1>1. CASE ~HasSpace
  <2>1. env = Outermost
    BY <1>1, HereIs DEF Environments, HasSpace
  <2> QED BY <1>1, <2>1, HereIs DEF Inside, InBody
<1>2. CASE HasSpace
  <2>1. /\ env = Env(env.token, env.space) /\ env.token \in BOOLEAN /\ env.space \in BOOLEAN
    BY <1>2, HereIs DEF Environments, HasSpace, Env
  <2>2. Inside(f, env) = Env(env.token \/ Owes(f, "boundary"), env.space \/ Owes(f, "whitespace"))
    BY <1>2 DEF Inside
  <2>3. Owes(f, "boundary") <=> f.op = "tok" \/ (f.op = "body" /\ f.k = 0 /\ rule_of(f).no_whitespace)
    BY DEF Owes
  <2>4. Owes(f, "whitespace") <=> f.op = "wsp"
    BY DEF Owes
  <2>5. CASE f.op = "tok"
    <3>1. (env.token \/ Owes(f, "boundary")) = TRUE /\ (env.space \/ Owes(f, "whitespace")) = env.space
      BY <2>1, <2>3, <2>4, <2>5
    <3> QED BY <1>2, <2>2, <2>5, <3>1, HereIs
  <2>6. CASE f.op = "wsp"
    <3>1. (env.token \/ Owes(f, "boundary")) = env.token /\ (env.space \/ Owes(f, "whitespace")) = TRUE
      BY <2>1, <2>3, <2>4, <2>6
    <3> QED BY <1>2, <2>2, <2>6, <3>1, HereIs
  <2>7. CASE f.op = "body" /\ f.k = 0 /\ rule_of(f).no_whitespace
    <3>1. (env.token \/ Owes(f, "boundary")) = TRUE /\ (env.space \/ Owes(f, "whitespace")) = env.space
      BY <2>1, <2>3, <2>4, <2>7
    <3> QED BY <1>2, <2>2, <2>7, <3>1, HereIs DEF InBody
  <2>8. CASE ~(f.op \in {"tok", "wsp"} \/ (f.op = "body" /\ f.k = 0 /\ rule_of(f).no_whitespace))
    <3>1. (env.token \/ Owes(f, "boundary")) = env.token /\ (env.space \/ Owes(f, "whitespace")) = env.space
      BY <2>1, <2>3, <2>4, <2>8
    <3>2. Inside(f, env) = env
      BY <2>1, <2>2, <3>1
    <3> QED BY <2>8, <3>2 DEF InBody
  <2> QED BY <2>5, <2>6, <2>7, <2>8
<1> QED BY <1>1, <1>2

(* That is one of the environments of the language.                        *)
LEMMA AroundIn ==
  ASSUME NEW s, NEW k PROVE Around(s, k) \in Environments(Here)
BY HereIs DEF Around, Environments, HasSpace, Env

(* What a frame waits for, by its operator.                                *)
LEMMA AwaitedIs ==
  ASSUME NEW f, f.op \in FrameOps
  PROVE  /\ f.op = "top"  => Awaited(f) = IF f.k = 0 /\ HasSpace THEN g.whitespace ELSE Ref(g.start)
         /\ f.op = "skip" => Awaited(f) = g.whitespace
         /\ f.op = "rule" => Awaited(f) = f.node
         /\ f.op = "body" => Awaited(f) = IF f.k = 0 THEN rule_of(f).body ELSE g.whitespace
         /\ f.op \in {"seq", "cho"} => Awaited(f) = f.node.kids[f.k]
         /\ f.op \notin {"top", "skip", "rule", "body", "seq", "cho"} => Awaited(f) = f.node.kid
BY DEF Awaited, FrameOps

(* A frame's operator may be called where the frame puts it.               *)
LEMMA FrameSpreads ==
  ASSUME job \in Jobs, NEW at, Spreads(at), NEW f, FrameOK(f), f.op # "top", NEW e \in Own,
         NEW env \in at[e], FrameMeans(f, e, env)
  PROVE  Awaited(f) \in Own /\ Inside(f, env) \in at[Awaited(f)]
<1>1. /\ f.op \in FrameOps /\ env \in Environments(Here)
      /\ f.op # "skip" => f.node = e /\ e.op = IF f.op \in {"rule", "body"} THEN "ref" ELSE f.op
  BY SpreadsIs DEF FrameOK, HasOperator, FrameMeans, OperatorMeans
<1>2. /\ e.op \in Unary => InKid(Here, e, env) \in at[e.kid]
      /\ e.op \in {"seq", "cho"} => \A k \in 1 .. Len(e.kids) : env \in at[e.kids[k]]
      /\ e.op = "ref" => InBody(Here, rules[e.name], env) \in at[rules[e.name].body]
      /\ HasSpace /\ ~env.token
           /\ (e.op \in {"lit", "tok"} \/ (e.op = "ref" /\ rules[e.name].no_whitespace))
         => env \in at[g.whitespace]
  BY SpreadsIs
<1>3. /\ HasSpace => g.whitespace \in Own
      /\ e.op = "ref" => rules[e.name].body \in Own
  BY InputFacts, OperatorFacts DEF WellFormed, HasSpace, rules, Names
<1>4. CASE f.op = "skip"
  BY <1>1, <1>2, <1>3, <1>4, AwaitedIs, InsideIs DEF FrameMeans, SkipMeans
<1>5. CASE f.op = "rule"
  BY <1>1, <1>5, AwaitedIs, InsideIs
<1>6. CASE f.op = "body"
  <2>1. /\ rule_of(f) = rules[e.name] /\ e.op = "ref"
        /\ f.k # 0 => HasSpace /\ ~env.token /\ rule_of(f).no_whitespace
    BY <1>1, <1>6 DEF FrameMeans, OperatorMeans, BodyMeans, rule_of
  <2> QED BY <1>1, <1>2, <1>3, <1>6, <2>1, AwaitedIs, InsideIs
<1>7. CASE f.op \in {"seq", "cho"}
  <2>1. f.k \in 1 .. Len(e.kids) /\ e.op = f.op
    BY <1>1, <1>7 DEF FrameOK, HasOperator, FrameMeans, OperatorMeans
  <2>2. Awaited(f) = e.kids[f.k] /\ Inside(f, env) = env
    BY <1>1, <1>7, AwaitedIs, InsideIs
  <2>3. e.kids[f.k] \in Own
    BY <1>7, <2>1, OperatorFacts
  <2> QED BY <1>2, <1>7, <2>1, <2>2, <2>3
<1>8. CASE f.op \notin {"skip", "rule", "body", "seq", "cho"}
  <2>1. e.op = f.op /\ e.op \in Unary /\ Awaited(f) = e.kid
    BY <1>1, <1>8, AwaitedIs DEF FrameOps, Unary
  <2>2. Inside(f, env) = InKid(Here, e, env)
    BY <1>1, <1>8, <2>1, InsideIs DEF InKid
  <2>3. e.kid \in Own
    BY <2>1, OperatorFacts
  <2> QED BY <1>2, <2>1, <2>2, <2>3
<1> QED BY <1>4, <1>5, <1>6, <1>7, <1>8

(* So may every operator that a frame waits for.                           *)
LEMMA StackSpreads ==
  ASSUME job \in Jobs, NEW at, Spreads(at), NEW s, NEW c, StackOK(s, c), StackMeans(s),
         NEW l \in DOMAIN s
  PROVE  Awaited(s[l]) \in Own /\ Around(s, l + 1) \in at[Awaited(s[l])]
<1> DEFINE Spread(k) == Awaited(s[k]) \in Own /\ Around(s, k + 1) \in at[Awaited(s[k])]
           B == {k \in DOMAIN s : ~Spread(k)}
<1>1. DOMAIN s = 1 .. Len(s) /\ Len(s) \in Nat /\ B \subseteq Nat
  BY SeqFacts DEF StackOK
<1>2. ASSUME NEW k \in DOMAIN s, \A j \in DOMAIN s : j < k => Spread(j) PROVE Spread(k)
  <2>1. FrameOK(s[k]) /\ (s[k].op = "top" <=> k = 1) /\ s[k].op \in FrameOps
    BY DEF StackOK, FrameOK
  <2>2. CASE k = 1
    <3>1. Around(s, k + 1) = Inside(s[k], Around(s, k))
      BY <2>2, AroundNext
    <3>2. Around(s, k) = Outermost
      BY <2>2 DEF Around, Outermost
    <3>3. Inside(s[k], Outermost) = Outermost
      BY <2>1, <2>2, <3>2, InsideIs, AroundIn
    <3>4. /\ Awaited(s[k]) = IF s[k].k = 0 /\ HasSpace THEN g.whitespace ELSE Ref(g.start)
          /\ Ref(g.start) \in Own /\ (HasSpace => g.whitespace \in Own)
      BY <2>1, <2>2, AwaitedIs, InputFacts DEF WellFormed, HasSpace
    <3> QED BY <3>1, <3>2, <3>3, <3>4, SpreadsIs
  <2>3. CASE k # 1
    <3>1. k - 1 \in DOMAIN s /\ k - 1 < k /\ k - 1 + 1 = k /\ k \in Nat /\ k # 0
      BY <1>1, <2>3
    <3>2. Spread(k - 1)
      BY <1>2, <3>1
    <3>3. Awaited(s[k - 1]) \in Own /\ Around(s, k) \in at[Awaited(s[k - 1])]
      BY <3>1, <3>2
    <3>4. FrameMeans(s[k], Awaited(s[k - 1]), Around(s, k))
      BY <2>3 DEF StackMeans
    <3>5. Awaited(s[k]) \in Own /\ Inside(s[k], Around(s, k)) \in at[Awaited(s[k])]
      BY <2>1, <2>3, <3>3, <3>4, FrameSpreads
    <3> QED BY <3>1, <3>5, AroundNext
  <2> QED BY <2>2, <2>3
<1>3. B = {}
  <2>1. SUFFICES ASSUME B # {} PROVE FALSE
    OBVIOUS
  <2>2. PICK m \in B : \A k \in B : m <= k
    BY <1>1, <2>1, Least
  <2>3. m \in DOMAIN s /\ m \in Nat /\ \A j \in DOMAIN s : j < m => Spread(j)
    <3>1. \A j \in DOMAIN s : j \in Nat /\ (~Spread(j) => j \in B)
      BY <1>1
    <3>2. m \in DOMAIN s /\ m \in Nat
      BY <1>1
    <3> HIDE DEF B, Spread
    <3> QED BY <2>2, <3>1, <3>2
  <2>4. Spread(m)
    <3> HIDE DEF Spread
    <3> QED BY <1>2, <2>3
  <2>5. ~Spread(m)
    OBVIOUS
  <2> HIDE DEF Spread
  <2> QED BY <2>4, <2>5
<1>4. Spread(l)
  <2> HIDE DEF Spread
  <2> QED BY <1>3
<1> QED BY <1>4

----------------------------------------------------------------------------
(* No left recursion: ranks.                                               *)

(* A frame that has consumed nothing waits for an operator of no higher    *)
(* rank than its own, the body of a rule for one of a lower rank.          *)
LEMMA RankStep ==
  ASSUME job \in Jobs, Classical, NEW at, NEW rank, Descends(rank, at), NEW f, FrameOK(f), f.op # "top",
         f.i = 0, NEW e \in Own, NEW env \in at[e], FrameMeans(f, e, env)
  PROVE  /\ rank[Awaited(f)] <= rank[e]
         /\ f.op = "body" => rank[Awaited(f)] < rank[e]
<1>1. /\ f.op \in FrameOps /\ f.pos \in Places /\ rank[e] \in Nat
      /\ f.op # "skip" => f.node = e /\ e.op = IF f.op \in {"rule", "body"} THEN "ref" ELSE f.op
  BY DEF FrameOK, HasOperator, Descends, FrameMeans, OperatorMeans
<1>2. CASE f.op = "skip"
  <2>1. /\ HasSpace
        /\ \/ e.op = "lit" /\ f.i = Len(e.text)
           \/ e.op = "tok" /\ Gets(e.kid, f.pos, InToken(Here, env), f.i)
    BY <1>2 DEF FrameMeans, SkipMeans
  <2>2. ASSUME e.op = "lit", f.i = Len(e.text) PROVE e.text = <<>>
    BY <2>2, SeqFacts, OperatorFacts
  <2>3. MayBeEmpty(e, at)
    BY <1>1, <2>1, <2>2 DEF MayBeEmpty
  <2>4. rank[g.whitespace] <= rank[e]
    BY <2>1, <2>3 DEF Descends
  <2> QED BY <1>1, <1>2, <2>4, AwaitedIs
<1>3. CASE f.op = "rule"
  BY <1>1, <1>3, AwaitedIs
<1>4. CASE f.op = "body"
  <2> DEFINE r == rules[e.name]
  <2>1. /\ rule_of(f) = r /\ e.op = "ref"
        /\ f.k # 0 => HasSpace /\ r.no_whitespace /\ Gets(r.body, f.pos, InToken(Here, env), 0)
    BY <1>1, <1>4 DEF FrameMeans, OperatorMeans, BodyMeans, rule_of
  <2>2. /\ rank[r.body] < rank[e]
        /\ HasSpace /\ r.no_whitespace
             /\ (\E p \in Places, w \in at[e] : Gets(r.body, p, InToken(Here, w), 0))
           => rank[g.whitespace] < rank[e]
    BY <2>1 DEF Descends
  <2>3. Awaited(f) = IF f.k = 0 THEN r.body ELSE g.whitespace
    BY <1>1, <1>4, <2>1, AwaitedIs
  <2> HIDE DEF r
  <2>4. rank[Awaited(f)] < rank[e]
    BY <1>1, <2>1, <2>2, <2>3
  <2>5. HasSpace => g.whitespace \in Own
    BY InputFacts DEF WellFormed, HasSpace
  <2>6. r.body \in Own
    BY <2>1, InputFacts, OperatorFacts DEF WellFormed, r, rules, Names
  <2>7. Awaited(f) \in Own
    BY <2>1, <2>3, <2>5, <2>6
  <2>8. rank[Awaited(f)] \in Nat
    BY <2>7 DEF Descends
  <2> QED BY <1>1, <2>4, <2>8
<1>5. CASE f.op = "seq"
  <2>1. f.k \in 1 .. Len(e.kids) /\ ComesFar(e, f.pos, env, f.k - 1, 0) /\ e.op = "seq"
    BY <1>1, <1>5 DEF FrameOK, HasOperator, FrameMeans, OperatorMeans
  <2>2. rank[e.kids[f.k]] <= rank[e]
    BY <1>1, <2>1 DEF Descends
  <2> QED BY <1>1, <1>5, <2>2, AwaitedIs
<1>6. CASE f.op = "cho"
  <2>1. f.k \in 1 .. Len(e.kids) /\ e.op = "cho"
    BY <1>1, <1>6 DEF FrameMeans, OperatorMeans
  <2>2. rank[e.kids[f.k]] <= rank[e]
    BY <2>1 DEF Descends
  <2> QED BY <1>1, <1>6, <2>2, AwaitedIs
<1>7. CASE f.op \notin {"skip", "rule", "body", "seq", "cho"}
  <2>1. e.op \in Unary /\ Awaited(f) = e.kid
    BY <1>1, <1>7, AwaitedIs DEF FrameOps, Unary
  <2>2. rank[e.kid] <= rank[e]
    BY <2>1 DEF Descends
  <2> QED BY <1>7, <2>1, <2>2
<1> QED BY <1>2, <1>3, <1>4, <1>5, <1>6, <1>7

(* Hence no rule is called again where it is being parsed: between the two *)
(* calls nothing would have been consumed, and the ranks would go down.    *)
LEMMA NeverReenters ==
  ASSUME FramesOK, NEW at, NEW rank, Covers(at, rank), StackMeans(frames), ControlMeans(frames, ctl)
  PROVE  ~Reenters
<1> DEFINE n == Len(frames)
           Rank(k) == rank[Awaited(frames[k])]
<1>1. SUFFICES ASSUME Reenters PROVE FALSE
  OBVIOUS
<1>2. PICK x \in InProgress(frames) : x.name = node.name /\ x.pos = here
  BY <1>1 DEF Reenters
<1>3. /\ ctl.do = "call" /\ node.op = "ref" /\ node \in Own /\ frames # <<>> /\ node = Awaited(top)
      /\ top.op # "rule" /\ here = Standing(top)
  BY <1>1 DEF Reenters, Entering, ControlMeans, FramesOK, StackOK, ControlOK, node, here, top
<1> DEFINE d == x.depth
<1>4. /\ d \in 1 .. n /\ frames[d].op = "rule" /\ frames[d].node.name = node.name /\ frames[d].pos = here
      /\ \A k \in d .. n : here <= frames[k].pos
  BY <1>2, CallFrames DEF Running
<1>5. /\ job \in Jobs /\ IsSeq(frames) /\ StackOK(frames, ctl) /\ n \in Nat /\ DOMAIN frames = 1 .. n
      /\ top = frames[n] /\ Classical /\ Spreads(at) /\ Descends(rank, at)
      /\ \A k \in 1 .. n : FrameOK(frames[k]) /\ (frames[k].op = "top" <=> k = 1)
      /\ \A k \in 2 .. n : frames[k].pos = Standing(frames[k - 1])
      /\ \A k, l \in 1 .. n : k <= l => frames[k].pos <= frames[l].pos
  BY SeqFacts DEF FramesOK, StackOK, Covers, top, Last
<1> HIDE DEF n, d
<1>6. frames[d].node = node
  <2>1. frames[d].node \in Own /\ frames[d].node.op = "ref"
    BY <1>4, <1>5 DEF FrameOK, HasOperator
  <2> QED BY <1>3, <1>4, <1>5, <2>1, ClassicalIs
<1>7. d < n
  BY <1>3, <1>4, <1>5
<1>8. ASSUME NEW k \in d .. n PROVE frames[k].i = 0 /\ frames[k].pos = here
  <2>1. /\ FrameOK(frames[k]) /\ here <= frames[k].pos /\ k \in 1 .. n /\ here \in Nat
        /\ frames[k].pos \in Nat /\ frames[k].i \in Nat
    BY <1>3, <1>4, <1>5, InputFacts DEF FrameOK, FramesOK, StackOK, ControlOK, here
  <2>2. frames[k].pos + frames[k].i <= here
    <3>1. CASE k = n
      BY <1>3, <1>5, <2>1, <3>1 DEF Standing
    <3>2. CASE k # n
      <4>1. k + 1 \in 2 .. n /\ k + 1 - 1 = k /\ k + 1 <= n
        BY <1>4, <1>5, <2>1, <3>2
      <4>2. frames[k + 1].pos = frames[k].pos + frames[k].i
        <5>1. \A l \in 2 .. n : \A j : j = l - 1 => frames[l].pos = Standing(frames[j])
          BY <1>5
        <5>2. frames[k + 1].pos = Standing(frames[k])
          BY <4>1, <5>1
        <5> QED BY <5>2 DEF Standing
      <4>3. frames[k + 1].pos <= frames[n].pos
        BY <1>5, <4>1
      <4>4. frames[n].pos <= here
        BY <1>3, <1>5, <1>7, InputFacts DEF Standing, FrameOK
      <4>5. frames[n].pos \in Nat
        BY <1>4, <1>5, <1>7, InputFacts DEF FrameOK
      <4> QED BY <2>1, <4>2, <4>3, <4>4, <4>5
    <3> QED BY <3>1, <3>2
  <2>3. \A a, b, c \in Nat : a <= b /\ b + c <= a => c = 0 /\ b = a
    OBVIOUS
  <2> QED BY <2>1, <2>2, <2>3
<1>9. ASSUME NEW k \in d + 1 .. n, NEW j, j = k - 1
      PROVE  /\ Rank(k) <= Rank(j) /\ Rank(k) \in Nat /\ Rank(j) \in Nat
             /\ frames[k].op = "body" => Rank(k) < Rank(j)
  <2>1. k \in 1 .. n /\ j \in 1 .. n /\ k # 1 /\ j + 1 = k /\ k \in d .. n
    BY <1>4, <1>5, <1>9
  <2>2. /\ Awaited(frames[j]) \in Own /\ Around(frames, k) \in at[Awaited(frames[j])]
        /\ Awaited(frames[k]) \in Own
    <3>1. Awaited(frames[j]) \in Own /\ Around(frames, j + 1) \in at[Awaited(frames[j])]
      BY <1>5, <2>1, StackSpreads
    <3>2. Awaited(frames[k]) \in Own
      BY <1>5, <2>1, StackSpreads
    <3> QED BY <2>1, <3>1, <3>2
  <2>3. FrameMeans(frames[k], Awaited(frames[j]), Around(frames, k))
    BY <1>5, <1>9, <2>1 DEF StackMeans
  <2>4. FrameOK(frames[k]) /\ frames[k].op # "top" /\ frames[k].i = 0
    BY <1>5, <1>8, <2>1
  <2>5. Rank(k) \in Nat /\ Rank(j) \in Nat
    BY <1>5, <2>2 DEF Descends
  <2> QED BY <1>5, <2>2, <2>3, <2>4, <2>5, RankStep
<1>10. frames[d + 1].op = "body" /\ d + 1 \in d + 1 .. n /\ d = d + 1 - 1
  <2>1. d + 1 \in 1 .. n /\ d + 1 # 1 /\ d + 1 - 1 = d /\ d + 1 \in d + 1 .. n
    BY <1>4, <1>5, <1>7
  <2>2. \A k \in 1 .. n : \A j : k # 1 /\ j = k - 1 => (frames[k].op = "body" <=> frames[j].op = "rule")
    BY <1>5 DEF StackMeans
  <2> QED BY <1>4, <2>1, <2>2
<1>11. Rank(d + 1) < Rank(d) /\ Rank(d) \in Nat /\ Rank(d + 1) \in Nat
  <2> DEFINE b == d + 1
  <2>1. b \in d + 1 .. n /\ d = b - 1 /\ frames[b].op = "body"
    BY <1>4, <1>5, <1>10
  <2> HIDE DEF Rank, b
  <2>2. Rank(b) < Rank(d) /\ Rank(d) \in Nat /\ Rank(b) \in Nat
    BY <1>9, <2>1
  <2> QED BY <2>2 DEF b
<1>12. Rank(d) = rank[node] /\ Rank(n) = rank[node]
  BY <1>3, <1>4, <1>5, <1>6, AwaitedIs DEF FrameOK
<1> DEFINE B == {k \in d + 1 .. n : Rank(k) > Rank(d + 1)}
<1>13. B = {}
  <2>1. SUFFICES ASSUME B # {} PROVE FALSE
    OBVIOUS
  <2>2. B \subseteq Nat
    BY <1>4, <1>5
  <2>3. PICK m \in B : \A k \in B : m <= k
    BY <2>1, <2>2, Least
  <2>4. m \in d + 1 .. n /\ Rank(m) > Rank(d + 1) /\ m \in Nat
    BY <2>2
  <2>5. \A k \in d + 1 .. n : k < m => ~(Rank(k) > Rank(d + 1))
    <3>1. \A k \in d + 1 .. n : Rank(k) > Rank(d + 1) => k \in B
      OBVIOUS
    <3>2. \A k \in d + 1 .. n : k \in Nat
      BY <1>4, <1>5
    <3> HIDE DEF B, Rank
    <3> QED BY <2>3, <2>4, <3>1, <3>2
  <2> HIDE DEF B, Rank
  <2>6. m # d + 1
    BY <1>11, <2>4
  <2>7. m - 1 \in d + 1 .. n /\ m - 1 < m
    BY <1>4, <1>5, <2>4, <2>6
  <2>8. Rank(m) <= Rank(m - 1) /\ Rank(m) \in Nat /\ Rank(m - 1) \in Nat
    BY <1>9, <2>4
  <2>9. ~(Rank(m - 1) > Rank(d + 1))
    BY <2>5, <2>7
  <2> QED BY <1>11, <2>4, <2>8, <2>9
<1>14. n \in d + 1 .. n
  BY <1>4, <1>5, <1>7
<1>15. ~(Rank(n) > Rank(d + 1))
  <2> HIDE DEF Rank
  <2> QED BY <1>13, <1>14
<1> HIDE DEF Rank
<1> QED BY <1>11, <1>12, <1>15

----------------------------------------------------------------------------
(* What is known when an operator is called, and when an operand returns.  *)

(* A count is not zero while some frame owes.                              *)
LEMMA OwedSome ==
  ASSUME NEW s, IsSeq(s), NEW what
  PROVE  (\E k \in 1 .. Len(s) : Owes(s[k], what)) <=> Owed(s, what) # 0
<1> DEFINE D == {k \in DOMAIN s : Owes(s[k], what)}
<1>1. DOMAIN s = 1 .. Len(s) /\ Len(s) \in Nat
  BY SeqFacts
<1>2. IsFiniteSet(D)
  <2>1. IsFiniteSet(1 .. Len(s)) /\ D \subseteq 1 .. Len(s)
    BY <1>1, FS_Interval
  <2> QED BY <2>1, FS_Subset
<1>3. Cardinality(D) = 0 <=> D = {}
  BY <1>2, FS_EmptySet
<1> QED BY <1>1, <1>3 DEF Owed

(* Where the operator that is called next is; the operator of the          *)
(* innermost frame, and where that is.                                     *)
CallEnv == Around(frames, Len(frames) + 1)
Mine    == Awaited(frames[Len(frames) - 1])
MyEnv   == Around(frames, Len(frames))

Means == StackMeans(frames) /\ ControlMeans(frames, ctl)

(* An operator that is called is the one the innermost frame waits for, at *)
(* the place it stands, in one of the environments the operator may be     *)
(* called in; the flags of the context say which.                          *)
LEMMA Calling ==
  ASSUME FramesOK, ContextOK, Means, NEW at, Spreads(at), ctl.do = "call"
  PROVE  /\ job \in Jobs /\ frames # <<>> /\ node = Awaited(top) /\ node \in Own
         /\ here = Standing(top) /\ here \in Places /\ here \in Nat /\ top.op # "rule"
         /\ CallEnv \in at[node] /\ CallEnv \in Environments(Here)
         /\ HasSpace => /\ CallEnv.token <=> in_token_boundary_count # 0
                        /\ CallEnv.space <=> in_whitespace
<1>1. /\ job \in Jobs /\ frames # <<>> /\ StackOK(frames, ctl) /\ here = Standing(top) /\ node \in Own
      /\ here \in Places /\ here \in Nat /\ IsSeq(frames)
  BY CallFacts DEF FramesOK, StackOK, ControlOK, here, top
<1>2. Len(frames) \in DOMAIN frames /\ Len(frames) \in Nat /\ top = frames[Len(frames)]
      /\ Len(frames) + 1 - 1 = Len(frames)
  BY <1>1, SeqFacts DEF top, Last
<1>3. node = Awaited(top) /\ top.op # "rule"
  BY <1>1 DEF Means, ControlMeans, node, top
<1>4. CallEnv \in at[node]
  BY <1>1, <1>2, <1>3, StackSpreads DEF CallEnv, Means
<1>5. ASSUME HasSpace
      PROVE (CallEnv.token <=> in_token_boundary_count # 0) /\ (CallEnv.space <=> in_whitespace)
  <2>1. /\ CallEnv.token = \E j \in 1 .. Len(frames) : Owes(frames[j], "boundary")
        /\ CallEnv.space = \E j \in 1 .. Len(frames) : Owes(frames[j], "whitespace")
    BY <1>2, <1>5 DEF CallEnv, Around, Env
  <2>2. /\ in_token_boundary_count = Owed(frames, "boundary") /\ in_whitespace \in BOOLEAN
        /\ Owed(frames, "whitespace") = IF in_whitespace THEN 1 ELSE 0
    BY ContextFacts
  <2> QED BY <1>1, <2>1, <2>2, OwedSome
<1> QED BY <1>1, <1>3, <1>4, <1>5, AroundIn DEF CallEnv

(* An operator that resumes has established what its frame means, is where *)
(* its caller stands, and is given what its operand matched there.         *)
LEMMA Resumed ==
  ASSUME FramesOK, ContextOK, Means, NEW at, Spreads(at), NEW op, op # "top", Resuming(op)
  PROVE  /\ job \in Jobs /\ frames # <<>> /\ Len(frames) \in Nat /\ Len(frames) >= 2
         /\ FrameOK(top) /\ top.op = op /\ op \in FrameOps
         /\ Mine \in Own /\ MyEnv \in at[Mine] /\ MyEnv \in Environments(Here)
         /\ top.pos \in Places /\ top.pos \in Nat /\ top.pos = Standing(frames[Len(frames) - 1])
         /\ FrameMeans(top, Mine, MyEnv)
         /\ op # "skip" => top.node = Mine /\ Mine.op = IF op \in {"rule", "body"} THEN "ref" ELSE op
         /\ Gets(Awaited(top), Standing(top), Inside(top, MyEnv), len)
         /\ len \in Lengths
         /\ HasSpace => (MyEnv.token <=> in_token_boundary_count - Debt(top, "boundary") # 0)
<1> DEFINE n == Len(frames)
<1>1. /\ job \in Jobs /\ frames # <<>> /\ StackOK(frames, ctl) /\ IsSeq(frames) /\ ctl.do = "return"
      /\ FrameOK(top) /\ top.op = op /\ len \in Lengths /\ top.pos \in Nat
  BY ReturnFacts DEF FramesOK, StackOK
<1>2. n \in Nat /\ DOMAIN frames = 1 .. n /\ n # 0 /\ top = frames[n] /\ n \in 1 .. n
  BY <1>1, SeqFacts DEF top, Last
<1>3. n # 1
  BY <1>1, <1>2 DEF StackOK
<1>4. n >= 2 /\ n - 1 \in DOMAIN frames /\ n - 1 + 1 = n /\ n \in 2 .. n
  BY <1>2, <1>3
<1>5. Mine \in Own /\ MyEnv \in at[Mine]
  <2>1. Awaited(frames[n - 1]) \in Own /\ Around(frames, n - 1 + 1) \in at[Awaited(frames[n - 1])]
    BY <1>1, <1>4, StackSpreads DEF Means
  <2> QED BY <1>4, <2>1 DEF Mine, MyEnv
<1>6. top.pos = Standing(frames[n - 1])
  BY <1>1, <1>2, <1>4 DEF StackOK
<1>7. FrameMeans(top, Mine, MyEnv)
  BY <1>2, <1>3 DEF Means, StackMeans, Mine, MyEnv
<1>8. Gets(Awaited(top), Standing(top), Inside(top, MyEnv), len)
  <2>1. Gets(Awaited(top), Standing(top), Around(frames, n + 1), len)
    BY <1>1 DEF Means, ControlMeans, top, len
  <2>2. Around(frames, n + 1) = Inside(top, MyEnv)
    BY <1>2, AroundNext DEF MyEnv
  <2> QED BY <2>1, <2>2
<1>9. op # "skip" => top.node = Mine /\ Mine.op = IF op \in {"rule", "body"} THEN "ref" ELSE op
  BY <1>1, <1>7 DEF FrameMeans, OperatorMeans, FrameOK, HasOperator
<1>10. ASSUME HasSpace
       PROVE  MyEnv.token <=> in_token_boundary_count - Debt(top, "boundary") # 0
  <2>1. MyEnv.token = \E j \in 1 .. n - 1 : Owes(frames[j], "boundary")
    BY <1>10 DEF MyEnv, Around, Env
  <2> DEFINE s == Front(frames)
  <2>2. IsSeq(s) /\ Len(s) = n - 1 /\ \A j \in 1 .. n - 1 : s[j] = frames[j]
    BY <1>1, FrontFacts
  <2>3. (\E j \in 1 .. n - 1 : Owes(frames[j], "boundary")) <=> Owed(s, "boundary") # 0
    BY <2>2, OwedSome
  <2>4. Owed(frames, "boundary") = Owed(s, "boundary") + Debt(top, "boundary")
    BY <1>1, OwedPopped DEF top
  <2>5. in_token_boundary_count = Owed(frames, "boundary") /\ Owed(s, "boundary") \in Nat
    BY <2>2, ContextFacts, OwedType
  <2>6. Debt(top, "boundary") \in Nat
    BY DEF Debt
  <2> HIDE DEF s
  <2> QED BY <2>1, <2>3, <2>4, <2>5, <2>6
<1>11. top.pos \in Places /\ op \in FrameOps /\ MyEnv \in Environments(Here)
  BY <1>1, AroundIn DEF FrameOK, MyEnv
<1> QED BY <1>1, <1>4, <1>2, <1>5, <1>6, <1>7, <1>8, <1>9, <1>10, <1>11

----------------------------------------------------------------------------
(* What becomes of the stack in a step.                                    *)
StepMeans == StackMeans(frames') /\ ControlMeans(frames', ctl')

(* Pushing a frame that has established what it must keeps the stack.      *)
LEMMA MeansPushed ==
  ASSUME NEW s, IsSeq(s), s # <<>>, StackMeans(s), NEW f,
         FrameMeans(f, Awaited(Last(s)), Around(s, Len(s) + 1)),
         f.op = "body" <=> Last(s).op = "rule"
  PROVE  /\ StackMeans(Append(s, f))
         /\ \A k \in 1 .. Len(s) + 1 : Around(Append(s, f), k) = Around(s, k)
<1> DEFINE t == Append(s, f)
<1>1. /\ t # <<>> /\ DOMAIN t = 1 .. Len(s) + 1 /\ t[Len(s) + 1] = f /\ \A k \in 1 .. Len(s) : t[k] = s[k]
  BY AppendFacts
<1>2. Len(s) \in Nat /\ Len(s) # 0 /\ DOMAIN s = 1 .. Len(s) /\ Last(s) = s[Len(s)]
  BY SeqFacts DEF Last
<1> HIDE DEF t
<1>3. \A k \in 1 .. Len(s) + 1 : Around(t, k) = Around(s, k)
  <2> TAKE k \in 1 .. Len(s) + 1
  <2>1. \A j \in 1 .. k - 1 : t[j] = s[j]
    BY <1>1, <1>2
  <2> QED BY <2>1, AroundBelow
<1>4. ASSUME NEW k \in 1 .. Len(s) + 1
      PROVE  IF k = 1 THEN TopMeans(t[k])
             ELSE /\ FrameMeans(t[k], Awaited(t[k - 1]), Around(t, k))
                  /\ t[k].op = "body" <=> t[k - 1].op = "rule"
  <2>1. CASE k = Len(s) + 1
    <3>1. k # 1 /\ k - 1 = Len(s) /\ k - 1 \in 1 .. Len(s)
      BY <1>2, <2>1
    <3>2. t[k] = f /\ t[k - 1] = Last(s) /\ Around(t, k) = Around(s, Len(s) + 1)
      BY <1>1, <1>2, <1>3, <2>1, <3>1
    <3> QED BY <3>1, <3>2
  <2>2. CASE k # Len(s) + 1
    <3>1. k \in 1 .. Len(s) /\ (k # 1 => k - 1 \in 1 .. Len(s))
      BY <1>2, <2>2
    <3>2. t[k] = s[k] /\ (k # 1 => t[k - 1] = s[k - 1]) /\ Around(t, k) = Around(s, k)
      BY <1>1, <1>3, <3>1
    <3> QED BY <1>2, <3>1, <3>2 DEF StackMeans
  <2> QED BY <2>1, <2>2
<1>5. StackMeans(t)
  BY <1>1, <1>4 DEF StackMeans
<1> QED BY <1>3, <1>5 DEF t

(* So does replacing the last frame but the first by such a frame.         *)
LEMMA MeansReplaced ==
  ASSUME NEW s, IsSeq(s), Len(s) >= 2, StackMeans(s), NEW f,
         FrameMeans(f, Awaited(s[Len(s) - 1]), Around(s, Len(s))),
         f.op = "body" <=> Last(s).op = "body"
  PROVE  StackMeans(SetTop(s, f))
<1> DEFINE t == SetTop(s, f)  n == Len(s)
<1>0. s # <<>> /\ n \in Nat /\ DOMAIN s = 1 .. n /\ Last(s) = s[n] /\ n # 1 /\ n \in 1 .. n
  BY SeqFacts DEF Last
<1>1. DOMAIN t = 1 .. n /\ t[n] = f /\ \A k \in 1 .. n - 1 : t[k] = s[k]
  BY <1>0, SetTopFacts
<1> HIDE DEF t, n
<1>3. \A k \in 1 .. n : Around(t, k) = Around(s, k)
  <2> TAKE k \in 1 .. n
  <2>1. \A j \in 1 .. k - 1 : t[j] = s[j]
    BY <1>0, <1>1
  <2> QED BY <2>1, AroundBelow
<1>4. ASSUME NEW k \in 1 .. n
      PROVE  IF k = 1 THEN TopMeans(t[k])
             ELSE /\ FrameMeans(t[k], Awaited(t[k - 1]), Around(t, k))
                  /\ t[k].op = "body" <=> t[k - 1].op = "rule"
  <2>1. CASE k = n
    <3>1. k # 1 /\ k - 1 \in 1 .. n - 1 /\ k - 1 = n - 1
      BY <1>0, <2>1
    <3>2. t[k] = f /\ t[k - 1] = s[n - 1] /\ Around(t, k) = Around(s, n)
      BY <1>1, <1>3, <2>1, <3>1
    <3>3. s[n].op = "body" <=> s[n - 1].op = "rule"
      BY <1>0 DEF StackMeans
    <3> QED BY <1>0, <3>1, <3>2, <3>3 DEF n
  <2>2. CASE k # n
    <3>1. k \in 1 .. n - 1 /\ (k # 1 => k - 1 \in 1 .. n - 1)
      BY <1>0, <2>2
    <3>2. t[k] = s[k] /\ (k # 1 => t[k - 1] = s[k - 1]) /\ Around(t, k) = Around(s, k)
      BY <1>1, <1>3, <3>1
    <3> QED BY <1>0, <3>1, <3>2 DEF StackMeans
  <2> QED BY <2>1, <2>2
<1> QED BY <1>1, <1>4 DEF StackMeans, t

(* So does taking the last frame away.                                     *)
LEMMA MeansPopped ==
  ASSUME NEW s, IsSeq(s), s # <<>>, StackMeans(s)
  PROVE  /\ StackMeans(Front(s)) /\ IsSeq(Front(s)) /\ Len(Front(s)) = Len(s) - 1
         /\ \A k \in 1 .. Len(s) : Around(Front(s), k) = Around(s, k)
         /\ Front(s) # <<>> => Last(Front(s)) = s[Len(s) - 1]
<1> DEFINE t == Front(s)  n == Len(s)
<1>1. n \in Nat /\ DOMAIN s = 1 .. n /\ n # 0
  BY SeqFacts
<1>2. IsSeq(t) /\ Len(t) = n - 1 /\ DOMAIN t = 1 .. n - 1 /\ \A k \in 1 .. n - 1 : t[k] = s[k]
  BY FrontFacts
<1> HIDE DEF t, n
<1>3. \A k \in 1 .. n : Around(t, k) = Around(s, k)
  <2> TAKE k \in 1 .. n
  <2>1. \A j \in 1 .. k - 1 : t[j] = s[j]
    BY <1>1, <1>2
  <2> QED BY <2>1, AroundBelow
<1>4. ASSUME NEW k \in 1 .. n - 1
      PROVE  IF k = 1 THEN TopMeans(t[k])
             ELSE /\ FrameMeans(t[k], Awaited(t[k - 1]), Around(t, k))
                  /\ t[k].op = "body" <=> t[k - 1].op = "rule"
  <2>1. k \in 1 .. n /\ (k # 1 => k - 1 \in 1 .. n - 1)
    BY <1>1
  <2>2. t[k] = s[k] /\ (k # 1 => t[k - 1] = s[k - 1]) /\ Around(t, k) = Around(s, k)
    BY <1>2, <1>3, <2>1
  <2> QED BY <1>1, <2>1, <2>2 DEF StackMeans
<1>5. StackMeans(t)
  BY <1>2, <1>4 DEF StackMeans
<1>6. t # <<>> => Last(t) = s[n - 1]
  <2>1. SUFFICES ASSUME t # <<>> PROVE Last(t) = s[n - 1]
    OBVIOUS
  <2>2. n - 1 \in 1 .. n - 1
    BY <1>1, <1>2, <2>1, SeqFacts
  <2> QED BY <1>2, <2>2 DEF Last
<1> QED BY <1>2, <1>3, <1>5, <1>6 DEF t, n

(* An operator that returns at once, having matched what it returns.       *)
LEMMA MeansAnswered ==
  ASSUME FramesOK, Means, ctl.do = "call", frames' = frames, ctl'.do = "return", here = Standing(top),
         node = Awaited(top), Gets(node, here, CallEnv, ctl'.len)
  PROVE  StepMeans
BY DEF Means, StepMeans, ControlMeans, CallEnv, top

(* An operator that calls its operand from a frame of its own.             *)
LEMMA MeansEntered ==
  ASSUME FramesOK, Means, frames # <<>>, node = Awaited(top), top.op # "rule",
         NEW f, f.op \notin {"rule", "body"}, FrameMeans(f, node, CallEnv),
         NEW e, e = Awaited(f), NEW p, Enter(f, e, p)
  PROVE  StepMeans
<1>1. frames' = Append(frames, f) /\ ctl'.do = "call" /\ ctl'.node = e /\ IsSeq(frames)
  BY DEF Enter, Call, FramesOK, StackOK
<1>2. StackMeans(frames')
  BY <1>1, MeansPushed DEF Means, CallEnv, top
<1>3. Last(frames') = f
  BY <1>1, AppendFacts
<1> QED BY <1>1, <1>2, <1>3 DEF StepMeans, ControlMeans

(* An operator that goes on to its next operand.                           *)
LEMMA MeansResumed ==
  ASSUME FramesOK, Means, Len(frames) >= 2, NEW f, f.op # "rule", f.op = "body" <=> top.op = "body",
         FrameMeans(f, Mine, MyEnv), NEW e, e = Awaited(f), NEW p, Resume(f, e, p)
  PROVE  StepMeans
<1>1. frames' = SetTop(frames, f) /\ ctl'.do = "call" /\ ctl'.node = e /\ IsSeq(frames)
  BY DEF Resume, Call, FramesOK, StackOK
<1>2. frames # <<>>
  BY <1>1, SeqFacts
<1>3. StackMeans(frames')
  BY <1>1, MeansReplaced DEF Means, Mine, MyEnv, top
<1>4. Last(frames') = f
  BY <1>1, <1>2, SetTopFacts
<1> QED BY <1>1, <1>3, <1>4 DEF StepMeans, ControlMeans

(* An operator that returns what it has matched.                           *)
LEMMA MeansLeft ==
  ASSUME FramesOK, Means, Len(frames) \in Nat, Len(frames) >= 2, frames' = Front(frames), ctl'.do = "return",
         top.pos = Standing(frames[Len(frames) - 1]), Gets(Mine, top.pos, MyEnv, ctl'.len)
  PROVE  StepMeans
<1>1. IsSeq(frames) /\ frames # <<>>
  BY SeqFacts DEF FramesOK, StackOK
<1>2. /\ StackMeans(frames') /\ Len(frames') = Len(frames) - 1 /\ Len(frames) \in 1 .. Len(frames)
      /\ \A k \in 1 .. Len(frames) : Around(frames', k) = Around(frames, k)
      /\ frames' # <<>> => Last(frames') = frames[Len(frames) - 1]
  BY <1>1, MeansPopped DEF Means
<1>3. Len(frames') + 1 = Len(frames) /\ Around(frames', Len(frames)) = MyEnv
  BY <1>2 DEF MyEnv
<1>4. ASSUME frames' # <<>>
      PROVE  Gets(Awaited(Last(frames')), Standing(Last(frames')), Around(frames', Len(frames') + 1), ctl'.len)
  BY <1>2, <1>3, <1>4 DEF Mine
<1> QED BY <1>2, <1>4 DEF StepMeans, ControlMeans

----------------------------------------------------------------------------
(* Each action establishes what the next frame or the caller waits for.    *)

(* The comparison of a literal with the input, and the word check.         *)
LEMMA StandsIff ==
  ASSUME job \in Jobs, NEW text, IsSeq(text), NEW p \in Places
  PROVE  Matches(text, p) /\ ~WordGoesOn(text, p) <=> StandsAt(text, p, input, g.word)
<1> DEFINE n == Len(input)  l == Len(text)
<1>1. n \in Nat /\ l \in Nat /\ p \in Nat /\ p <= n /\ IsSeq(input) /\ DOMAIN text = 1 .. l
      /\ (text = <<>> <=> l = 0)
  BY InputFacts, SeqFacts
<1>2. \A q \in p .. n : /\ Len(SubSeq(input, p + 1, q)) = q - p
                        /\ \A j \in 1 .. q - p : SubSeq(input, p + 1, q)[j] = input[p + j]
                        /\ SubSeq(input, p + 1, q) \in Seq(ToSet(input))
  <2> TAKE q \in p .. n
  <2>1. input \in Seq(ToSet(input)) /\ p + 1 \in 1 .. n + 1 /\ q \in p .. n
    BY <1>1 DEF IsSeq
  <2>2. SubSeq(input, p + 1, q) = [j \in 1 .. q - p |-> input[p + j]]
    BY <1>1, <2>1
  <2>3. \A j \in 1 .. q - p : input[p + j] \in ToSet(input)
    BY <1>1, <2>1
  <2> QED BY <1>1, <2>1, <2>2, <2>3
<1>3. Matches(text, p) <=> p + l <= n /\ \A j \in 1 .. l : input[p + j] = text[j]
  <2>1. ASSUME Matches(text, p) PROVE p + l <= n /\ \A j \in 1 .. l : input[p + j] = text[j]
    <3>1. PICK q \in p .. n : text = SubSeq(input, p + 1, q)
      BY <2>1 DEF Matches
    <3>2. l = q - p /\ p + l = q
      BY <1>1, <1>2, <3>1
    <3> QED BY <1>1, <1>2, <3>1, <3>2
  <2>2. ASSUME p + l <= n, \A j \in 1 .. l : input[p + j] = text[j] PROVE Matches(text, p)
    <3> DEFINE q == p + l  sub == SubSeq(input, p + 1, q)
    <3>1. q \in p .. n /\ q - p = l
      BY <1>1, <2>2
    <3>2. Len(sub) = l /\ (\A j \in 1 .. l : sub[j] = text[j]) /\ sub \in Seq(ToSet(input))
      BY <1>2, <2>2, <3>1
    <3>3. text \in Seq(ToSet(text))
      BY DEF IsSeq
    <3> HIDE DEF sub
    <3>4. sub = text
      BY <3>2, <3>3, <1>1
    <3> QED BY <3>1, <3>4 DEF Matches, sub
  <2> QED BY <2>1, <2>2
<1>4. text # <<>> => Head(text) = text[1]
  BY <1>1 DEF IsSeq
<1>5. ASSUME p + l <= n
      PROVE  ~WordGoesOn(text, p) <=> (text # <<>> /\ text[1] \in g.word =>
                                         p + l = n \/ input[p + l + 1] \notin g.word)
  BY <1>1, <1>4, <1>5 DEF WordGoesOn, Byte
<1> QED BY <1>3, <1>5 DEF StandsAt

(* A character.                                                            *)
LEMMA CharMeant ==
  ASSUME FramesOK, ContextOK, Means, Classical, NEW at, Spreads(at), StackOK(frames', ctl'), CharEnter
  PROVE  StepMeans
<1>1. ctl.do = "call" /\ node.op = "chr" /\ frames' = frames /\ ctl'.do = "return"
      /\ ctl'.len = (IF here < Len(input) /\ Byte(here) \in node.set THEN 1 ELSE Fail)
  BY DEF CharEnter, Entering, Answer, Return, node
<1>2. ctl'.len \in Lengths
  BY DEF StackOK, ControlOK
<1>3. Gets(node, here, CallEnv, ctl'.len)
  BY <1>1, <1>2, Calling, ChrMatches
<1> QED BY <1>1, <1>3, Calling, MeansAnswered

(* A literal, and the whitespace after it.                                 *)
LEMMA LiteralMeant ==
  ASSUME FramesOK, ContextOK, Means, Classical, NEW at, Spreads(at), StackOK(frames', ctl'), LiteralEnter
  PROVE  StepMeans
<1> DEFINE stands == StandsAt(node.text, here, input, g.word)
           b == IF stands THEN Len(node.text) ELSE Fail
<1>1. ctl.do = "call" /\ node.op = "lit" /\ parse_literal(node.text)
  BY DEF LiteralEnter, Entering, node
<1>2. /\ job \in Jobs /\ frames # <<>> /\ node = Awaited(top) /\ node \in Own
      /\ here = Standing(top) /\ here \in Places /\ here \in Nat /\ top.op # "rule"
      /\ CallEnv \in at[node] /\ CallEnv \in Environments(Here)
      /\ HasSpace => (CallEnv.token <=> in_token_boundary_count # 0)
  BY <1>1, Calling
<1>3. IsSeq(node.text) /\ Len(node.text) \in Nat
  BY <1>1, <1>2, SeqFacts, OperatorFacts
<1>4. stands <=> Matches(node.text, here) /\ ~WordGoesOn(node.text, here)
  BY <1>2, <1>3, StandsIff
<1>5. ctl'.len \in Lengths
  BY DEF StackOK, ControlOK
<1>6. CASE Answer(b) /\ (b = Fail \/ CallEnv.token \/ ~HasSpace)
  <2>1. frames' = frames /\ ctl'.do = "return" /\ ctl'.len = b
    BY <1>6 DEF Answer, Return
  <2>2. Gets(node, here, CallEnv, ctl'.len)
    BY <1>1, <1>2, <1>5, <1>6, <2>1, ThenPlain, LitMatches
  <2> QED BY <1>1, <1>2, <2>1, <2>2, MeansAnswered
<1>7. CASE stands /\ HasSpace /\ ~CallEnv.token /\ Enter(SkipFrame(here, b), g.whitespace, here + b)
  <2> DEFINE f == SkipFrame(here, b)
  <2>1. f.op = "skip" /\ f.pos = here /\ f.i = b
    BY DEF SkipFrame, Frame
  <2>2. Awaited(f) = g.whitespace
    BY <2>1, AwaitedIs DEF FrameOps
  <2>3. FrameMeans(f, node, CallEnv)
    BY <1>1, <1>7, <2>1 DEF FrameMeans, SkipMeans
  <2> HIDE DEF f
  <2> QED BY <1>2, <1>7, <2>1, <2>2, <2>3, MeansEntered DEF f
<1> HIDE DEF stands
<1>8. CASE stands
  <2>1. MatchedFrom(here, b) /\ b = Len(node.text)
    BY <1>1, <1>4, <1>8 DEF parse_literal
  <2>2. Skips(in_token_boundary_count) <=> HasSpace /\ ~CallEnv.token
    BY <1>2 DEF Skips, HasSpace
  <2>3. IF Skips(in_token_boundary_count) THEN Enter(SkipFrame(here, b), g.whitespace, here + b)
        ELSE Answer(b)
    BY <2>1 DEF MatchedFrom
  <2> QED BY <1>6, <1>7, <1>8, <2>2, <2>3
<1>9. CASE ~stands
  <2>1. Answer(b) /\ b = Fail
    BY <1>1, <1>4, <1>9 DEF parse_literal
  <2> QED BY <1>6, <2>1
<1> QED BY <1>8, <1>9

(* The whitespace after a literal or a token.                              *)
LEMMA SkipMeant ==
  ASSUME FramesOK, ContextOK, Means, Classical, NEW at, Spreads(at), StackOK(frames', ctl'), SkipResume
  PROVE  StepMeans
<1>1. Resuming("skip") /\ frames' = Front(frames) /\ ctl'.do = "return"
      /\ ctl'.len = (IF len = Fail THEN Fail ELSE top.i + len)
  BY DEF SkipResume, Leave, Return
<1>2. /\ job \in Jobs /\ frames # <<>> /\ Len(frames) \in Nat /\ Len(frames) >= 2
      /\ FrameOK(top) /\ top.op = "skip" /\ "skip" \in FrameOps
      /\ Mine \in Own /\ MyEnv \in Environments(Here)
      /\ top.pos \in Places /\ top.pos \in Nat /\ top.pos = Standing(frames[Len(frames) - 1])
      /\ FrameMeans(top, Mine, MyEnv)
      /\ Gets(Awaited(top), Standing(top), Inside(top, MyEnv), len)
  BY <1>1, Resumed
<1>3. ctl'.len \in Lengths /\ top.i \in Nat
  BY <1>2 DEF StackOK, ControlOK, FrameOK
<1>4. Gets(g.whitespace, top.pos + top.i, MyEnv, len)
  BY <1>2, AwaitedIs, InsideIs DEF Standing
<1>5. HasSpace /\ ~MyEnv.token
  BY <1>2 DEF FrameMeans, SkipMeans
<1>6. ctl'.len = Plus(top.i, len) /\ top.i # Fail
  BY <1>1, <1>3 DEF Plus, Fail
<1>7. Then(top.pos, MyEnv, top.i, ctl'.len)
  BY <1>4, <1>5, <1>6, ThenSpace
<1>8. Gets(Mine, top.pos, MyEnv, ctl'.len)
  <2>1. CASE Mine.op = "lit" /\ StandsAt(Mine.text, top.pos, input, g.word) /\ top.i = Len(Mine.text)
    BY <1>2, <1>3, <1>7, <2>1, LitMatches
  <2>2. CASE Mine.op = "tok" /\ Gets(Mine.kid, top.pos, InToken(Here, MyEnv), top.i)
    BY <1>2, <1>3, <1>7, <2>2, TokMatches
  <2> QED BY <1>2, <2>1, <2>2 DEF FrameMeans, SkipMeans
<1> QED BY <1>1, <1>2, <1>8, MeansLeft

(* A sequence.                                                             *)
LEMMA SequenceMeant ==
  ASSUME FramesOK, ContextOK, Means, Classical, NEW at, Spreads(at), StackOK(frames', ctl'),
         SequenceEnter \/ SequenceResume
  PROVE  StepMeans
<1>1. CASE SequenceEnter
  <2>1. ctl.do = "call" /\ node.op = "seq"
    BY <1>1 DEF SequenceEnter, Entering, node
  <2>2. /\ job \in Jobs /\ frames # <<>> /\ node = Awaited(top) /\ node \in Own
        /\ here = Standing(top) /\ here \in Places /\ top.op # "rule" /\ CallEnv \in Environments(Here)
    BY <2>1, Calling
  <2>3. Len(node.kids) \in Nat /\ (node.kids = <<>> <=> Len(node.kids) = 0)
    BY <2>1, <2>2, OperatorFacts
  <2>4. ComesFar(node, here, CallEnv, 0, 0)
    BY <2>1, <2>2, ComesFirst
  <2>5. CASE node.kids = <<>>
    <3>1. frames' = frames /\ ctl'.do = "return" /\ ctl'.len = 0
      BY <1>1, <2>5 DEF SequenceEnter, Answer, Return
    <3>2. ctl'.len \in Lengths /\ ~GoesOn(node, 0)
      BY <2>1, <2>3, <2>5 DEF StackOK, ControlOK, GoesOn
    <3>3. Gets(node, here, CallEnv, ctl'.len)
      BY <2>1, <2>2, <2>4, <3>1, <3>2, ManyEnds
    <3> QED BY <2>1, <2>2, <3>1, <3>3, MeansAnswered
  <2>6. CASE node.kids # <<>>
    <3> DEFINE f == [Frame("seq", node, here) EXCEPT !.k = 1]
    <3>1. Enter(f, node.kids[1], here)
      BY <1>1, <2>6 DEF SequenceEnter
    <3>2. f.op = "seq" /\ f.node = node /\ f.pos = here /\ f.i = 0 /\ f.k = 1 /\ f.k - 1 = 0
      BY DEF Frame
    <3>3. FrameMeans(f, node, CallEnv)
      BY <2>4, <3>2 DEF FrameMeans, OperatorMeans
    <3> HIDE DEF f
    <3>4. Awaited(f) = node.kids[1]
      <4>1. f.op \in FrameOps
        BY <3>2 DEF FrameOps
      <4>2. Awaited(f) = f.node.kids[f.k]
        BY <3>2, <4>1, AwaitedIs
      <4> QED BY <3>2, <4>2
    <3> QED BY <2>2, <3>1, <3>2, <3>3, <3>4, MeansEntered
  <2> QED BY <2>5, <2>6
<1>2. CASE SequenceResume
  <2> DEFINE e == Mine  i == top.i + len
  <2>1. Resuming("seq")
    BY <1>2 DEF SequenceResume
  <2>2. /\ job \in Jobs /\ Len(frames) \in Nat /\ Len(frames) >= 2 /\ FrameOK(top)
        /\ top.op = "seq" /\ "seq" \in FrameOps /\ e \in Own /\ MyEnv \in Environments(Here)
        /\ top.pos \in Places /\ top.pos = Standing(frames[Len(frames) - 1])
        /\ FrameMeans(top, e, MyEnv) /\ top.node = e /\ e.op = "seq"
        /\ Gets(Awaited(top), Standing(top), Inside(top, MyEnv), len)
    BY <2>1, Resumed
  <2>3. /\ ComesFar(e, top.pos, MyEnv, top.k - 1, top.i) /\ top.k \in 1 .. Len(e.kids)
        /\ Len(e.kids) \in Nat /\ top.i \in Nat
    BY <2>2, OperatorFacts DEF FrameMeans, OperatorMeans, FrameOK, HasOperator
  <2>4. top.k - 1 \in Nat /\ top.k - 1 + 1 = top.k /\ GoesOn(e, top.k - 1)
        /\ NextKid(e, top.k - 1) = e.kids[top.k]
    BY <2>2, <2>3 DEF GoesOn, NextKid
  <2>5. Gets(NextKid(e, top.k - 1), top.pos + top.i, MyEnv, len)
    BY <2>2, <2>4, AwaitedIs, InsideIs DEF Standing
  <2>6. ctl'.len \in Lengths
    BY DEF StackOK, ControlOK
  <2> HIDE DEF e
  <2>7. CASE len = Fail
    <3>1. frames' = Front(frames) /\ ctl'.do = "return" /\ ctl'.len = Fail
      BY <1>2, <2>7 DEF SequenceResume, Leave, Return
    <3>2. Gets(e, top.pos, MyEnv, ctl'.len)
      BY <2>2, <2>3, <2>4, <2>5, <2>6, <2>7, <3>1, ManyStops
    <3> QED BY <2>2, <3>1, <3>2, MeansLeft DEF e
  <2>8. CASE len # Fail
    <3>1. len \in Nat /\ i \in Places
      BY <2>1, <2>8, ReturnFacts
    <3>2. ComesFar(e, top.pos, MyEnv, top.k, i)
      <4>1. ComesFar(e, top.pos, MyEnv, top.k - 1 + 1, top.i + len)
        BY <2>2, <2>3, <2>4, <2>5, <3>1, ComesOn
      <4> QED BY <2>4, <4>1
    <3>3. CASE top.k = Len(e.kids)
      <4>1. frames' = Front(frames) /\ ctl'.do = "return" /\ ctl'.len = i
        BY <1>2, <2>2, <2>8, <3>3 DEF SequenceResume, Leave, Return
      <4>2. ~GoesOn(e, top.k) /\ top.k \in Nat /\ i \in Nat
        BY <2>2, <2>3, <3>1, <3>3 DEF GoesOn
      <4>3. Gets(e, top.pos, MyEnv, i)
        <5> HIDE DEF i
        <5> QED BY <2>2, <2>6, <3>2, <4>1, <4>2, ManyEnds
      <4> QED BY <2>2, <4>1, <4>3, MeansLeft DEF e
    <3>4. CASE top.k # Len(e.kids)
      <4> DEFINE f == Advanced(top, i, top.k + 1)
      <4>1. Resume(f, e.kids[top.k + 1], top.pos + i)
        BY <1>2, <2>2, <2>8, <3>4 DEF SequenceResume, Advanced
      <4>2. f.op = "seq" /\ f.node = e /\ f.pos = top.pos /\ f.i = i /\ f.k = top.k + 1 /\ f.k - 1 = top.k
        BY <2>2, <2>3, AdvancedIs DEF FrameOf
      <4>3. FrameMeans(f, e, MyEnv)
        BY <3>2, <4>2 DEF FrameMeans, OperatorMeans
      <4>4. Awaited(f) = e.kids[top.k + 1]
        BY <2>2, <4>2, AwaitedIs
      <4> HIDE DEF f
      <4> QED BY <2>2, <4>1, <4>2, <4>3, <4>4, MeansResumed DEF e
    <3> QED BY <3>3, <3>4
  <2> QED BY <2>7, <2>8
<1> QED BY <1>1, <1>2

(* The alternatives that are filtered out up to the next that is not.      *)
LEMMA FilteredFail ==
  ASSUME NEW at, FilterSound(at), NEW e \in Own, e.op = "cho", NEW p \in Places, NEW env \in at[e],
         Len(e.kids) \in Nat, NEW from \in Nat, from # 0, Fails(e, p, env, from - 1)
  PROVE  /\ Open(e, p, from) = {} => Fails(e, p, env, Len(e.kids))
         /\ Open(e, p, from) # {} =>
              LET k == NextOf(Open(e, p, from)) IN
              k \in 1 .. Len(e.kids) /\ k \in Nat /\ Fails(e, p, env, k - 1)
<1> DEFINE D == Open(e, p, from)
<1>1. \A j \in 1 .. Len(e.kids) : ~MayStart(e, p, j) => Gets(e.kids[j], p, env, Fail)
  BY DEF FilterSound
<1>2. \A j \in 1 .. Len(e.kids) : j < from \/ j \in D \/ ~MayStart(e, p, j)
  BY DEF Open
<1>3. \A j \in 1 .. Len(e.kids) : j \notin D => Gets(e.kids[j], p, env, Fail)
  <2> TAKE j \in 1 .. Len(e.kids)
  <2>1. j < from => j \in 1 .. from - 1
    OBVIOUS
  <2> HIDE DEF D
  <2> QED BY <1>1, <1>2, <2>1 DEF Fails
<1>4. D # {} => NextOf(D) \in from .. Len(e.kids) /\ \A j \in D : NextOf(D) <= j
  <2>1. D \subseteq Nat
    BY DEF Open
  <2>2. D # {} => \A j \in D : NextOf(D) <= j
    <3> HIDE DEF D
    <3> QED BY <2>1, MinFacts DEF NextOf
  <2> QED BY <2>2, OpenFacts
<1> HIDE DEF D
<1>5. ASSUME D = {} PROVE Fails(e, p, env, Len(e.kids))
  BY <1>3, <1>5 DEF Fails
<1>6. ASSUME D # {}
      PROVE  NextOf(D) \in 1 .. Len(e.kids) /\ NextOf(D) \in Nat /\ Fails(e, p, env, NextOf(D) - 1)
  <2> DEFINE k == NextOf(D)
  <2>1. k \in 1 .. Len(e.kids) /\ k \in Nat /\ \A j \in D : k <= j
    BY <1>4, <1>6
  <2> HIDE DEF k
  <2>2. \A j \in 1 .. k - 1 : j \in 1 .. Len(e.kids) /\ j \notin D
    BY <2>1
  <2>3. Fails(e, p, env, k - 1)
    BY <1>3, <2>2 DEF Fails
  <2> QED BY <2>1, <2>3 DEF k
<1> QED BY <1>5, <1>6 DEF D

(* A choice.                                                               *)
LEMMA ChoiceEnterMeant ==
  ASSUME FramesOK, ContextOK, Means, Classical, NEW at, Spreads(at), FilterSound(at),
         StackOK(frames', ctl'), ChoiceEnter
  PROVE  StepMeans
<1> DEFINE open == Open(node, here, 1)
<1>1. ctl.do = "call" /\ node.op = "cho"
  BY DEF ChoiceEnter, Entering, node
<1>2. /\ job \in Jobs /\ frames # <<>> /\ node = Awaited(top) /\ node \in Own
      /\ here = Standing(top) /\ here \in Places /\ top.op # "rule"
      /\ CallEnv \in Environments(Here) /\ CallEnv \in at[node]
  BY <1>1, Calling
<1>3. Len(node.kids) \in Nat /\ Fails(node, here, CallEnv, 1 - 1)
  BY <1>1, <1>2, OperatorFacts DEF Fails
<1>4. /\ open = {} => Fails(node, here, CallEnv, Len(node.kids))
      /\ open # {} => /\ NextOf(open) \in 1 .. Len(node.kids)
                      /\ Fails(node, here, CallEnv, NextOf(open) - 1)
  BY <1>1, <1>2, <1>3, FilteredFail
<1> HIDE DEF open
<1>5. CASE open = {}
  <2>1. frames' = frames /\ ctl'.do = "return" /\ ctl'.len = Fail
    BY <1>5 DEF ChoiceEnter, Answer, Return, open
  <2>2. Gets(node, here, CallEnv, ctl'.len)
    BY <1>1, <1>2, <1>4, <1>5, <2>1, ChoFails
  <2> QED BY <1>1, <1>2, <2>1, <2>2, MeansAnswered
<1>6. CASE open # {}
  <2> DEFINE f == [Frame("cho", node, here) EXCEPT !.k = NextOf(open), !.snap = Snapshot]
  <2>1. Enter(f, node.kids[NextOf(open)], here)
    BY <1>6 DEF ChoiceEnter, open
  <2>2. f.op = "cho" /\ f.node = node /\ f.pos = here /\ f.k = NextOf(open)
    BY DEF Frame
  <2> HIDE DEF f
  <2>3. FrameMeans(f, node, CallEnv)
    BY <1>4, <1>6, <2>2 DEF FrameMeans, OperatorMeans, Fails
  <2>4. Awaited(f) = node.kids[NextOf(open)]
    BY <2>2, AwaitedIs DEF FrameOps
  <2> QED BY <1>2, <2>1, <2>2, <2>3, <2>4, MeansEntered
<1> QED BY <1>5, <1>6

(* A choice returns its alternative's match, or goes on to the next one    *)
(* that its first set lets start here, or fails when there is none left.   *)
LEMMA ChoiceResumeMeant ==
  ASSUME FramesOK, ContextOK, Means, Classical, CutsClear, NEW at, Spreads(at), FilterSound(at),
         StackOK(frames', ctl'), ChoiceMatched \/ ChoiceFailed
  PROVE  StepMeans
<1> DEFINE e == Mine  open == Open(e, top.pos, top.k + 1)
<1>1. Resuming("cho")
  BY DEF ChoiceMatched, ChoiceFailed
<1>2. /\ job \in Jobs /\ Len(frames) \in Nat /\ Len(frames) >= 2 /\ FrameOK(top)
      /\ top.op = "cho" /\ "cho" \in FrameOps /\ e \in Own /\ MyEnv \in Environments(Here)
      /\ MyEnv \in at[e] /\ top.pos \in Places /\ top.pos = Standing(frames[Len(frames) - 1])
      /\ FrameMeans(top, e, MyEnv) /\ top.node = e /\ e.op = "cho"
      /\ Gets(Awaited(top), Standing(top), Inside(top, MyEnv), len) /\ len \in Lengths
  BY <1>1, Resumed
<1>3. top.k \in 1 .. Len(e.kids) /\ Fails(e, top.pos, MyEnv, top.k - 1)
  BY <1>2 DEF FrameMeans, OperatorMeans, Fails
<1>4. Gets(e.kids[top.k], top.pos, MyEnv, len)
  <2>1. Standing(top) = top.pos /\ Inside(top, MyEnv) = MyEnv /\ Awaited(top) = e.kids[top.k]
    BY <1>2, AwaitedIs, InsideIs, InputFacts DEF Standing, FrameOK
  <2> QED BY <1>2, <2>1
<1> HIDE DEF e
<1>5. CASE ChoiceMatched
  <2>1. frames' = Front(frames) /\ ctl'.do = "return" /\ ctl'.len = len /\ len # Fail
    BY <1>5 DEF ChoiceMatched, Leave, Return
  <2>2. Gets(e, top.pos, MyEnv, len)
    BY <1>2, <1>3, <1>4, <2>1, ChoMatches
  <2> QED BY <1>2, <2>1, <2>2, MeansLeft DEF e
<1>6. CASE ChoiceFailed
  <2>1. len = Fail
    BY <1>6 DEF ChoiceFailed
  <2>2. Len(e.kids) \in Nat /\ top.k \in Nat
    BY <1>2, <1>3, OperatorFacts
  <2>3. Fails(e, top.pos, MyEnv, top.k)
    <3>1. \A j \in 1 .. top.k : j \in 1 .. top.k - 1 \/ j = top.k
      BY <2>2
    <3> QED BY <1>3, <1>4, <2>1, <3>1 DEF Fails
  <2>4. /\ open = {} => Fails(e, top.pos, MyEnv, Len(e.kids))
        /\ open # {} => /\ NextOf(open) \in 1 .. Len(e.kids) /\ NextOf(open) \in Nat
                        /\ Fails(e, top.pos, MyEnv, NextOf(open) - 1)
    <3> DEFINE from == top.k + 1
    <3>1. open = Open(e, top.pos, from)
      OBVIOUS
    <3> HIDE DEF open
    <3>2. from \in Nat /\ from # 0 /\ from - 1 = top.k
      BY <2>2
    <3> HIDE DEF from
    <3>3. Fails(e, top.pos, MyEnv, from - 1)
      BY <2>3, <3>2
    <3> QED BY <1>2, <2>2, <3>1, <3>2, <3>3, FilteredFail
  <2>5. open = Open(top.node, top.pos, top.k + 1)
    BY <1>2
  <2>6. ~was_cut
    <3>1. ASSUME cut_stack # <<>> PROVE ~Last(cut_stack)
      <4>1. IsSeq(cut_stack)
        BY ContextFacts, SeqIsSeq
      <4>2. Len(cut_stack) \in DOMAIN cut_stack
        BY <3>1, <4>1, SeqFacts
      <4> QED BY <4>2 DEF CutsClear, Last
    <3> QED BY <3>1 DEF was_cut
  <2> HIDE DEF open
  <2>7. CASE open = {}
    <3>1. Leave(Fail)
      BY <1>6, <2>5, <2>7 DEF ChoiceFailed
    <3>2. frames' = Front(frames) /\ ctl'.do = "return" /\ ctl'.len = Fail
      BY <3>1 DEF Leave, Return
    <3>3. Gets(e, top.pos, MyEnv, Fail)
      BY <1>2, <2>4, <2>7, ChoFails
    <3> QED BY <1>2, <3>2, <3>3, MeansLeft DEF e
  <2>8. CASE open # {}
    <3> DEFINE f == Counted(top, NextOf(open))
    <3>1. Resume(f, e.kids[NextOf(open)], top.pos)
      BY <1>2, <1>6, <2>5, <2>6, <2>8 DEF ChoiceFailed, Counted
    <3>2. f.op = "cho" /\ f.node = e /\ f.pos = top.pos /\ f.k = NextOf(open)
      BY <1>2, CountedIs DEF FrameOf
    <3> HIDE DEF f
    <3>3. FrameMeans(f, e, MyEnv)
      BY <2>4, <2>8, <3>2 DEF FrameMeans, OperatorMeans, Fails
    <3>4. Awaited(f) = e.kids[NextOf(open)]
      BY <1>2, <3>2, AwaitedIs
    <3> QED BY <1>2, <3>1, <3>2, <3>3, <3>4, MeansResumed DEF e
  <2> QED BY <2>7, <2>8
<1> QED BY <1>5, <1>6

(* A loop over a character class has matched the class as often as it has  *)
(* passed bytes.                                                           *)
LEMMA SpanComes ==
  ASSUME job \in Jobs, Classical, NEW e \in Own, e.op = "rep", e.span, NEW p \in Places,
         NEW env \in Environments(Here), NEW l \in 0 .. Span(e, p)
  PROVE  ComesFar(e, p, env, l, l)
<1> DEFINE m == Span(e, p)  B == {k \in 0 .. m : ~ComesFar(e, p, env, k, k)}
<1>1. /\ m \in Nat /\ p + m <= Len(input) /\ p \in Nat /\ Len(input) \in Nat
      /\ \A q \in p .. p + m - 1 : Byte(q) \in e.kid.set
      /\ (e.max # Inf => m <= e.max) /\ e.max \in Nat \cup {Inf}
  BY SpanFacts, InputFacts, OperatorFacts
<1>2. e.kid \in Own /\ e.kid.op = "chr"
  BY OperatorFacts, ClassicalIs DEF Unary
<1> HIDE DEF m
<1>3. ASSUME NEW k \in Nat, k < m, ComesFar(e, p, env, k, k) PROVE ComesFar(e, p, env, k + 1, k + 1)
  <2>1. p + k \in Places /\ k + 1 \in Places /\ p + k < Len(input) /\ p + k \in p .. p + m - 1
    BY <1>1, <1>3 DEF Places
  <2>2. Gets(e.kid, p + k, env, 1)
    <3>1. 1 \in Lengths
      BY <1>1, <2>1 DEF Lengths, Places
    <3>2. Byte(p + k) \in e.kid.set
      BY <1>1, <2>1
    <3> QED BY <1>2, <2>1, <3>1, <3>2, ChrMatches
  <2>3. NextKid(e, k) = e.kid /\ GoesOn(e, k)
    BY <1>1, <1>3 DEF NextKid, GoesOn
  <2>4. Gets(NextKid(e, k), p + k, env, 1)
    BY <2>2, <2>3
  <2> QED BY <1>3, <2>1, <2>3, <2>4, ComesOn
<1>4. B = {}
  <2>1. SUFFICES ASSUME B # {} PROVE FALSE
    OBVIOUS
  <2>2. B \subseteq Nat
    BY <1>1
  <2>3. PICK k \in B : \A j \in B : k <= j
    BY <2>1, <2>2, Least
  <2>4. k \in 0 .. m /\ ~ComesFar(e, p, env, k, k) /\ k \in Nat
    BY <2>2
  <2>5. k # 0
    BY <2>4, ComesFirst
  <2>6. k - 1 \in 0 .. m /\ k - 1 \in Nat /\ k - 1 < m /\ k - 1 + 1 = k /\ ~(k <= k - 1)
    BY <1>1, <2>4, <2>5
  <2>7. ComesFar(e, p, env, k - 1, k - 1)
    BY <2>3, <2>6
  <2>8. ComesFar(e, p, env, k - 1 + 1, k - 1 + 1)
    BY <1>3, <2>6, <2>7
  <2> QED BY <2>4, <2>6, <2>8
<1> QED BY <1>4 DEF m

(* A repetition over a character class.                                    *)
LEMMA SpanMatches ==
  ASSUME job \in Jobs, Classical, NEW e \in Own, e.op = "rep", e.span, NEW p \in Places,
         NEW env \in Environments(Here), NEW m \in Lengths,
         m = IF Span(e, p) < e.min THEN Fail ELSE Span(e, p)
  PROVE  Gets(e, p, env, m)
<1> DEFINE n == Span(e, p)
<1>1. /\ n \in Nat /\ n \in 0 .. n /\ p + n <= Len(input) /\ p \in Nat /\ Len(input) \in Nat
      /\ ~More(e, n) \/ p + n = Len(input) \/ Byte(p + n) \notin e.kid.set
      /\ (e.max # Inf => n <= e.max) /\ e.max \in Nat \cup {Inf}
  BY SpanFacts, InputFacts, OperatorFacts
<1>2. /\ e.kid \in Own /\ e.kid.op = "chr" /\ e.min \in Nat /\ (e.max = Inf \/ e.min <= e.max)
      /\ Fail \in Lengths
  BY OperatorFacts, ClassicalIs DEF Unary, Lengths
<1>3. ComesFar(e, p, env, n, n)
  BY <1>1, SpanComes
<1> HIDE DEF n
<1>4. CASE ~More(e, n)
  <2>1. ~GoesOn(e, n) /\ ~(n < e.min)
    BY <1>1, <1>2, <1>4 DEF More, GoesOn, Inf
  <2>2. m = n
    BY <2>1 DEF n
  <2> QED BY <1>1, <1>3, <2>1, <2>2, ManyEnds
<1>5. CASE More(e, n)
  <2>1. GoesOn(e, n) /\ NextKid(e, n) = e.kid /\ p + n \in Places
    BY <1>1, <1>5 DEF More, GoesOn, NextKid, Places
  <2>2. Gets(NextKid(e, n), p + n, env, Fail)
    BY <1>1, <1>2, <1>5, <2>1, ChrMatches
  <2>3. m = IF e.op = "rep" /\ n >= e.min THEN n ELSE Fail
    BY <1>1, <1>2 DEF n
  <2> QED BY <1>1, <1>3, <2>1, <2>2, <2>3, ManyStops
<1> QED BY <1>4, <1>5

(* A repetition.                                                           *)
LEMMA RepetitionEnterMeant ==
  ASSUME FramesOK, ContextOK, Means, Classical, NEW at, Spreads(at), StackOK(frames', ctl'), RepetitionEnter
  PROVE  StepMeans
<1>1. ctl.do = "call" /\ node.op = "rep"
  BY DEF RepetitionEnter, Entering, node
<1>2. /\ job \in Jobs /\ frames # <<>> /\ node = Awaited(top) /\ node \in Own
      /\ here = Standing(top) /\ here \in Places /\ top.op # "rule" /\ CallEnv \in Environments(Here)
  BY <1>1, Calling
<1>3. /\ node.min \in Nat /\ node.max \in Nat \cup {Inf} /\ ctl'.len \in Lengths
      /\ node.max = Inf \/ node.min <= node.max
  BY <1>1, <1>2, OperatorFacts, ClassicalIs DEF StackOK, ControlOK
<1>4. ComesFar(node, here, CallEnv, 0, 0)
  BY <1>1, <1>2, ComesFirst
<1>5. CASE node.span
  <2>1. Answer(IF Span(node, here) < node.min THEN Fail ELSE Span(node, here))
    BY <1>5 DEF RepetitionEnter
  <2>2. /\ frames' = frames /\ ctl'.do = "return"
        /\ ctl'.len = IF Span(node, here) < node.min THEN Fail ELSE Span(node, here)
    BY <2>1 DEF Answer, Return
  <2>3. Gets(node, here, CallEnv, ctl'.len)
    BY <1>1, <1>2, <1>3, <1>5, <2>2, SpanMatches
  <2> QED BY <1>1, <1>2, <2>2, <2>3, MeansAnswered
<1>6. CASE ~node.span /\ Saturated(node, 0)
  <2>1. frames' = frames /\ ctl'.do = "return" /\ ctl'.len = 0
    BY <1>6 DEF RepetitionEnter, Answer, Return
  <2>2. ~GoesOn(node, 0)
    BY <1>1, <1>3, <1>6 DEF GoesOn, Saturated, Inf
  <2>3. Gets(node, here, CallEnv, ctl'.len)
    BY <1>1, <1>2, <1>3, <1>4, <2>1, <2>2, ManyEnds
  <2> QED BY <1>1, <1>2, <2>1, <2>3, MeansAnswered
<1>7. CASE ~node.span /\ ~Saturated(node, 0)
  <2> DEFINE f == [Frame("rep", node, here) EXCEPT !.snap = Snapshot]
  <2>1. Enter(f, node.kid, here)
    BY <1>7 DEF RepetitionEnter
  <2>2. f.op = "rep" /\ f.node = node /\ f.pos = here /\ f.i = 0 /\ f.k = 0
    BY DEF Frame
  <2> HIDE DEF f
  <2>3. GoesOn(node, 0)
    BY <1>1, <1>3, <1>7 DEF GoesOn, Saturated
  <2>4. FrameMeans(f, node, CallEnv)
    BY <1>4, <2>2, <2>3 DEF FrameMeans, OperatorMeans
  <2>5. Awaited(f) = node.kid
    <3>1. f.op \in FrameOps
      BY <2>2 DEF FrameOps
    <3> QED BY <2>2, <3>1, AwaitedIs
  <2> QED BY <1>2, <2>1, <2>2, <2>4, <2>5, MeansEntered
<1> QED BY <1>5, <1>6, <1>7

(* A repetition counts a match and goes on while it may, and ends with     *)
(* what it has when its operand fails.                                     *)
LEMMA RepetitionResumeMeant ==
  ASSUME FramesOK, ContextOK, Means, Classical, NEW at, Spreads(at), StackOK(frames', ctl'),
         RepetitionMatched \/ RepetitionFailed
  PROVE  StepMeans
<1> DEFINE e == Mine  i == top.i + len
<1>1. Resuming("rep")
  BY DEF RepetitionMatched, RepetitionFailed
<1>2. /\ job \in Jobs /\ Len(frames) \in Nat /\ Len(frames) >= 2 /\ FrameOK(top)
      /\ top.op = "rep" /\ "rep" \in FrameOps /\ e \in Own /\ MyEnv \in Environments(Here)
      /\ top.pos \in Places /\ top.pos = Standing(frames[Len(frames) - 1])
      /\ FrameMeans(top, e, MyEnv) /\ top.node = e /\ e.op = "rep"
      /\ Gets(Awaited(top), Standing(top), Inside(top, MyEnv), len)
  BY <1>1, Resumed
<1>3. /\ ComesFar(e, top.pos, MyEnv, top.k, top.i) /\ GoesOn(e, top.k)
      /\ top.i \in Nat /\ top.k \in Nat /\ NextKid(e, top.k) = e.kid
  BY <1>2 DEF FrameMeans, OperatorMeans, FrameOK, NextKid
<1>4. Gets(NextKid(e, top.k), top.pos + top.i, MyEnv, len)
  <2>1. Standing(top) = top.pos + top.i /\ Inside(top, MyEnv) = MyEnv /\ Awaited(top) = e.kid
    BY <1>2, AwaitedIs, InsideIs DEF Standing
  <2> QED BY <1>2, <1>3, <2>1
<1>5. /\ ctl'.len \in Lengths /\ e.max \in Nat \cup {Inf} /\ e.min \in Nat
      /\ e.max = Inf \/ e.min <= e.max
  BY <1>2, OperatorFacts, ClassicalIs DEF StackOK, ControlOK
<1> HIDE DEF e
<1>6. CASE RepetitionFailed
  <2>1. len = Fail /\ frames' = Front(frames) /\ ctl'.do = "return"
        /\ ctl'.len = (IF top.k < top.node.min THEN Fail ELSE top.i)
    BY <1>6 DEF RepetitionFailed, Leave, Return
  <2>2. ctl'.len = IF e.op = "rep" /\ top.k >= e.min THEN top.i ELSE Fail
    BY <1>2, <1>3, <1>5, <2>1
  <2>3. Gets(e, top.pos, MyEnv, ctl'.len)
    BY <1>2, <1>3, <1>4, <1>5, <2>1, <2>2, ManyStops
  <2> QED BY <1>2, <2>1, <2>3, MeansLeft DEF e
<1>7. CASE RepetitionMatched
  <2>1. len # Fail /\ len \in Nat /\ i \in Places /\ i \in Nat
    BY <1>1, <1>7, <1>2, ReturnFacts, InputFacts DEF RepetitionMatched
  <2>2. ComesFar(e, top.pos, MyEnv, top.k + 1, i)
    BY <1>2, <1>3, <1>4, <2>1, ComesOn
  <2> DEFINE k == top.k + 1
  <2>3. k \in Nat
    BY <1>3
  <2>4. CASE More(e, k) \/ k < e.min
    <3> DEFINE f == Round(top, i, k, Snapshot)
    <3>1. Resume(f, e.kid, top.pos + i)
      BY <1>2, <1>7, <2>4 DEF RepetitionMatched, Round
    <3>2. f.op = "rep" /\ f.node = e /\ f.pos = top.pos /\ f.i = i /\ f.k = k
      BY <1>2, RoundIs DEF FrameOf
    <3> HIDE DEF f
    <3>3. GoesOn(e, k)
      <4> HIDE DEF k
      <4> QED BY <1>2, <1>5, <2>3, <2>4 DEF GoesOn, More
    <3>4. FrameMeans(f, e, MyEnv)
      BY <2>2, <3>2, <3>3 DEF FrameMeans, OperatorMeans
    <3>5. Awaited(f) = e.kid
      BY <1>2, <3>2, AwaitedIs
    <3> QED BY <1>2, <3>1, <3>2, <3>4, <3>5, MeansResumed DEF e
  <2>5. CASE ~(More(e, k) \/ k < e.min)
    <3>1. Leave(i)
      BY <1>2, <1>7, <2>5 DEF RepetitionMatched
    <3>2. frames' = Front(frames) /\ ctl'.do = "return" /\ ctl'.len = i
      BY <3>1 DEF Leave, Return
    <3> HIDE DEF i
    <3>3. ~GoesOn(e, k)
      BY <1>2, <2>5 DEF GoesOn, More
    <3>4. ComesFar(e, top.pos, MyEnv, k, i)
      BY <2>2
    <3> HIDE DEF k
    <3>5. Gets(e, top.pos, MyEnv, i)
      BY <1>2, <1>5, <2>1, <2>3, <3>2, <3>3, <3>4, ManyEnds
    <3> QED BY <1>2, <3>2, <3>5, MeansLeft DEF e
  <2> QED BY <2>4, <2>5
<1> QED BY <1>6, <1>7

(* The operators of one operand: what they call, and what they return.     *)
LEMMA OneEnters ==
  ASSUME FramesOK, ContextOK, Means, NEW at, Spreads(at), ctl.do = "call",
         NEW op \in {"and", "not", "cap", "csc", "ign", "tok"},
         NEW f, f.op = op, f.node = node, f.pos = here, Enter(f, node.kid, here)
  PROVE  StepMeans
<1>1. frames # <<>> /\ node = Awaited(top) /\ top.op # "rule"
  BY Calling
<1>2. FrameMeans(f, node, CallEnv)
  BY DEF FrameMeans, OperatorMeans
<1>3. Awaited(f) = node.kid
  BY AwaitedIs DEF FrameOps
<1> QED BY <1>1, <1>2, <1>3, MeansEntered

(* An operator with one operand turns what that returns into what it       *)
(* matches.                                                                *)
LEMMA OneLeaves ==
  ASSUME FramesOK, ContextOK, Means, NEW at, Spreads(at), StackOK(frames', ctl'),
         NEW op \in {"and", "not", "cap", "csc", "ign"}, Resuming(op), NEW m, Leave(m), m = Turned(op, len)
  PROVE  StepMeans
<1>1. frames' = Front(frames) /\ ctl'.do = "return" /\ ctl'.len = m
  BY DEF Leave, Return
<1>2. /\ Len(frames) \in Nat /\ Len(frames) >= 2 /\ FrameOK(top) /\ op \in FrameOps /\ top.op = op
      /\ Mine \in Own /\ MyEnv \in Environments(Here) /\ top.node = Mine /\ Mine.op = op
      /\ top.pos \in Places /\ top.pos \in Nat /\ top.pos = Standing(frames[Len(frames) - 1])
      /\ Gets(Awaited(top), Standing(top), Inside(top, MyEnv), len)
  BY Resumed
<1>3. Awaited(top) = Mine.kid /\ Inside(top, MyEnv) = MyEnv
  BY <1>2, AwaitedIs, InsideIs
<1>4. Standing(top) = top.pos
  BY <1>2 DEF Standing, FrameOK
<1>5. m \in Lengths
  BY <1>1 DEF StackOK, ControlOK
<1>6. Gets(Mine, top.pos, MyEnv, m)
  BY <1>2, <1>3, <1>4, <1>5, OneMatches
<1> QED BY <1>1, <1>2, <1>6, MeansLeft

(* Predicates, captures and ignored operators.                             *)
OneStep ==
  \/ PredicateEnter \/ CaptureScopeEnter \/ CaptureEnter \/ TokenBoundaryEnter \/ IgnoreEnter
  \/ AndPredicateResume \/ NotPredicateResume \/ CaptureScopeResume \/ CaptureResume \/ IgnoreResume

(* Hence every step of these operators keeps the meaning of the stack.     *)
LEMMA OneMeant ==
  ASSUME FramesOK, ContextOK, Means, NEW at, Spreads(at), StackOK(frames', ctl'), OneStep
  PROVE  StepMeans
<1>1. CASE PredicateEnter
  <2> DEFINE f == [Frame(node.op, node, here) EXCEPT !.snap = Snapshot]
  <2>1. Enter(f, node.kid, here) /\ ctl.do = "call" /\ node.op \in {"and", "not"}
    BY <1>1 DEF PredicateEnter, Entering, node
  <2>2. f.op = node.op /\ f.node = node /\ f.pos = here
    BY DEF Frame
  <2> HIDE DEF f
  <2> QED BY <2>1, <2>2, OneEnters
<1>2. CASE CaptureScopeEnter
  <2> DEFINE f == [Frame("csc", node, here) EXCEPT !.snap = Snapshot]
  <2>1. Enter(f, node.kid, here) /\ ctl.do = "call"
    BY <1>2 DEF CaptureScopeEnter, Entering
  <2>2. f.op = "csc" /\ f.node = node /\ f.pos = here
    BY DEF Frame
  <2> HIDE DEF f
  <2> QED BY <2>1, <2>2, OneEnters
<1>3. ASSUME NEW op \in {"cap", "tok", "ign"}, Enter(Frame(op, node, here), node.kid, here), ctl.do = "call"
      PROVE  StepMeans
  <2> DEFINE f == Frame(op, node, here)
  <2>1. f.op = op /\ f.node = node /\ f.pos = here
    BY DEF Frame
  <2>2. Enter(f, node.kid, here)
    BY <1>3
  <2> HIDE DEF f
  <2> QED BY <1>3, <2>1, <2>2, OneEnters
<1>4. CASE CaptureEnter \/ TokenBoundaryEnter \/ IgnoreEnter
  BY <1>3, <1>4 DEF CaptureEnter, TokenBoundaryEnter, IgnoreEnter, Entering
<1>5. CASE AndPredicateResume
  <2>1. Resuming("and") /\ Leave(IF len = Fail THEN Fail ELSE 0)
    BY <1>5 DEF AndPredicateResume
  <2> QED BY <2>1, OneLeaves DEF Turned
<1>6. CASE NotPredicateResume
  <2>1. Resuming("not") /\ Leave(IF len = Fail THEN 0 ELSE Fail)
    BY <1>6 DEF NotPredicateResume
  <2> QED BY <2>1, OneLeaves DEF Turned
<1>7. ASSUME NEW op \in {"csc", "cap", "ign"}, Resuming(op), Leave(len) PROVE StepMeans
  BY <1>7, OneLeaves DEF Turned
<1>8. CASE CaptureScopeResume \/ CaptureResume \/ IgnoreResume
  BY <1>7, <1>8 DEF CaptureScopeResume, CaptureResume, IgnoreResume
<1> QED BY <1>1, <1>2, <1>4, <1>5, <1>6, <1>8 DEF OneStep

(* A token, after which whitespace is skipped.                             *)
LEMMA TokenMeant ==
  ASSUME FramesOK, ContextOK, Means, NEW at, Spreads(at), StackOK(frames', ctl'), TokenBoundaryResume
  PROVE  StepMeans
<1>1. Resuming("tok")
  BY DEF TokenBoundaryResume
<1>2. /\ Len(frames) \in Nat /\ Len(frames) >= 2 /\ FrameOK(top) /\ "tok" \in FrameOps /\ top.op = "tok"
      /\ Mine \in Own /\ MyEnv \in Environments(Here) /\ top.node = Mine /\ Mine.op = "tok"
      /\ top.pos \in Places /\ top.pos \in Nat /\ top.pos = Standing(frames[Len(frames) - 1])
      /\ Gets(Awaited(top), Standing(top), Inside(top, MyEnv), len) /\ len \in Lengths
      /\ HasSpace => (MyEnv.token <=> in_token_boundary_count - Debt(top, "boundary") # 0)
  BY <1>1, Resumed
<1>3. Debt(top, "boundary") = 1
  BY <1>2 DEF Debt, Owes
<1>4. Awaited(top) = Mine.kid /\ Inside(top, MyEnv) = InToken(Here, MyEnv) /\ Standing(top) = top.pos
  BY <1>2, AwaitedIs, InsideIs DEF Standing, FrameOK
<1>5. Gets(Mine.kid, top.pos, InToken(Here, MyEnv), len)
  BY <1>2, <1>4
<1>6. in_token_boundary_count' = in_token_boundary_count - 1
  BY DEF TokenBoundaryResume
<1> DEFINE skips == Skips(in_token_boundary_count - 1)
<1>7. skips <=> HasSpace /\ ~MyEnv.token
  BY <1>2, <1>3 DEF Skips, HasSpace
<1>8. IF len # Fail /\ skips THEN Resume(SkipFrame(top.pos, len), g.whitespace, top.pos + len) ELSE Leave(len)
  BY <1>6 DEF TokenBoundaryResume
<1> HIDE DEF skips
<1>9. CASE len # Fail /\ skips
  <2> DEFINE f == SkipFrame(top.pos, len)
  <2>1. f.op = "skip" /\ f.pos = top.pos /\ f.i = len
    BY DEF SkipFrame, Frame
  <2>2. Resume(f, g.whitespace, top.pos + len)
    BY <1>8, <1>9
  <2> HIDE DEF f
  <2>3. FrameMeans(f, Mine, MyEnv)
    BY <1>2, <1>5, <1>7, <1>9, <2>1 DEF FrameMeans, SkipMeans
  <2>4. Awaited(f) = g.whitespace
    BY <2>1, AwaitedIs DEF FrameOps
  <2> QED BY <1>2, <2>1, <2>2, <2>3, <2>4, MeansResumed
<1>10. CASE ~(len # Fail /\ skips)
  <2>1. frames' = Front(frames) /\ ctl'.do = "return" /\ ctl'.len = len
    BY <1>8, <1>10 DEF Leave, Return
  <2>2. Then(top.pos, MyEnv, len, len)
    BY <1>7, <1>10, ThenPlain
  <2>3. Gets(Mine, top.pos, MyEnv, len)
    BY <1>2, <1>5, <2>2, TokMatches
  <2> QED BY <1>2, <2>1, <2>3, MeansLeft
<1> QED BY <1>9, <1>10

(* Whitespace.                                                             *)
LEMMA WhitespaceMeant ==
  ASSUME FramesOK, ContextOK, Means, Classical, NEW at, Spreads(at), StackOK(frames', ctl'),
         WhitespaceEnter \/ WhitespaceResume
  PROVE  StepMeans
<1>1. CASE WhitespaceEnter
  <2>1. ctl.do = "call" /\ node.op = "wsp"
    BY <1>1 DEF WhitespaceEnter, Entering, node
  <2>2. /\ frames # <<>> /\ node = Awaited(top) /\ node \in Own
        /\ here = Standing(top) /\ here \in Places /\ top.op # "rule" /\ CallEnv \in Environments(Here)
        /\ HasSpace => (CallEnv.space <=> in_whitespace)
    BY <2>1, Calling
  <2>3. CallEnv.space <=> in_whitespace
    BY <2>1, <2>2, ClassicalIs
  <2>4. CASE in_whitespace
    <3>1. frames' = frames /\ ctl'.do = "return" /\ ctl'.len = 0
      BY <1>1, <2>4 DEF WhitespaceEnter, Answer, Return
    <3>2. ctl'.len \in Lengths
      BY DEF StackOK, ControlOK
    <3>3. Gets(node, here, CallEnv, ctl'.len)
      BY <2>1, <2>2, <2>3, <2>4, <3>1, <3>2, WspMatches
    <3> QED BY <2>1, <2>2, <3>1, <3>3, MeansAnswered
  <2>5. CASE ~in_whitespace
    <3> DEFINE f == Frame("wsp", node, here)
    <3>1. Enter(f, node.kid, here)
      BY <1>1, <2>5 DEF WhitespaceEnter
    <3>2. f.op = "wsp" /\ f.node = node
      BY DEF Frame
    <3> HIDE DEF f
    <3>3. FrameMeans(f, node, CallEnv)
      BY <2>3, <2>5, <3>2 DEF FrameMeans, OperatorMeans
    <3>4. Awaited(f) = node.kid
      BY <3>2, AwaitedIs DEF FrameOps
    <3> QED BY <2>2, <3>1, <3>2, <3>3, <3>4, MeansEntered
  <2> QED BY <2>4, <2>5
<1>2. CASE WhitespaceResume
  <2>1. Resuming("wsp") /\ frames' = Front(frames) /\ ctl'.do = "return" /\ ctl'.len = len
    BY <1>2 DEF WhitespaceResume, Leave, Return
  <2>2. /\ Len(frames) \in Nat /\ Len(frames) >= 2 /\ FrameOK(top) /\ "wsp" \in FrameOps /\ top.op = "wsp"
        /\ Mine \in Own /\ MyEnv \in Environments(Here) /\ top.node = Mine /\ Mine.op = "wsp"
        /\ top.pos \in Places /\ top.pos \in Nat /\ top.pos = Standing(frames[Len(frames) - 1])
        /\ FrameMeans(top, Mine, MyEnv) /\ len \in Lengths
        /\ Gets(Awaited(top), Standing(top), Inside(top, MyEnv), len)
    BY <2>1, Resumed
  <2>3. ~MyEnv.space
    BY <2>2 DEF FrameMeans, OperatorMeans
  <2>4. Awaited(top) = Mine.kid /\ Inside(top, MyEnv) = InSpace(Here, MyEnv) /\ Standing(top) = top.pos
    BY <2>2, AwaitedIs, InsideIs DEF Standing, FrameOK
  <2>5. Gets(Mine, top.pos, MyEnv, len)
    BY <2>2, <2>3, <2>4, WspMatches
  <2> QED BY <2>1, <2>2, <2>5, MeansLeft
<1> QED BY <1>1, <1>2

(* The operators whose meaning is not stated here are not called.          *)
LEMMA OnlyClassical ==
  ASSUME FramesOK, Classical
  PROVE  /\ ctl.do = "call" => node.op \in ClassicalOps
         /\ ~RecoveryResume
<1>1. ctl.do = "call" => node.op \in ClassicalOps
  BY CallFacts, ClassicalIs
<1>2. ASSUME RecoveryResume PROVE FALSE
  <2>1. Resuming("rec")
    BY <1>2 DEF RecoveryResume
  <2>2. FrameOK(top) /\ top.op = "rec"
    BY <2>1, ReturnFacts
  <2>3. top.node \in Own /\ top.node.op = "rec"
    BY <2>2 DEF FrameOK, HasOperator
  <2> QED BY <2>3, ClassicalIs DEF ClassicalOps
<1> QED BY <1>1, <1>2

(* Every step of an operator other than a rule keeps the meaning of the    *)
(* stack.                                                                  *)
LEMMA CombinatorMeant ==
  ASSUME FramesOK, ContextOK, Means, Classical, CutsClear, NEW at, Spreads(at), FilterSound(at), Combinator
  PROVE  StepMeans
<1>1. StackOK(frames', ctl')
  BY CombinatorStack
<1>2. ~BackReferenceEnter /\ ~RecoveryEnter /\ ~RecoveryResume /\ ~CutEnter
  BY OnlyClassical DEF BackReferenceEnter, RecoveryEnter, CutEnter, Entering, node, ClassicalOps
<1>3. CASE CharEnter
  BY <1>1, <1>3, CharMeant
<1>4. CASE LiteralEnter
  BY <1>1, <1>4, LiteralMeant
<1>5. CASE SkipResume
  BY <1>1, <1>5, SkipMeant
<1>6. CASE SequenceEnter \/ SequenceResume
  BY <1>1, <1>6, SequenceMeant
<1>7. CASE ChoiceEnter
  BY <1>1, <1>7, ChoiceEnterMeant
<1>8. CASE ChoiceMatched \/ ChoiceFailed
  BY <1>1, <1>8, ChoiceResumeMeant
<1>9. CASE RepetitionEnter
  BY <1>1, <1>9, RepetitionEnterMeant
<1>10. CASE RepetitionMatched \/ RepetitionFailed
  BY <1>1, <1>10, RepetitionResumeMeant
<1>11. CASE OneStep
  BY <1>1, <1>11, OneMeant
<1>12. CASE TokenBoundaryResume
  BY <1>1, <1>12, TokenMeant
<1>13. CASE WhitespaceEnter \/ WhitespaceResume
  BY <1>1, <1>13, WhitespaceMeant
<1> QED
  BY <1>2, <1>3, <1>4, <1>5, <1>6, <1>7, <1>8, <1>9, <1>10, <1>11, <1>12, <1>13 DEF Combinator, OneStep

----------------------------------------------------------------------------
(* Rules.                                                                  *)

(* A rule that is run: its two frames.                                     *)
LEMMA RunMeant ==
  ASSUME FramesOK, ContextOK, Means, NEW at, Spreads(at), ctl.do = "call",
         NEW f, f.op = "rule", f.node = node, f.pos = here, RunRule(f)
  PROVE  StepMeans
<1> DEFINE b == Frame("body", f.node, f.pos)  s == Append(frames, f)  t == Append(s, b)
<1>1. IsSeq(frames) /\ frames # <<>> /\ node = Awaited(top) /\ top.op # "rule"
  BY Calling DEF FramesOK, StackOK
<1>2. b.op = "body" /\ b.node = node /\ b.i = 0 /\ b.k = 0
  BY DEF Frame
<1>3. frames' = t /\ ctl'.do = "call" /\ ctl'.node = rule_of(f).body
  BY DEF RunRule, StartBody, Call
<1> HIDE DEF b
<1>4. FrameMeans(f, node, CallEnv)
  BY DEF FrameMeans, OperatorMeans
<1>5. IsSeq(s) /\ s # <<>> /\ Last(s) = f
  BY <1>1, AppendFacts
<1>6. StackMeans(s)
  BY <1>1, <1>4, MeansPushed DEF Means, CallEnv, top
<1> HIDE DEF s
<1>7. Awaited(f) = node
  BY AwaitedIs DEF FrameOps
<1>8. FrameMeans(b, node, Around(s, Len(s) + 1))
  BY <1>2 DEF FrameMeans, OperatorMeans, BodyMeans
<1>9. StackMeans(t)
  BY <1>2, <1>5, <1>6, <1>7, <1>8, MeansPushed
<1>10. Last(t) = b
  BY <1>5, AppendFacts
<1> HIDE DEF t
<1>11. Awaited(b) = rule_of(b).body /\ rule_of(b) = rule_of(f)
  BY <1>2, AwaitedIs DEF FrameOps, rule_of
<1> QED BY <1>2, <1>3, <1>9, <1>10, <1>11 DEF StepMeans, ControlMeans

(* The frame of a rule returns what the body's frame gave.                 *)
LEMMA FinishedMeant ==
  ASSUME FramesOK, ContextOK, Means, NEW at, Spreads(at), Resuming("rule"), Leave(len)
  PROVE  StepMeans
<1>1. frames' = Front(frames) /\ ctl'.do = "return" /\ ctl'.len = len
  BY DEF Leave, Return
<1>2. /\ Len(frames) \in Nat /\ Len(frames) >= 2 /\ FrameOK(top) /\ "rule" \in FrameOps /\ top.op = "rule"
      /\ MyEnv \in Environments(Here) /\ top.node = Mine
      /\ top.pos \in Nat /\ top.pos = Standing(frames[Len(frames) - 1])
      /\ Gets(Awaited(top), Standing(top), Inside(top, MyEnv), len)
  BY Resumed
<1>3. Awaited(top) = Mine /\ Inside(top, MyEnv) = MyEnv /\ Standing(top) = top.pos
  BY <1>2, AwaitedIs, InsideIs DEF Standing, FrameOK
<1>4. Gets(Mine, top.pos, MyEnv, len)
  BY <1>2, <1>3
<1> QED BY <1>1, <1>2, <1>4, MeansLeft

(* What the frame of a rule's body knows when its operand returns.         *)
LEMMA BodyKnows ==
  ASSUME FramesOK, ContextOK, Means, NEW at, Spreads(at), Resuming("body")
  PROVE  /\ Len(frames) \in Nat /\ Len(frames) >= 2 /\ FrameOK(top) /\ "body" \in FrameOps /\ top.op = "body"
         /\ Mine \in Own /\ MyEnv \in Environments(Here) /\ top.node = Mine /\ Mine.op = "ref"
         /\ top.pos \in Places /\ top.pos \in Nat /\ top.pos = Standing(frames[Len(frames) - 1])
         /\ len \in Lengths /\ top.i \in Nat /\ rule_of(top) = rules[Mine.name]
         /\ top.k = 0 => /\ top.i = 0
                         /\ Gets(rule_of(top).body, top.pos, InBody(Here, rule_of(top), MyEnv), len)
                         /\ rule_of(top).no_whitespace
                              => (Skips(in_token_boundary_count - 1) <=> HasSpace /\ ~MyEnv.token)
         /\ top.k # 0 => /\ HasSpace /\ ~MyEnv.token /\ rule_of(top).no_whitespace
                         /\ Gets(rule_of(top).body, top.pos, InToken(Here, MyEnv), top.i)
                         /\ Gets(g.whitespace, top.pos + top.i, MyEnv, len)
<1>1. /\ Len(frames) \in Nat /\ Len(frames) >= 2 /\ FrameOK(top) /\ "body" \in FrameOps /\ top.op = "body"
      /\ Mine \in Own /\ MyEnv \in Environments(Here) /\ top.node = Mine /\ Mine.op = "ref"
      /\ top.pos \in Places /\ top.pos \in Nat /\ top.pos = Standing(frames[Len(frames) - 1])
      /\ len \in Lengths /\ FrameMeans(top, Mine, MyEnv)
      /\ Gets(Awaited(top), Standing(top), Inside(top, MyEnv), len)
      /\ HasSpace => (MyEnv.token <=> in_token_boundary_count - Debt(top, "boundary") # 0)
  BY Resumed
<1>2. BodyMeans(top, MyEnv) /\ top.i \in Nat /\ Standing(top) = top.pos + top.i
  BY <1>1 DEF FrameMeans, OperatorMeans, FrameOK, Standing
<1>3. /\ Awaited(top) = IF top.k = 0 THEN rule_of(top).body ELSE g.whitespace
      /\ Inside(top, MyEnv) = IF top.k = 0 THEN InBody(Here, rule_of(top), MyEnv) ELSE MyEnv
  BY <1>1, AwaitedIs, InsideIs
<1>4. rule_of(top) = rules[Mine.name]
  BY <1>1 DEF rule_of
<1>5. CASE top.k = 0
  <2>1. top.i = 0 /\ top.pos + top.i = top.pos
    BY <1>1, <1>2, <1>5 DEF BodyMeans
  <2>2. Gets(rule_of(top).body, top.pos, InBody(Here, rule_of(top), MyEnv), len)
    BY <1>1, <1>2, <1>3, <1>5, <2>1
  <2>3. rule_of(top).no_whitespace => Debt(top, "boundary") = 1
    BY <1>1, <1>5 DEF Debt, Owes
  <2>4. rule_of(top).no_whitespace => (Skips(in_token_boundary_count - 1) <=> HasSpace /\ ~MyEnv.token)
    BY <1>1, <2>3 DEF Skips, HasSpace
  <2> QED BY <1>1, <1>2, <1>4, <1>5, <2>1, <2>2, <2>4
<1>6. CASE top.k # 0
  <2>1. Gets(g.whitespace, top.pos + top.i, MyEnv, len)
    BY <1>1, <1>2, <1>3, <1>6
  <2> QED BY <1>1, <1>2, <1>4, <1>6, <2>1 DEF BodyMeans
<1> QED BY <1>5, <1>6

(* The whitespace after a rule with the no_whitespace instruction.         *)
LEMMA BodySkipsMeant ==
  ASSUME FramesOK, ContextOK, Means, NEW at, Spreads(at), BodySkips
  PROVE  StepMeans
<1>1. Resuming("body") /\ top.k = 0 /\ rule_of(top).no_whitespace /\ Skips(in_token_boundary_count - 1)
  BY DEF BodySkips, in_boundary
<1> DEFINE f == Advanced(top, len, 1)
<1>2. Resume(f, g.whitespace, top.pos + len)
  BY DEF BodySkips, Advanced
<1>3. /\ Len(frames) >= 2 /\ FrameOK(top) /\ "body" \in FrameOps /\ top.op = "body" /\ top.node = Mine
      /\ HasSpace /\ ~MyEnv.token
      /\ Gets(rule_of(top).body, top.pos, InToken(Here, MyEnv), len)
  BY <1>1, BodyKnows DEF InBody
<1>4. f.op = "body" /\ f.node = Mine /\ f.pos = top.pos /\ f.i = len /\ f.k = 1
  BY <1>3, AdvancedIs DEF FrameOf
<1> HIDE DEF f
<1>5. rule_of(f) = rule_of(top)
  BY <1>3, <1>4 DEF rule_of
<1>6. FrameMeans(f, Mine, MyEnv)
  BY <1>1, <1>3, <1>4, <1>5 DEF FrameMeans, OperatorMeans, BodyMeans
<1>7. Awaited(f) = g.whitespace
  BY <1>3, <1>4, AwaitedIs
<1> QED BY <1>2, <1>3, <1>4, <1>6, <1>7, MeansResumed

(* The end of a rule's body: what the rule matches.                        *)
LEMMA BodyMeant ==
  ASSUME FramesOK, ContextOK, Means, NEW at, Spreads(at), StackOK(frames', ctl'), BodyReturns
  PROVE  StepMeans
<1> DEFINE r == rule_of(top)  m == IF len = Fail THEN Fail ELSE top.i + len
<1>1. /\ Resuming("body") /\ frames' = Front(frames)
      /\ ~(in_boundary(top) /\ top.k = 0 /\ len # Fail /\ Skips(in_token_boundary_count - 1))
  BY DEF BodyReturns
<1>2. ctl'.do = "return" /\ ctl'.len = Accepted(Here, r, top.pos, m)
  BY HereIs DEF BodyReturns, Return, Accepted
<1>3. /\ Len(frames) \in Nat /\ Len(frames) >= 2
      /\ Mine \in Own /\ MyEnv \in Environments(Here) /\ Mine.op = "ref"
      /\ top.pos \in Places /\ top.pos = Standing(frames[Len(frames) - 1])
      /\ len \in Lengths /\ top.i \in Nat /\ r = rules[Mine.name]
      /\ top.k = 0 => /\ top.i = 0 /\ Gets(r.body, top.pos, InBody(Here, r, MyEnv), len)
                      /\ r.no_whitespace => (Skips(in_token_boundary_count - 1) <=> HasSpace /\ ~MyEnv.token)
      /\ top.k # 0 => /\ HasSpace /\ ~MyEnv.token /\ r.no_whitespace
                      /\ Gets(r.body, top.pos, InToken(Here, MyEnv), top.i)
                      /\ Gets(g.whitespace, top.pos + top.i, MyEnv, len)
  BY <1>1, BodyKnows
<1>4. /\ ctl'.len \in Lengths /\ m \in Lengths
      /\ m = Plus(top.i, len) /\ top.i # Fail /\ (top.i = 0 => m = len)
  <2>1. len # Fail => top.i + len \in Places /\ len \in Nat
    BY <1>1, ReturnFacts
  <2> QED BY <1>3, <2>1 DEF StackOK, ControlOK, Lengths, Plus, Fail
<1>5. in_boundary(top) <=> r.no_whitespace /\ top.k = 0
  BY DEF in_boundary
<1> HIDE DEF r, m
<1>6. CASE top.k = 0
  <2>1. m = len
    BY <1>3, <1>4, <1>6
  <2>2. r.no_whitespace => len = Fail \/ MyEnv.token \/ ~HasSpace
    BY <1>1, <1>3, <1>5, <1>6
  <2>3. r.no_whitespace => Then(top.pos, MyEnv, len, m)
    BY <2>1, <2>2, ThenPlain
  <2>4. Gets(Mine, top.pos, MyEnv, ctl'.len)
    BY <1>2, <1>3, <1>4, <1>6, <2>1, <2>3, RefMatches
  <2> QED BY <1>1, <1>2, <1>3, <2>4, MeansLeft
<1>7. CASE top.k # 0
  <2>1. Then(top.pos, MyEnv, top.i, m)
    BY <1>3, <1>4, <1>7, ThenSpace
  <2>2. Gets(r.body, top.pos, InBody(Here, r, MyEnv), top.i)
    BY <1>3, <1>7 DEF InBody
  <2>3. Gets(Mine, top.pos, MyEnv, ctl'.len)
    BY <1>2, <1>3, <1>4, <1>7, <2>1, <2>2, RefMatches
  <2> QED BY <1>1, <1>2, <1>3, <2>3, MeansLeft
<1> QED BY <1>6, <1>7

(* No rule grows a seed.                                                   *)
LEMMA NoGrower ==
  ASSUME FramesOK, Classical
  PROVE  ~LeftRecursive /\ ~Growing
<1>1. ~LeftRecursive
  <2>1. Entering("ref") => callee = rules[node.name] /\ node.name \in Names
    BY KeyFacts DEF callee
  <2> QED BY <2>1, ClassicalIs DEF LeftRecursive
<1>2. ~Growing
  <2>1. Resuming("rule") => rule_of(top) = rules[name_of(top)] /\ name_of(top) \in Names
    BY RuleFacts DEF rule_of, name_of
  <2> QED BY <2>1, ClassicalIs DEF Growing
<1> QED BY <1>1, <1>2

(* What a memo answers with is what the rule matches.                      *)
LEMMA KnownMeant ==
  ASSUME FramesOK, ContextOK, Means, NEW at, Spreads(at), Entering("ref"),
         NEW entry, Known(entry), Gets(node, here, CallEnv, entry.len)
  PROVE  StepMeans
<1>1. frames' = frames /\ ctl'.do = "return" /\ ctl'.len = entry.len
  BY DEF Known, Answer, Return
<1>2. ctl.do = "call"
  BY DEF Entering
<1> QED BY <1>1, <1>2, Calling, MeansAnswered

(* The guards refuse nothing, and every rule that is called is answered    *)
(* from its memo or run.                                                   *)
LEMMA RuleCallMeant ==
  ASSUME FramesOK, RulesOK, ContextOK, Means, NEW at, NEW rank, Covers(at, rank), MemosMean(at), RuleCall
  PROVE  StepMeans
<1>1. Classical /\ Spreads(at) /\ ~Reenters
  BY NeverReenters DEF Covers, Means
<1>2. ~LeftRecursive /\ ~Growing
  BY <1>1, NoGrower
<1>3. ASSUME Entering("ref")
      PROVE  /\ ~\E x \in InProgress(frames) : x.name = node.name /\ x.pos = here
             /\ node.name \in Names /\ here \in Places /\ here # NoPos /\ key = <<node.name, here>>
             /\ node \in Own /\ node.op = "ref" /\ ctl.do = "call" /\ CallEnv \in at[node]
             /\ Frame("rule", node, here).op = "rule" /\ Frame("rule", node, here).node = node
             /\ Frame("rule", node, here).pos = here
  <2>1. ctl.do = "call"
    BY <1>3 DEF Entering
  <2> QED BY <1>1, <1>3, <2>1, KeyFacts, Calling, InputFacts DEF Reenters, key
<1>4. CASE MemoHit
  <2>1. Entering("ref") /\ memo[key] # NoMemo /\ Known(memo[key])
    BY <1>4 DEF MemoHit, Memoized, registered
  <2>2. EntryMeans(at, node, here, memo[key], InProgress(frames))
    BY <1>3, <2>1 DEF MemosMean
  <2>3. Gets(node, here, CallEnv, memo[key].len)
    BY <1>3, <2>1, <2>2 DEF EntryMeans
  <2> QED BY <1>1, <2>1, <2>3, KnownMeant
<1>5. CASE MemoMiss
  BY <1>1, <1>3, <1>5, RunMeant DEF MemoMiss, Memoized
<1>6. CASE MemoReturn \/ GuardReturn \/ PlainReturn
  <2>1. Resuming("rule") /\ Leave(len)
    BY <1>6 DEF MemoReturn, GuardReturn, PlainReturn, Returning, Finished
  <2> QED BY <1>1, <2>1, FinishedMeant
<1>7. CASE GuardHit
  <2>1. Entering("ref") /\ active_pos[node.name] = here
    BY <1>7 DEF GuardHit, Guarded
  <2>2. Latest(InProgress(frames), node.name, here)
    BY <1>3, <2>1 DEF RulesOK, CallsOK
  <2> QED BY <1>3, <2>1, <2>2 DEF Latest
<1>8. CASE GuardMiss
  <2> DEFINE f == [Frame("rule", node, here) EXCEPT !.save = active_pos[node.name]]
  <2>1. Entering("ref") /\ RunRule(f)
    BY <1>8 DEF GuardMiss, Guarded
  <2>2. f.op = "rule" /\ f.node = node /\ f.pos = here
    BY SavedIs
  <2> HIDE DEF f
  <2> QED BY <1>1, <1>3, <2>1, <2>2, RunMeant
<1>9. CASE PlainHit
  <2>1. Entering("ref") /\ lr_memo[key] # NoMemo /\ ~rules[node.name].is_left_recursive
    BY <1>9 DEF PlainHit, Plain, callee
  <2>2. \E x \in InProgress(frames) : x.name = node.name /\ x.pos = here
    BY <1>3, <2>1 DEF RulesOK, CallsOK
  <2> QED BY <1>3, <2>1, <2>2
<1>10. CASE PlainMiss
  BY <1>1, <1>3, <1>10, RunMeant DEF PlainMiss, Plain
<1>11. CASE SeedHit \/ SeedStart \/ SeedReturn \/ GrowReturn
  BY <1>2, <1>11 DEF SeedHit, SeedStart, SeedReturn, GrowReturn
<1>12. CASE BodySkips
  BY <1>1, <1>12, BodySkipsMeant
<1>13. CASE BodyReturns
  <2>1. StackOK(frames', ctl')
    BY <1>13, RuleCallKeeps DEF RuleCall
  <2> QED BY <1>1, <1>13, <2>1, BodyMeant
<1> QED BY <1>4, <1>5, <1>6, <1>7, <1>8, <1>9, <1>10, <1>11, <1>12, <1>13 DEF RuleCall

----------------------------------------------------------------------------
(* The memo.                                                               *)
StepMemos(at) ==
  \A e \in Own, p \in Places : e.op = "ref" =>
    EntryMeans(at, e, p, memo'[<<e.name, p>>], InProgress(frames'))

(* A step that writes no entry and ends no rule keeps what they mean.      *)
LEMMA MemosKept ==
  ASSUME NEW at, MemosMean(at), memo' = memo, InProgress(frames) \subseteq InProgress(frames')
  PROVE  StepMemos(at)
BY DEF MemosMean, StepMemos, EntryMeans

(* A rule that is run is in progress.                                      *)
LEMMA RunCalls ==
  ASSUME FramesOK, NEW f, f.op = "rule", f.node = node, f.pos = here, RunRule(f)
  PROVE  /\ InProgress(frames) \subseteq InProgress(frames')
         /\ \E x \in InProgress(frames') : x.name = node.name /\ x.pos = here
<1> DEFINE b == Frame("body", f.node, f.pos)  s == Append(frames, f)
           x == [depth |-> Len(frames) + 1, name |-> f.node.name, pos |-> f.pos, save |-> f.save]
<1>1. frames' = Append(s, b) /\ b.op = "body" /\ IsSeq(frames)
  BY DEF RunRule, Frame, FramesOK, StackOK
<1> HIDE DEF b
<1>2. InProgress(s) = InProgress(frames) \cup {x} /\ IsSeq(s)
  BY <1>1, CallsPushed, AppendFacts
<1> HIDE DEF s
<1>3. InProgress(frames') = InProgress(s)
  BY <1>1, <1>2, CallsPushed
<1>4. x.name = node.name /\ x.pos = here
  OBVIOUS
<1> HIDE DEF x
<1> QED BY <1>2, <1>3, <1>4

(* When a rule ends, the others are still in progress.                     *)
LEMMA EndedCalls ==
  ASSUME FramesOK, Resuming("rule"), frames' = Front(frames), NEW x \in InProgress(frames)
  PROVE  x \in InProgress(frames') \/ (x.name = top.node.name /\ x.pos = top.pos)
<1> DEFINE n == Len(frames)
<1>1. IsSeq(frames) /\ frames # <<>> /\ n \in Nat
  BY SeqFacts DEF FramesOK, StackOK, Resuming
<1>2. InProgress(frames') = {y \in InProgress(frames) : y.depth < n}
  BY <1>1, CallsPopped
<1>3. x.depth \in 1 .. n /\ x = Running(frames, x.depth)
  BY CallFrames
<1>4. CASE x.depth = n
  BY <1>3, <1>4, RunningFacts DEF top, Last
<1>5. CASE x.depth # n
  BY <1>1, <1>2, <1>3, <1>5
<1> QED BY <1>4, <1>5

(* What a rule that ends writes is what it matches wherever it is called.  *)
LEMMA EndMemos ==
  ASSUME FramesOK, RulesOK, ContextOK, Means, NEW at, NEW rank, Covers(at, rank), MemosMean(at),
         MemoReturn \/ GuardReturn \/ PlainReturn
  PROVE  StepMemos(at)
<1>1. /\ Resuming("rule") /\ frames' = Front(frames) /\ ~rule_of(top).is_left_recursive
      /\ GuardReturn \/ PlainReturn => memo' = memo /\ ~(job.packrat /\ rule_of(top).cached)
  BY DEF MemoReturn, GuardReturn, PlainReturn, Returning, Finished, Leave
<1>2. /\ name_of(top) \in Names /\ top.pos \in Places /\ rule_of(top) = rules[name_of(top)]
      /\ InRule(top) = <<name_of(top), top.pos>> /\ DOMAIN memo = Names \X Places
      /\ name_of(top) = top.node.name
  BY <1>1, RuleFacts DEF rule_of, name_of, FramesOK, MemosOK, EntriesOK
<1>3. Classical /\ Spreads(at) /\ MemoSound(at)
  BY DEF Covers
<1>4. /\ Mine \in Own /\ MyEnv \in at[Mine] /\ MyEnv \in Environments(Here) /\ top.node = Mine
      /\ Mine.op = "ref" /\ len \in Lengths /\ Gets(Mine, top.pos, MyEnv, len)
  <2>1. /\ FrameOK(top) /\ "rule" \in FrameOps /\ top.op = "rule" /\ top.node = Mine /\ Mine.op = "ref"
        /\ Mine \in Own /\ MyEnv \in at[Mine] /\ MyEnv \in Environments(Here)
        /\ Gets(Awaited(top), Standing(top), Inside(top, MyEnv), len) /\ len \in Lengths
    BY <1>1, <1>3, Resumed
  <2>2. Awaited(top) = Mine /\ Inside(top, MyEnv) = MyEnv /\ Standing(top) = top.pos
    BY <1>2, <2>1, AwaitedIs, InsideIs, InputFacts DEF Standing, FrameOK, FramesOK
  <2> QED BY <2>1, <2>2
<1>5. job.packrat /\ rule_of(top).cached => \A env \in at[Mine] : Gets(Mine, top.pos, env, len)
  BY <1>2, <1>3, <1>4 DEF MemoSound
<1>6. ASSUME NEW e \in Own, NEW p \in Places, e.op = "ref", memo'[<<e.name, p>>] # NoMemo
      PROVE  EntryMeans(at, e, p, memo'[<<e.name, p>>], InProgress(frames'))
  <2> DEFINE q == <<e.name, p>>
  <2>1. e.name \in Names /\ q \in Names \X Places
    BY <1>6, OperatorFacts DEF FramesOK
  <2>2. EntryMeans(at, e, p, memo[q], InProgress(frames))
    BY <1>6 DEF MemosMean
  <2>3. CASE e.name = name_of(top) /\ p = top.pos
    <3>1. e = Mine
      BY <1>2, <1>3, <1>4, <1>6, <2>3, ClassicalIs
    <3>2. q = InRule(top)
      BY <1>2, <2>3
    <3>3. CASE MemoReturn
      <4>1. job.packrat /\ rule_of(top).cached
        BY <3>3 DEF MemoReturn
      <4>2. \A env \in at[e] : Gets(e, p, env, len)
        BY <1>5, <2>3, <3>1, <4>1
      <4>3. CASE len # Fail
        <5>1. memo' = [memo EXCEPT ![InRule(top)] = Entry(len, ctl.val)]
          BY <1>2, <3>3, <4>1, <4>3 DEF MemoReturn, write_packrat_cache, rule_of, name_of
        <5>2. memo'[q].len = len
          BY <1>2, <2>1, <3>2, <5>1 DEF Entry
        <5> QED BY <1>2, <2>3, <4>1, <4>2, <5>2 DEF EntryMeans
      <4>4. CASE len = Fail
        <5>1. memo' = memo
          BY <3>3, <4>4 DEF MemoReturn
        <5>2. memo[q] = Failed => memo[q].len = len
          BY <4>4 DEF Failed, Entry
        <5> QED BY <1>6, <2>2, <4>2, <5>1, <5>2 DEF EntryMeans
      <4> QED BY <4>3, <4>4
    <3>4. CASE GuardReturn \/ PlainReturn
      BY <1>1, <1>2, <1>6, <2>2, <2>3, <3>4 DEF EntryMeans
    <3> QED BY <3>3, <3>4
  <2>4. CASE ~(e.name = name_of(top) /\ p = top.pos)
    <3>1. q # InRule(top)
      BY <1>2, <2>4
    <3>2. memo'[q] = memo[q]
      <4>1. memo' = memo \/ memo' = [memo EXCEPT ![InRule(top)] = Entry(len, ctl.val)]
        BY <1>1, <1>2 DEF MemoReturn, write_packrat_cache
      <4> QED BY <1>2, <2>1, <3>1, <4>1
    <3>3. \A x \in InProgress(frames) : x.name = e.name /\ x.pos = p => x \in InProgress(frames')
      BY <1>1, <1>2, <2>4, EndedCalls
    <3> QED BY <1>6, <2>2, <3>2, <3>3 DEF EntryMeans
  <2> QED BY <2>3, <2>4
<1> QED BY <1>6 DEF StepMemos, EntryMeans

(* Every step of a rule call keeps what the memo means.                    *)
LEMMA RuleCallMemos ==
  ASSUME FramesOK, RulesOK, ContextOK, Means, NEW at, NEW rank, Covers(at, rank), MemosMean(at), RuleCall
  PROVE  StepMemos(at)
<1>1. ~LeftRecursive /\ ~Growing
  BY NoGrower DEF Covers
<1>2. CASE MemoHit \/ GuardHit \/ PlainHit
  <2>1. frames' = frames /\ memo' = memo
    BY <1>2 DEF MemoHit, GuardHit, PlainHit, Known, Answer, memos
  <2> QED BY <2>1, MemosKept DEF InProgress
<1>3. ASSUME Entering("ref"), NEW f, f.op = "rule", f.node = node, f.pos = here, RunRule(f), memo' = memo
      PROVE  StepMemos(at)
  BY <1>3, RunCalls, MemosKept
<1>4. CASE MemoMiss
  <2> DEFINE f == Frame("rule", node, here)
  <2>1. /\ Entering("ref") /\ RunRule(f) /\ memo' = [memo EXCEPT ![key] = Failed]
        /\ job.packrat /\ rules[node.name].cached
    BY <1>4 DEF MemoMiss, Memoized, callee
  <2>2. f.op = "rule" /\ f.node = node /\ f.pos = here
    BY DEF Frame
  <2> HIDE DEF f
  <2>3. /\ InProgress(frames) \subseteq InProgress(frames')
        /\ \E x \in InProgress(frames') : x.name = node.name /\ x.pos = here
    BY <2>1, <2>2, RunCalls
  <2>4. key = <<node.name, here>> /\ key \in Names \X Places /\ DOMAIN memo = Names \X Places
    BY <2>1, KeyFacts DEF key, FramesOK, MemosOK, EntriesOK
  <2>5. ASSUME NEW e \in Own, NEW p \in Places, e.op = "ref"
        PROVE  EntryMeans(at, e, p, memo'[<<e.name, p>>], InProgress(frames'))
    <3>1. e.name \in Names /\ <<e.name, p>> \in Names \X Places
      BY <2>5, OperatorFacts DEF FramesOK
    <3>2. EntryMeans(at, e, p, memo[<<e.name, p>>], InProgress(frames))
      BY <2>5 DEF MemosMean
    <3>3. CASE e.name = node.name /\ p = here
      <4>1. memo'[<<e.name, p>>] = Failed
        BY <2>1, <2>4, <3>1, <3>3
      <4> QED BY <2>1, <2>3, <3>3, <4>1 DEF EntryMeans
    <3>4. CASE ~(e.name = node.name /\ p = here)
      <4>1. memo'[<<e.name, p>>] = memo[<<e.name, p>>]
        BY <2>1, <2>4, <3>1, <3>4
      <4> QED BY <2>3, <3>2, <4>1 DEF EntryMeans
    <3> QED BY <3>3, <3>4
  <2> QED BY <2>5 DEF StepMemos
<1>5. CASE MemoReturn \/ GuardReturn \/ PlainReturn
  BY <1>5, EndMemos
<1>6. CASE GuardMiss
  <2> DEFINE f == [Frame("rule", node, here) EXCEPT !.save = active_pos[node.name]]
  <2>1. Entering("ref") /\ RunRule(f) /\ memo' = memo
    BY <1>6 DEF GuardMiss, Guarded
  <2>2. f.op = "rule" /\ f.node = node /\ f.pos = here
    BY SavedIs
  <2> HIDE DEF f
  <2> QED BY <1>3, <2>1, <2>2
<1>7. CASE PlainMiss
  <2> DEFINE f == Frame("rule", node, here)
  <2>1. Entering("ref") /\ RunRule(f) /\ memo' = memo
    BY <1>7 DEF PlainMiss, Plain
  <2>2. f.op = "rule" /\ f.node = node /\ f.pos = here
    BY DEF Frame
  <2> HIDE DEF f
  <2> QED BY <1>3, <2>1, <2>2
<1>8. CASE SeedHit \/ SeedStart \/ SeedReturn \/ GrowReturn
  BY <1>1, <1>8 DEF SeedHit, SeedStart, SeedReturn, GrowReturn
<1>9. CASE BodySkips \/ BodyReturns
  <2>1. Moves(QuietOps) /\ memo' = memo
    <3>1. CASE BodyReturns
      <4>1. frames # <<>> /\ Last(frames).op = "body" /\ frames' = Front(frames) /\ memo' = memo
        BY <3>1 DEF BodyReturns, Resuming, memos
      <4> QED BY <4>1 DEF Moves, QuietOps, FrameOps
    <3>2. CASE BodySkips
      <4> DEFINE f == Advanced(top, len, 1)
      <4>1. Resuming("body") /\ frames' = SetTop(frames, f) /\ memo' = memo
        BY <3>2 DEF BodySkips, Resume, Advanced, memos
      <4>2. f.op = "body"
        BY <4>1, ReturnFacts, AdvancedIs DEF FrameOf
      <4> HIDE DEF f
      <4> QED BY <4>1, <4>2 DEF Moves, QuietOps, FrameOps, Resuming
    <3> QED BY <1>9, <3>1, <3>2
  <2> QED BY <2>1, QuietCalls, MemosKept
<1> QED BY <1>2, <1>4, <1>5, <1>6, <1>7, <1>8, <1>9 DEF RuleCall

(* No operator writes the memo.                                            *)
LEMMA CombinatorMemos ==
  ASSUME FramesOK, NEW at, MemosMean(at), Combinator
  PROVE  StepMemos(at)
BY CombinatorLeaves, CombinatorMoves, QuietCalls, MemosKept

----------------------------------------------------------------------------
(* Cuts.                                                                   *)
StepCuts == \A k \in DOMAIN cut_stack' : ~cut_stack'[k]

(* A stack of flags that are not set, with one more, one less, or its last *)
(* one cleared.                                                            *)
LEMMA ClearFlags ==
  ASSUME NEW s \in Seq(BOOLEAN), \A k \in DOMAIN s : ~s[k]
  PROVE  /\ \A k \in DOMAIN Append(s, FALSE) : ~Append(s, FALSE)[k]
         /\ s # <<>> => /\ \A k \in DOMAIN SetTop(s, FALSE) : ~SetTop(s, FALSE)[k]
                        /\ \A k \in DOMAIN Front(s) : ~Front(s)[k]
<1>1. IsSeq(s) /\ Len(s) \in Nat /\ DOMAIN s = 1 .. Len(s)
  BY SeqIsSeq
<1>2. \A k \in DOMAIN Append(s, FALSE) : ~Append(s, FALSE)[k]
  <2> DEFINE t == Append(s, FALSE)
  <2>1. /\ DOMAIN t = 1 .. Len(s) + 1 /\ t[Len(s) + 1] = FALSE /\ \A k \in 1 .. Len(s) : t[k] = s[k]
    BY <1>1, AppendFacts
  <2> HIDE DEF t
  <2>2. \A k \in DOMAIN t : ~t[k]
    BY <1>1, <2>1
  <2> QED BY <2>2 DEF t
<1>3. ASSUME s # <<>> PROVE \A k \in DOMAIN SetTop(s, FALSE) : ~SetTop(s, FALSE)[k]
  <2> DEFINE t == SetTop(s, FALSE)
  <2>1. /\ DOMAIN t = 1 .. Len(s) /\ t[Len(s)] = FALSE /\ \A k \in 1 .. Len(s) - 1 : t[k] = s[k]
    BY <1>1, <1>3, SetTopFacts
  <2> HIDE DEF t
  <2>2. \A k \in DOMAIN t : ~t[k]
    BY <1>1, <2>1
  <2> QED BY <2>2 DEF t
<1>4. ASSUME s # <<>> PROVE \A k \in DOMAIN Front(s) : ~Front(s)[k]
  <2> DEFINE t == Front(s)
  <2>1. DOMAIN t = 1 .. Len(s) - 1 /\ \A k \in 1 .. Len(s) - 1 : t[k] = s[k]
    BY <1>1, <1>4, FrontFacts
  <2> HIDE DEF t
  <2>2. \A k \in DOMAIN t : ~t[k]
    BY <1>1, <2>1
  <2> QED BY <2>2 DEF t
<1> QED BY <1>2, <1>3, <1>4

(* Without cut operators and recovery no flag is ever set.                 *)
LEMMA CombinatorCuts ==
  ASSUME FramesOK, ContextOK, Classical, CutsClear, Combinator
  PROVE  StepCuts
<1>1. ~BackReferenceEnter /\ ~RecoveryEnter /\ ~RecoveryResume /\ ~CutEnter
  BY OnlyClassical DEF BackReferenceEnter, RecoveryEnter, CutEnter, Entering, node, ClassicalOps
<1>2. /\ cut_stack \in Seq(BOOLEAN) /\ Len(cut_stack) \in Nat /\ Len(cut_stack) = Owed(frames, "flag")
      /\ (cut_stack = <<>> <=> Len(cut_stack) = 0)
  BY ContextFacts, SeqIsSeq
<1>3. \A k \in DOMAIN cleared(cut_stack) : ~cleared(cut_stack)[k]
  BY <1>2, ClearFlags DEF cleared, CutsClear
<1>4. CASE ChoiceEnter
  <2>1. \/ cut_stack' = cut_stack \/ cut_stack' = Append(cut_stack, FALSE)
        \/ cut_stack' = cleared(cut_stack)
    BY <1>4 DEF ChoiceEnter
  <2> QED BY <1>2, <1>3, <2>1, ClearFlags DEF StepCuts, CutsClear
<1>5. CASE ChoiceMatched \/ ChoiceFailed
  <2>1. /\ Resuming("cho") /\ frames # <<>> /\ IsSeq(frames)
        /\ cut_stack' = ended(top.node) \/ cut_stack' = cleared(cut_stack)
    BY <1>5 DEF ChoiceMatched, ChoiceFailed, Resuming, FramesOK, StackOK
  <2>2. tracks_cut(top.node) => cut_stack # <<>>
    <3>1. SUFFICES ASSUME tracks_cut(top.node) PROVE Len(cut_stack) # 0
      BY <1>2
    <3>2. top.op = "cho" /\ Debt(top, "flag") = 1
      BY <2>1, <3>1, Debts DEF Resuming, top
    <3>3. Owed(frames, "flag") = Owed(Front(frames), "flag") + Debt(top, "flag")
      BY <2>1, OwedPopped DEF top
    <3>4. Owed(Front(frames), "flag") \in Nat
      BY <2>1, FrontFacts, OwedType
    <3> QED BY <1>2, <3>2, <3>3, <3>4
  <2>3. \A k \in DOMAIN ended(top.node) : ~ended(top.node)[k]
    BY <1>2, <2>2, ClearFlags DEF ended, CutsClear
  <2> QED BY <1>3, <2>1, <2>3 DEF StepCuts
<1>6. CASE ~(ChoiceEnter \/ ChoiceMatched \/ ChoiceFailed)
  <2>1. UNCHANGED cut_stack
    BY <1>1, <1>6 DEF Combinator, CharEnter, LiteralEnter, SkipResume, SequenceEnter, SequenceResume,
      RepetitionEnter, RepetitionMatched, RepetitionFailed, PredicateEnter, AndPredicateResume,
      NotPredicateResume, CaptureScopeEnter, CaptureScopeResume, CaptureEnter, CaptureResume,
      TokenBoundaryEnter, TokenBoundaryResume, IgnoreEnter, IgnoreResume, WhitespaceEnter,
      WhitespaceResume, context, silent
  <2> QED BY <2>1 DEF StepCuts, CutsClear
<1> QED BY <1>4, <1>5, <1>6

(* Rule calls cut nothing.                                                 *)
LEMMA RuleCallCuts ==
  ASSUME CutsClear, RuleCall PROVE StepCuts
<1>1. cut_stack' = cut_stack
  BY DEF RuleCall, MemoHit, MemoMiss, MemoReturn, GuardHit, GuardMiss, GuardReturn, PlainHit, PlainMiss,
    PlainReturn, SeedHit, SeedStart, SeedReturn, GrowReturn, BodySkips, BodyReturns, Known, Finished,
    RunRule, RunRuleAgain, StartBody, Grow
<1> QED BY <1>1 DEF CutsClear, StepCuts

----------------------------------------------------------------------------
(* The first frame: what the parse returns.                                *)

(* The first frame is there until the parse returns from it.               *)
LEMMA StillParsing ==
  ASSUME FramesOK, Combinator \/ RuleCall PROVE frames # <<>> /\ frames' # <<>>
<1>1. frames # <<>> /\ IsSeq(frames)
  <2>1. ctl.do = "call" \/ frames # <<>>
    BY DEF Combinator, CharEnter, LiteralEnter, BackReferenceEnter, SkipResume, SequenceEnter,
      SequenceResume, ChoiceEnter, ChoiceMatched, ChoiceFailed, RepetitionEnter, RepetitionMatched,
      RepetitionFailed, PredicateEnter, AndPredicateResume, NotPredicateResume, CaptureScopeEnter,
      CaptureScopeResume, CaptureEnter, CaptureResume, TokenBoundaryEnter, TokenBoundaryResume,
      IgnoreEnter, IgnoreResume, WhitespaceEnter, WhitespaceResume, RecoveryEnter, RecoveryResume,
      CutEnter, RuleCall, MemoHit, MemoMiss, MemoReturn, GuardHit, GuardMiss, GuardReturn, PlainHit,
      PlainMiss, PlainReturn, SeedHit, SeedStart, SeedReturn, GrowReturn, BodySkips, BodyReturns,
      Memoized, Guarded, Plain, LeftRecursive, Returning, Growing, Entering, Resuming
  <2> QED BY <2>1, CallFacts DEF FramesOK, StackOK
<1>2. ASSUME Last(frames).op # "top" PROVE Front(frames) # <<>>
  <2>1. Last(frames) = frames[Len(frames)] /\ Len(frames) \in Nat /\ Len(frames) # 0
        /\ DOMAIN frames = 1 .. Len(frames)
    BY <1>1, SeqFacts DEF Last
  <2>2. Len(frames) # 1
    BY <1>2, <2>1 DEF FramesOK, StackOK
  <2>3. Len(Front(frames)) # 0 /\ IsSeq(Front(frames))
    BY <1>1, <2>1, <2>2, FrontFacts
  <2> QED BY <2>3, SeqFacts
<1>3. CASE Combinator
  <2>1. Moves(InnerOps)
    BY <1>3, CombinatorStays
  <2> QED BY <1>1, <1>2, <2>1, AppendFacts, SetTopFacts DEF Moves, InnerOps
<1>4. CASE RuleCall
  <2>1. \/ frames' = frames
        \/ \E s, f : (s = frames \/ \E x : s = Append(frames, x) \/ s = SetTop(frames, x)) /\ frames' = Append(s, f)
        \/ \E x : frames' = SetTop(frames, x)
        \/ (Resuming("rule") \/ Resuming("body")) /\ frames' = Front(frames)
    BY <1>4 DEF RuleCall, MemoHit, MemoMiss, MemoReturn, GuardHit, GuardMiss, GuardReturn, PlainHit,
      PlainMiss, PlainReturn, SeedHit, SeedStart, SeedReturn, GrowReturn, BodySkips, BodyReturns,
      Known, Finished, RunRule, RunRuleAgain, Grow, Returning, Growing, Answer, Leave, Resume
  <2> QED BY <1>1, <1>2, <2>1, AppendFacts, SetTopFacts DEF Resuming
<1> QED BY <1>3, <1>4

(* What the first frame knows when its operand returns.                    *)
LEMMA TopKnows ==
  ASSUME FramesOK, Means, Resuming("top")
  PROVE  /\ IsSeq(frames) /\ frames # <<>> /\ Len(frames) = 1 /\ DOMAIN frames = 1 .. 1
         /\ frames[1] = top /\ Last(frames) = top /\ FrameOK(top) /\ top.op = "top" /\ job \in Jobs
         /\ TopMeans(top) /\ top.i \in Lengths /\ top.i # Fail /\ len \in Lengths
         /\ Gets(IF top.k = 0 /\ HasSpace THEN g.whitespace ELSE Ref(g.start), top.i, Outermost, len)
<1>1. /\ IsSeq(frames) /\ frames # <<>> /\ FrameOK(top) /\ top.op = "top" /\ ctl.do = "return"
      /\ len \in Lengths /\ job \in Jobs /\ Standing(top) \in Places
      /\ Lengths = Places \cup {Fail} /\ Places = 0 .. Len(input) /\ top.i \in Nat
  BY ReturnFacts DEF FramesOK, StackOK
<1>2. /\ Last(frames) = top /\ top = frames[Len(frames)] /\ Len(frames) \in Nat /\ Len(frames) # 0
      /\ DOMAIN frames = 1 .. Len(frames)
  BY <1>1, SeqFacts DEF Last, top
<1>3. Len(frames) = 1
  BY <1>1, <1>2 DEF FramesOK, StackOK
<1>4. TopMeans(top)
  BY <1>2, <1>3 DEF Means, StackMeans
<1>5. top.pos = 0 /\ Standing(top) = top.i
  BY <1>1 DEF FrameOK, Standing
<1>6. top.i \in Lengths /\ top.i # Fail
  BY <1>1, <1>5 DEF Fail
<1>7. Around(frames, Len(frames) + 1) = Outermost
  <2>1. Len(frames) + 1 = 1 + 1 /\ 1 \in Nat /\ 1 # 0
    BY <1>3
  <2>2. Around(frames, 1 + 1) = Inside(top, Around(frames, 1))
    BY <1>2, <1>3, <2>1, AroundNext
  <2>3. Around(frames, 1) = Outermost
    BY DEF Around, Outermost
  <2>4. Inside(top, Outermost) = Outermost
    BY <1>1, <2>3, AroundIn, InsideIs DEF FrameOK
  <2> QED BY <2>1, <2>2, <2>3, <2>4
<1>8. Awaited(top) = IF top.k = 0 /\ HasSpace THEN g.whitespace ELSE Ref(g.start)
  BY <1>1, AwaitedIs DEF FrameOK
<1>9. Gets(Awaited(top), Standing(top), Outermost, len)
  BY <1>1, <1>2, <1>7 DEF Means, ControlMeans, len
<1> QED BY <1>1, <1>2, <1>3, <1>4, <1>5, <1>6, <1>8, <1>9

(* What is returned now.                                                   *)
Answered == Derivable(result')

(* The start rule is called after the whitespace before it, and what it    *)
(* matches is what the parse returns.                                      *)
LEMMA TopMeant ==
  ASSUME FramesOK, Means, TopWhitespace \/ TopReturn
  PROVE  StepMeans /\ (frames' = <<>> => Answered)
<1>1. /\ Resuming("top") /\ IsSeq(frames) /\ frames # <<>> /\ Len(frames) = 1 /\ DOMAIN frames = 1 .. 1
      /\ frames[1] = top /\ Last(frames) = top /\ FrameOK(top) /\ top.op = "top" /\ job \in Jobs
      /\ TopMeans(top) /\ top.i \in Lengths /\ top.i # Fail /\ len \in Lengths
      /\ Gets(IF top.k = 0 /\ HasSpace THEN g.whitespace ELSE Ref(g.start), top.i, Outermost, len)
  BY TopKnows DEF TopWhitespace, TopReturn
<1>2. ASSUME frames' = <<>> PROVE StepMeans
  BY <1>2, NoFrames DEF StepMeans, StackMeans, ControlMeans
<1>3. CASE TopWhitespace /\ len = Fail
  <2>1. result' = [ret |-> FALSE, i |-> 0] /\ frames' = <<>> /\ HasSpace /\ top.k = 0
    BY <1>3 DEF TopWhitespace, Returned, HasSpace
  <2>2. top.i = 0
    BY <1>1, <2>1 DEF TopMeans
  <2>3. LeadingSpace(Fail) /\ result' = Verdict(Fail, Fail) /\ Fail \in Lengths
    BY <1>1, <1>3, <2>1, <2>2 DEF LeadingSpace, Verdict, Lengths
  <2> QED BY <1>2, <2>1, <2>3 DEF Answered, Derivable
<1>4. CASE TopWhitespace /\ len # Fail
  <2> DEFINE f == Advanced(top, len, 1)
  <2>1. /\ frames' = SetTop(frames, f) /\ ctl'.do = "call" /\ ctl'.node = Ref(g.start) /\ HasSpace
        /\ top.k = 0
    BY <1>4 DEF TopWhitespace, Advanced, StartRule, Call, HasSpace
  <2>2. f.op = "top" /\ f.k = 1 /\ f.i = len
    BY <1>1, AdvancedIs DEF FrameOf
  <2> HIDE DEF f
  <2>3. top.i = 0
    BY <1>1, <2>1 DEF TopMeans
  <2>4. TopMeans(f) /\ Awaited(f) = Ref(g.start)
    BY <1>1, <2>1, <2>2, <2>3, AwaitedIs DEF TopMeans, FrameOps
  <2>5. DOMAIN frames' = 1 .. 1 /\ frames'[1] = f /\ Last(frames') = f /\ frames' # <<>>
    BY <1>1, <2>1, SetTopFacts
  <2> QED BY <2>1, <2>2, <2>4, <2>5 DEF StepMeans, StackMeans, ControlMeans
<1>5. CASE TopReturn
  <2>1. /\ frames' = <<>> /\ (~HasSpace \/ top.k = 1)
        /\ result' = Verdict(top.i, len)
    BY <1>1, <1>5 DEF TopReturn, Returned, HasSpace, Verdict
  <2>2. LeadingSpace(top.i)
    BY <1>1, <2>1 DEF TopMeans, LeadingSpace
  <2>3. Gets(Ref(g.start), top.i, Outermost, len)
    BY <1>1, <2>1
  <2> QED BY <1>1, <1>2, <2>1, <2>2, <2>3 DEF Answered, Derivable
<1> QED BY <1>3, <1>4, <1>5

----------------------------------------------------------------------------
(* The next state.                                                         *)

(* The language of a parse is fixed at its start, and with it all that is  *)
(* derived and what the theorems assume.                                   *)
LEMMA LanguagePrimed ==
  ASSUME job' = job
  PROVE  /\ Here' = Here /\ Own' = Own /\ Names' = Names /\ rules' = rules /\ g' = g /\ input' = input
         /\ Places' = Places /\ Lengths' = Lengths /\ HasSpace' = HasSpace
BY DEF Here, Own, Names, rules, g, input, Places, Lengths, HasSpace

(* The hypotheses of the theorems hold or not of the whole parse.          *)
LEMMA CoversPrimed ==
  ASSUME job' = job, NEW at, NEW rank PROVE Covers(at, rank)' <=> Covers(at, rank)
<1>1. /\ Here' = Here /\ Own' = Own /\ Names' = Names /\ rules' = rules /\ g' = g /\ input' = input
      /\ Places' = Places /\ Lengths' = Lengths /\ HasSpace' = HasSpace
  BY LanguagePrimed
<1>2. Classical' <=> Classical
  BY <1>1 DEF Classical
<1>3. Spreads(at)' <=> Spreads(at)
  BY <1>1 DEF Spreads
<1>4. FilterSound(at)' <=> FilterSound(at)
  BY <1>1 DEF FilterSound, Gets, MayStart, Byte
<1>5. MemoSound(at)' <=> MemoSound(at)
  BY <1>1 DEF MemoSound, Gets
<1>6. Descends(rank, at)' <=> Descends(rank, at)
  BY <1>1 DEF Descends, MayBeEmpty, Gets, ComesFar
<1> QED BY <1>2, <1>3, <1>4, <1>5, <1>6 DEF Covers

(* The meaning of the next stack is the same in the next state.            *)
LEMMA StackMeansPrimed ==
  ASSUME job' = job, StackMeans(frames') PROVE StackMeans(frames)'
<1>1. /\ Here' = Here /\ rules' = rules /\ g' = g /\ input' = input /\ HasSpace' = HasSpace
  BY LanguagePrimed
<1>2. \A k : TopMeans(frames'[k]) => TopMeans(frames[k])'
  BY <1>1 DEF TopMeans, Gets
<1>3. \A k : FrameMeans(frames'[k], Awaited(frames'[k - 1]), Around(frames', k))
            => FrameMeans(frames[k], Awaited(frames[k - 1]), Around(frames, k))'
  <2> TAKE k
  <2>1. Awaited(frames'[k - 1]) = Awaited(frames[k - 1])'
    BY <1>1 DEF Awaited, rule_of
  <2>2. Around(frames', k) = Around(frames, k)'
    BY <1>1 DEF Around, Owes, rule_of
  <2>3. \A e, env : FrameMeans(frames'[k], e, env) => FrameMeans(frames[k], e, env)'
    BY <1>1 DEF FrameMeans, SkipMeans, OperatorMeans, BodyMeans, Gets, ComesFar, rule_of
  <2> QED BY <2>1, <2>2, <2>3 DEF FrameMeans, SkipMeans, OperatorMeans, BodyMeans
<1> QED BY <1>2, <1>3 DEF StackMeans

(* That of what is called or returned is too.                              *)
LEMMA ControlMeansPrimed ==
  ASSUME job' = job, ControlMeans(frames', ctl') PROVE ControlMeans(frames, ctl)'
<1>1. /\ Here' = Here /\ rules' = rules /\ g' = g /\ input' = input /\ HasSpace' = HasSpace
  BY LanguagePrimed
<1> QED BY <1>1 DEF ControlMeans, Awaited, Around, Gets, rule_of, Owes, Standing

(* That of the memo is too.                                                *)
LEMMA MemosMeanPrimed ==
  ASSUME job' = job, NEW at, StepMemos(at) PROVE MemosMean(at)'
<1>1. Here' = Here /\ Own' = Own /\ rules' = rules /\ Places' = Places
  BY LanguagePrimed
<1> QED BY <1>1 DEF MemosMean, StepMemos, EntryMeans, Gets, InProgress

(* So an answer is still one in the next state.                            *)
LEMMA AnswerPrimed ==
  ASSUME job' = job, \/ Answered
                     \/ Derivable(result) /\ result' = result
  PROVE  Derivable(result)'
<1>1. Here' = Here /\ g' = g /\ input' = input /\ Lengths' = Lengths /\ HasSpace' = HasSpace
  BY LanguagePrimed
<1> QED BY <1>1 DEF Answered, Derivable, LeadingSpace, Verdict, Gets

(* What a step establishes.                                                *)
LEMMA MeaningPrimed ==
  ASSUME job' = job, NEW at, StepMeans, StepMemos(at), StepCuts,
         frames' = <<>> => Answered \/ (Derivable(result) /\ result' = result)
  PROVE  Meaning(at)'
<1>1. CutsClear'
  BY DEF StepCuts, CutsClear
<1>2. Done' => Derivable(result)'
  BY AnswerPrimed DEF Done
<1> QED BY <1>1, <1>2, StackMeansPrimed, ControlMeansPrimed, MemosMeanPrimed DEF Meaning, StepMeans

----------------------------------------------------------------------------
(* The invariant and what follows from it.                                 *)

(* A parse begins with a frame that has established nothing.               *)
LEMMA InitMeans ==
  ASSUME Init, NEW at PROVE Meaning(at)
<1> DEFINE f == Frame("top", NoNode, 0)
<1>1. /\ frames = <<f>> /\ f.op = "top" /\ f.k = 0 /\ f.i = 0
      /\ ctl.do = "call" /\ ctl.node = IF HasSpace THEN g.whitespace ELSE Ref(g.start)
      /\ cut_stack = <<>> /\ \A r \in Names, p \in Places : memo[<<r, p>>] = NoMemo
  <2>1. \A q \in Names \X Places : memo[q] = NoMemo
    BY DEF Init
  <2> QED BY <2>1 DEF Init, Frame, StartRule, Call, HasSpace
<1> HIDE DEF f
<1>2. DOMAIN frames = 1 .. 1 /\ frames[1] = f /\ Last(frames) = f /\ frames # <<>>
  BY <1>1 DEF Last
<1>3. TopMeans(f) /\ Awaited(f) = ctl.node
  BY <1>1, AwaitedIs DEF TopMeans, FrameOps
<1>4. StackMeans(frames) /\ ControlMeans(frames, ctl)
  BY <1>1, <1>2, <1>3 DEF StackMeans, ControlMeans
<1>5. MemosMean(at)
  <2>1. \A e \in Own : e.op = "ref" => e.name \in Names
    BY OperatorFacts DEF Init
  <2> QED BY <1>1, <2>1 DEF MemosMean, EntryMeans
<1>6. CutsClear
  BY <1>1, NoFrames DEF CutsClear
<1> QED BY <1>2, <1>4, <1>5, <1>6 DEF Meaning, Done

(* Every step keeps it.                                                    *)
LEMMA NextMeans ==
  ASSUME IInv, [Next]_vars, NEW at, NEW rank, Covers(at, rank), Meaning(at) PROVE Meaning(at)'
<1>1. /\ FramesOK /\ RulesOK /\ ContextOK /\ Means /\ MemosMean(at) /\ CutsClear
      /\ Done => Derivable(result)
  BY DEF IInv, Meaning, Means
<1>2. Classical /\ Spreads(at) /\ FilterSound(at)
  BY DEF Covers
<1>3. CASE Combinator
  <2>1. StepMeans /\ StepMemos(at) /\ StepCuts
    BY <1>1, <1>2, <1>3, CombinatorMeant, CombinatorMemos, CombinatorCuts
  <2>2. job' = job /\ frames' # <<>>
    BY <1>1, <1>3, CombinatorLeaves, StillParsing
  <2> QED BY <2>1, <2>2, MeaningPrimed
<1>4. CASE RuleCall
  <2>1. StepMeans /\ StepMemos(at) /\ StepCuts
    BY <1>1, <1>2, <1>4, RuleCallMeant, RuleCallMemos, RuleCallCuts
  <2>2. job' = job /\ frames' # <<>>
    BY <1>1, <1>4, RuleCallKeeps, StillParsing
  <2> QED BY <2>1, <2>2, MeaningPrimed
<1>5. CASE TopWhitespace \/ TopReturn
  <2>1. StepMeans /\ (frames' = <<>> => Answered)
    BY <1>1, <1>5, TopMeant
  <2>2. /\ Resuming("top") /\ job' = job /\ memo' = memo /\ cut_stack' = cut_stack
        /\ frames' = <<>> \/ frames' = SetTop(frames, [top EXCEPT !.i = len, !.k = 1])
    BY <1>5 DEF TopWhitespace, TopReturn, Returned, silent, memos
  <2>3. /\ IsSeq(frames) /\ frames # <<>> /\ DOMAIN frames = 1 .. 1 /\ frames[1] = top /\ top.op = "top"
    BY <1>1, <2>2, TopKnows
  <2>4. InProgress(frames) = {}
    BY <2>3 DEF InProgress
  <2>5. StepMemos(at) /\ StepCuts
    BY <1>1, <2>2, <2>4, MemosKept DEF StepCuts, CutsClear
  <2> QED BY <2>1, <2>2, <2>5, MeaningPrimed
<1>6. CASE UNCHANGED vars
  <2>1. /\ frames' = frames /\ ctl' = ctl /\ job' = job /\ result' = result /\ memo' = memo
        /\ cut_stack' = cut_stack
    BY <1>6 DEF vars, context, silent, memos, caller
  <2>2. StepMeans /\ StepMemos(at) /\ StepCuts
    BY <1>1, <2>1, MemosKept DEF Means, StepMeans, StepCuts, CutsClear
  <2> QED BY <1>1, <2>1, <2>2, MeaningPrimed DEF Done
<1> QED BY <1>3, <1>4, <1>5, <1>6 DEF Next, Step, Idle

(* A step keeps the parse it belongs to.                                   *)
LEMMA NextJob == ASSUME IInv, [Next]_vars PROVE job' = job
<1>1. CASE Combinator
  BY <1>1, CombinatorLeaves
<1>2. CASE RuleCall
  BY <1>2, RuleCallKeeps DEF IInv
<1>3. CASE TopWhitespace \/ TopReturn
  BY <1>3 DEF TopWhitespace, TopReturn
<1>4. CASE UNCHANGED vars
  BY <1>4 DEF vars, caller
<1> QED BY <1>1, <1>2, <1>3, <1>4 DEF Next, Step, Idle

(* What every frame and memo entry means, wherever operators are called.   *)
Meant == \A at, rank : Covers(at, rank) => Meaning(at)

(* The inductive invariant of the theorems: with IInv, which says that the *)
(* stack and the context fit each other, every frame, every memo entry and *)
(* the result mean what the inference rules derive.                        *)
LEMMA MeantAlways == Spec => [](IInv /\ Meant)
<1>1. Init => Meant
  BY InitMeans DEF Meant
<1>2. IInv /\ Meant /\ [Next]_vars => Meant'
  <2> SUFFICES ASSUME IInv, Meant, [Next]_vars, NEW at, NEW rank, Covers(at, rank)' PROVE Meaning(at)'
    BY DEF Meant
  <2>1. job' = job
    BY NextJob
  <2>2. Covers(at, rank)
    BY <2>1, CoversPrimed
  <2> QED BY <2>2, NextMeans DEF Meant
<1> QED BY <1>1, <1>2, Invariant, PTL DEF Spec

(* One verdict at most is derived.                                         *)
LEMMA OneVerdict ==
  ASSUME job \in Jobs, NEW u, NEW v, Derivable(u), Derivable(v) PROVE u = v
<1>1. ListsOf(Here)
  BY HereIs, OperatorFacts DEF ListsOf
<1>2. PICK w, m \in Lengths : /\ LeadingSpace(w)
                              /\ w # Fail => Gets(Ref(g.start), w, Outermost, m)
                              /\ u = Verdict(w, m)
  BY DEF Derivable
<1>3. PICK x, n \in Lengths : /\ LeadingSpace(x)
                              /\ x # Fail => Gets(Ref(g.start), x, Outermost, n)
                              /\ v = Verdict(x, n)
  BY DEF Derivable
<1>4. w = x
  BY <1>1, <1>2, <1>3, OneResult DEF LeadingSpace, Gets
<1>5. w # Fail => m = n
  BY <1>1, <1>2, <1>3, <1>4, OneResult DEF Gets
<1> QED BY <1>2, <1>3, <1>4, <1>5 DEF Verdict

(* A parse that ends has the one result that the rules of inference derive *)
(* for the start rule, whatever the memo answered, first sets filtered out *)
(* and rollback undid on the way: in every mode, for every input and every *)
(* grammar without left recursion, cuts, recovery and back references      *)
(* whose first sets filter out nothing that matches and whose memoized     *)
(* rules match the same inside whitespace and tokens as outside.           *)
THEOREM ReturnsDerivedAlways == Spec => [](Covered /\ Done => ReturnsDerived)
<1>1. IInv /\ Meant => (Covered /\ Done => ReturnsDerived)
  BY OneVerdict DEF Meant, Covered, Meaning, IInv, FramesOK, ReturnsDerived
<1> QED BY <1>1, MeantAlways, PTL

(* An analysis of the grammar's operators establishes all of that but for *)
(* a memo taken from one environment to another.                           *)
LEMMA HereFormed == ASSUME job \in Jobs PROVE Formed(Here)
<1>1. \A e \in Own : e.op = "lit" => Len(e.text) \in Nat /\ (e.text = <<>> <=> Len(e.text) = 0)
  BY OperatorFacts, SeqFacts
<1>2. /\ HasSpace => g.whitespace \in Own
      /\ \A e \in Own : e.op = "ref" => rules[e.name].body \in Own
  BY InputFacts, OperatorFacts DEF WellFormed, HasSpace, rules, Names
<1>3. /\ Len(input) \in Nat
      /\ \A e \in Own :
           /\ e.op \in {"seq", "cho"} =>
                Len(e.kids) \in Nat /\ \A k \in 1 .. Len(e.kids) : e.kids[k] \in Own
           /\ e.op \in Unary => e.kid \in Own
           /\ e.op = "rep" => e.min \in Nat /\ e.max \in Nat \cup {Inf}
  BY InputFacts, OperatorFacts
<1> QED BY <1>1, <1>2, <1>3, HereIs DEF Formed, Spaces, RuleOf, HasSpace, rules

(* An analysis of the grammar gives what the theorems need of its matches: *)
(* filtered alternatives fail, memos are good wherever they are used, and  *)
(* no rule may call itself where it is.                                    *)
LEMMA AnalysedIsCovered == ASSUME job \in Jobs, Analysed PROVE Covered
<1>1. PICK N, F, rank : Analysis(Here, N, F, rank)
  BY DEF Analysed
<1>2. PICK at : Spreads(at) /\ (job.packrat => OneEnvironment(Here, at))
  BY DEF Analysed
<1>3. Formed(Here) /\ ClassicalIn(Here) /\ Classical
  BY HereFormed DEF Analysed, Classical
<1>4. at \in [Own -> SUBSET Environments(Here)]
  BY <1>2, SpreadsIs
<1>5. FilterSound(at)
  <2>1. SUFFICES ASSUME NEW e \in Own, NEW p \in Places, e.op = "cho", NEW env \in at[e],
                        NEW k \in 1 .. Len(e.kids), ~MayStart(e, p, k)
                 PROVE  Gets(e.kids[k], p, env, Fail)
    BY DEF FilterSound
  <2>2. p < Len(input) /\ e.first # <<>> /\ input[p + 1] \notin e.first[k]
    BY <2>1 DEF MayStart, Byte
  <2>3. env \in Environments(Here)
    BY <1>4
  <2> QED BY <1>1, <1>3, <2>1, <2>2, <2>3, HereIs, FilteredFails DEF Gets
<1>6. MemoSound(at)
  <2>1. SUFFICES ASSUME job.packrat, NEW e \in Own, e.op = "ref", rules[e.name].cached,
                        NEW env \in at[e], NEW other \in at[e]
                 PROVE  env = other
    BY DEF MemoSound
  <2>2. OneEnvironment(Here, at)
    BY <1>2, <2>1
  <2> QED BY <2>1, <2>2, HereIs DEF OneEnvironment, RuleOf, rules
<1>7. Descends(rank, at)
  <2>1. /\ Vanishing(Here, N) /\ Ranked(Here, N, rank) /\ rank \in [Own -> Nat]
        /\ \A e, d \in Own : Leads(Here, N, e, d) => rank[d] < rank[e]
        /\ \A e \in Own : rank[e] \in Nat
    BY <1>1, HereIs DEF Analysis, Ranked
  <2>2. Begun(Here, N, F, Derived(Here)) /\ Progressed(Here, N, F, Passed(Here))
    BY <1>1, <1>3, Consumes DEF Analysis
  <2>3. SUFFICES ASSUME NEW e \in Own
        PROVE  /\ e.op \in Unary => rank[e.kid] <= rank[e]
               /\ e.op = "cho" => \A k \in 1 .. Len(e.kids) : rank[e.kids[k]] <= rank[e]
               /\ e.op = "seq" => \A k \in 1 .. Len(e.kids), p \in Places, env \in at[e] :
                                    ComesFar(e, p, env, k - 1, 0) => rank[e.kids[k]] <= rank[e]
               /\ HasSpace /\ MayBeEmpty(e, at) => rank[g.whitespace] <= rank[e]
               /\ e.op = "ref" =>
                    /\ rank[rules[e.name].body] < rank[e]
                    /\ HasSpace /\ rules[e.name].no_whitespace
                         /\ (\E p \in Places, env \in at[e] :
                               Gets(rules[e.name].body, p, InToken(Here, env), 0))
                       => rank[g.whitespace] < rank[e]
    BY <2>1, HereIs DEF Descends
  <2>4. ASSUME NEW d \in Own, Leads(Here, N, e, d) PROVE rank[d] < rank[e] /\ rank[d] <= rank[e]
    BY <2>1, <2>4
  <2>5. e.op \in Unary => rank[e.kid] <= rank[e]
    BY <2>4, OperatorFacts DEF Leads
  <2>6. e.op = "cho" => \A k \in 1 .. Len(e.kids) : rank[e.kids[k]] <= rank[e]
    BY <2>4, OperatorFacts DEF Leads
  <2>7. ASSUME e.op = "seq", NEW k \in 1 .. Len(e.kids), NEW p \in Places, NEW env \in at[e],
               ComesFar(e, p, env, k - 1, 0)
        PROVE  rank[e.kids[k]] <= rank[e]
    <3>1. Advances(Here, N, F, e, p, k - 1, 0)
      BY <2>2, <2>7 DEF Progressed, ComesFar, Reaches
    <3>2. \A j \in 1 .. k - 1 : e.kids[j] \in N
      BY <2>7, <3>1 DEF Advances
    <3> QED BY <2>4, <2>7, <3>2, OperatorFacts DEF Leads
  <2>8. \A d, p, env : Gets(d, p, env, 0) => d \in N
    BY <2>2 DEF Gets, Derives, Begun, Begins, Fail
  <2>9. HasSpace => (g.whitespace \in Own /\ (SpaceLeads(Here, N, e) => Leads(Here, N, e, g.whitespace)))
    BY <1>3, HereIs DEF Formed, Leads, Spaces, HasSpace
  <2>10. MayBeEmpty(e, at) => SpaceLeads(Here, N, e)
    BY <2>8 DEF MayBeEmpty, SpaceLeads
  <2>11. HasSpace /\ MayBeEmpty(e, at) => rank[g.whitespace] <= rank[e]
    BY <2>4, <2>9, <2>10
  <2>12. ASSUME e.op = "ref"
         PROVE  /\ rank[rules[e.name].body] < rank[e]
                /\ HasSpace /\ rules[e.name].no_whitespace
                     /\ (\E p \in Places, env \in at[e] :
                           Gets(rules[e.name].body, p, InToken(Here, env), 0))
                   => rank[g.whitespace] < rank[e]
    <3>1. RuleOf(Here, e) = rules[e.name] /\ rules[e.name].body \in Own
      BY <1>3, <2>12, HereIs DEF Formed, RuleOf, rules
    <3>2. Leads(Here, N, e, rules[e.name].body)
      BY <2>12, <3>1 DEF Leads
    <3>3. rules[e.name].no_whitespace /\ rules[e.name].body \in N => SpaceLeads(Here, N, e)
      BY <2>12, <3>1 DEF SpaceLeads
    <3> QED BY <2>4, <2>8, <2>9, <3>1, <3>2, <3>3
  <2> QED BY <2>5, <2>6, <2>7, <2>11, <2>12
<1> QED BY <1>2, <1>3, <1>5, <1>6, <1>7 DEF Covered, Covers

(* So a parse returns what the rules derive for every grammar in which no  *)
(* operator can call itself where it is, no repetition is endless, the     *)
(* first sets hold what their alternatives may start with, and no memoized *)
(* rule is called both inside a token boundary or whitespace and outside.  *)
THEOREM AnalysedDerivedAlways == Spec => [](Analysed /\ Done => ReturnsDerived)
<1>1. IInv => (Analysed => Covered)
  BY AnalysedIsCovered DEF IInv, FramesOK
<1> QED BY <1>1, Invariant, ReturnsDerivedAlways, PTL

(* In such a parse the guards of Holder::parse_core refuse nothing: no     *)
(* rule is ever called again where it is being parsed.                     *)
THEOREM NeverReentersAlways == Spec => [](Covered => ~Reenters)
<1>1. IInv /\ Meant => (Covered => ~Reenters)
  BY NeverReenters DEF Meant, Covered, Meaning, IInv
<1> QED BY <1>1, MeantAlways, PTL

(* Every entry of its memo is the failure registered for a rule in         *)
(* progress, or what the rule matches wherever it may be called.           *)
THEOREM MemoMeansAlways == Spec => [](\A at, rank : Covers(at, rank) => MemosMean(at))
<1>1. Meant => \A at, rank : Covers(at, rank) => MemosMean(at)
  BY DEF Meant, Meaning
<1> QED BY <1>1, MeantAlways, PTL
=============================================================================
