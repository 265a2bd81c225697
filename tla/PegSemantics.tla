---------------------------- MODULE PegSemantics ----------------------------
(***************************************************************************)
(* What a grammar means: parsing expressions as functions from a position  *)
(* to a result, by recursion on the expression, with no memo, no stack, no *)
(* rollback and no first-set filter.  A rule that refers to itself at its  *)
(* own position has the bounded semantics of left recursion: the longest   *)
(* of the matches reached by binding the reference to the previous one.    *)
(*                                                                         *)
(* An environment e says whether the expression is inside a token boundary *)
(* and inside whitespace, which captures it sees, which results the rules  *)
(* that are growing are bound to, and whether the parse has recovered.  A  *)
(* result also says whether the enclosing choice was cut, which bound rules *)
(* were consulted (hits) and the furthest position at which anything that  *)
(* was tried failed to match (far).                                        *)
(***************************************************************************)
EXTENDS ParseContext

Outside == [token |-> FALSE, space |-> FALSE, caps |-> <<>>, seeds |-> <<>>, recovered |-> FALSE]

Nothing(m, e) ==
  [len |-> m, vals |-> <<>>, toks |-> <<>>, choice |-> NoChoice, caps |-> <<>>,
   cut |-> FALSE, recovered |-> e.recovered, hits |-> {}, far |-> NoPos]
FailedAt(p, e) == [Nothing(Fail, e) EXCEPT !.far = p]
Matched(ok, p, m, e) == IF ok THEN Nothing(m, e) ELSE FailedAt(p, e)
Further(p, q) == IF p < q THEN q ELSE p

\* r, of which only what cannot be undone is kept, with length m.
Undone(r, m, e) ==
  [Nothing(m, e) EXCEPT !.cut = r.cut, !.recovered = r.recovered, !.hits = r.hits, !.far = r.far]

\* a, then b.
Then(a, b) ==
  [len |-> IF b.len = Fail THEN Fail ELSE a.len + b.len,
   vals |-> a.vals \o b.vals, toks |-> a.toks \o b.toks, caps |-> a.caps \o b.caps,
   choice |-> IF b.choice = NoChoice THEN a.choice ELSE b.choice,
   cut |-> a.cut \/ b.cut, recovered |-> b.recovered, hits |-> a.hits \cup b.hits,
   far |-> Further(a.far, b.far)]
Seeing(e, a) == [e EXCEPT !.caps = @ \o a.caps, !.recovered = a.recovered]

TextAt(text, p) == StandsAt(text, p, input, g.word)

RECURSIVE Eval(_, _, _), EvalSeq(_, _, _), EvalChoice(_, _, _, _), EvalRep(_, _, _, _),
          Grown(_, _, _, _)

\* r, and the whitespace after it: w, what the whitespace matches there.
WithSpace(r, w, e) == Then(r, Undone(w, w.len, e))
Spaced(r, p, e) ==
  IF r.len = Fail \/ e.token \/ e.space \/ g.whitespace = NoNode THEN r
  ELSE WithSpace(r, Eval(g.whitespace, p + r.len, Seeing(e, r)), e)

AfterFirst(a, rest, p, e) == IF a.len = Fail THEN a ELSE Then(a, EvalSeq(rest, p + a.len, Seeing(e, a)))
EvalSeq(kids, p, e) ==
  IF kids = <<>> THEN Nothing(0, e) ELSE AfterFirst(Eval(Head(kids), p, e), Tail(kids), p, e)

\* An alternative that gives a.  A cut stays within its choice; that of
\* e^label is its enclosing choice's.
Consulted(r, a) == [r EXCEPT !.hits = @ \cup a.hits, !.far = Further(@, a.far)]
AfterAlternative(a, x, k, p, e) ==
  IF a.len # Fail THEN [a EXCEPT !.choice = <<Len(x.kids), k - 1>>, !.cut = @ /\ x.for_label]
  ELSE IF a.cut \/ k = Len(x.kids) THEN [Undone(a, Fail, e) EXCEPT !.cut = @ /\ x.for_label]
  ELSE Consulted(EvalChoice(x, k + 1, p, [e EXCEPT !.recovered = a.recovered]), a)
EvalChoice(x, k, p, e) == AfterAlternative(Eval(x.kids[k], p, e), x, k, p, e)

AfterMatch(a, x, k, p, e) ==
  IF a.len # Fail THEN Then(a, EvalRep(x, k + 1, p + a.len, Seeing(e, a)))
  ELSE IF k < x.min THEN a ELSE Undone(a, 0, e)
EvalRep(x, k, p, e) ==
  IF Saturated(x, k) THEN Nothing(0, e) ELSE AfterMatch(Eval(x.kid, p, e), x, k, p, e)

EvalBackReference(name, p, e) ==
  LET named == SelectSeq(e.caps, LAMBDA c : c[1] = name)
  IN IF named = <<>> THEN Nothing(Fail, e)
     ELSE Spaced(Matched(TextAt(Last(named)[2], p), p, Len(Last(named)[2]), e), p, e)

\* Operators of one operand, which gives a.
Positive(a, e) == Undone(a, IF a.len = Fail THEN Fail ELSE 0, e)
Negative(a, p, e) ==
  IF a.len = Fail THEN Undone(a, 0, e) ELSE [Undone(a, Fail, e) EXCEPT !.far = Further(@, p)]
Captured(a, name, p) ==
  IF a.len = Fail THEN a
  ELSE [a EXCEPT !.caps = Append(@, <<name, SubSeq(input, p + 1, p + a.len)>>)]
Tokened(a, p) == IF a.len = Fail THEN a ELSE [a EXCEPT !.toks = Append(@, Token(p, a.len))]
Recovering(a, e) ==
  [Undone(a, a.len, e) EXCEPT !.cut = TRUE, !.recovered = @ \/ a.len # Fail, !.caps = a.caps,
                            !.far = NoPos]

\* What a rule makes of what its body gives, b.
Reduced(b, name, p) ==
  LET body == rules[name].body
      chosen == body.op = "cho" \/ (body.op = "tok" /\ body.kid.op = "cho")
  IN IF b.recovered THEN NoVal
     ELSE IF rules[name].action
     THEN <<name, p, b.len, [vals |-> b.vals, toks |-> b.toks,
                             choice |-> IF chosen THEN b.choice ELSE NoChoice]>>
     ELSE IF b.vals = <<>> THEN NoVal ELSE Head(b.vals)
OfRule(b, name, p, e) ==
  IF b.len = Fail \/ SubSeq(input, p + 1, p + b.len) \in rules[name].rejected
  THEN Undone(b, Fail, e)
  ELSE [Undone(b, b.len, e) EXCEPT
          !.caps = b.caps,
          !.vals = IF rules[name].ignoreSemanticValue THEN <<>> ELSE <<Reduced(b, name, p)>>]

\* A rule's body, with the rule bound to the result seed at this position.
EvalBody(r, p, e) ==
  IF r.no_whitespace THEN Spaced(Eval(r.body, p, [e EXCEPT !.token = TRUE]), p, e)
  ELSE Eval(r.body, p, e)
Bound(name, p, e, seed) ==
  OfRule(EvalBody(rules[name], p, [e EXCEPT !.seeds = (<<name, p>> :> seed) @@ @]), name, p, e)

Longest(best, next, name, p, e) ==
  IF next.len <= best.len THEN [best EXCEPT !.far = Further(@, next.far)]
  ELSE Grown(name, p, e, [next EXCEPT !.far = Further(@, best.far)])
Grown(name, p, e, best) ==
  Longest(best, Bound(name, p, [e EXCEPT !.recovered = best.recovered], best), name, p, e)

FromFirst(first, name, p, e) ==
  IF first.len # Fail /\ <<name, p>> \in first.hits
  THEN Consulted(Grown(name, p, e, first), first) ELSE first
Released(r, q) == [r EXCEPT !.hits = @ \ {q}]
EvalRule(name, p, e) ==
  IF <<name, p>> \in DOMAIN e.seeds
  THEN [Nothing(e.seeds[<<name, p>>].len, e) EXCEPT
          !.vals = e.seeds[<<name, p>>].vals, !.hits = {<<name, p>>}]
  ELSE Released(FromFirst(Bound(name, p, e, Nothing(Fail, e)), name, p, e), <<name, p>>)

Eval(x, p, e) ==
  CASE x.op = "chr" -> Matched(p < Len(input) /\ input[p + 1] \in x.set, p, 1, e)
    [] x.op = "lit" -> Spaced(Matched(TextAt(x.text, p), p, Len(x.text), e), p, e)
    [] x.op = "bkr" -> EvalBackReference(x.name, p, e)
    [] x.op = "seq" -> EvalSeq(x.kids, p, e)
    [] x.op = "cho" -> EvalChoice(x, 1, p, e)
    [] x.op = "rep" -> EvalRep(x, 0, p, e)
    [] x.op = "and" -> Positive(Eval(x.kid, p, e), e)
    [] x.op = "not" -> Negative(Eval(x.kid, p, e), p, e)
    [] x.op = "cap" -> Captured(Eval(x.kid, p, e), x.name, p)
    [] x.op = "csc" -> [Eval(x.kid, p, e) EXCEPT !.caps = <<>>]
    [] x.op = "tok" -> Spaced(Tokened(Eval(x.kid, p, [e EXCEPT !.token = TRUE]), p), p, e)
    [] x.op = "ign" -> [Eval(x.kid, p, e) EXCEPT !.vals = <<>>, !.toks = <<>>, !.choice = NoChoice]
    [] x.op = "wsp" -> Eval(x.kid, p, [e EXCEPT !.space = TRUE])
    [] x.op = "rec" -> Recovering(Eval(x.kid, p, e), e)
    [] x.op = "cut" -> [Nothing(0, e) EXCEPT !.cut = TRUE]
    [] x.op = "ref" -> EvalRule(x.name, p, e)

\* The whole parse: whitespace w, then the start rule.
StartAfter(w) ==
  IF w.len = Fail THEN w
  ELSE Then([w EXCEPT !.vals = <<>>], EvalRule(g.start, w.len, Seeing(Outside, w)))
Denotation ==
  StartAfter(IF g.whitespace = NoNode THEN Nothing(0, Outside) ELSE Eval(g.whitespace, 0, Outside))
=============================================================================
