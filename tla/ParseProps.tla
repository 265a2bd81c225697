----------------------------- MODULE ParseProps -----------------------------
(***************************************************************************)
(* What a parse must satisfy as the grammar says.                          *)
(***************************************************************************)
EXTENDS ParseSafety, PegSemantics

(* The parse returns what the grammar means: the same verdict, consumed    *)
(* length, recovery and semantic values, with packrat parsing and without, *)
(* with a log and in recognizer mode, whatever was tried and undone.       *)
AnswersWith(d) ==
  /\ result.ret <=> d.len = Len(input)
  /\ d.len # Fail => result.i = d.len
  /\ recovered = d.recovered
  /\ ~recognize_only /\ d.len # Fail => Last(scopes).vals = d.vals

ResultIsPEG == Done => AnswersWith(Denotation)

(* What is memoized for a rule and a position is what the rule means       *)
(* there, of whatever attempt of the parse it is left.                     *)
Memoizes(r, entry, d) ==
  /\ entry.len = d.len
  /\ ~recognize_only /\ ~rules[r].ignoreSemanticValue /\ d.len # Fail => <<entry.val>> = d.vals

MemoIsPEG ==
  Done => \A r \in Names, p \in Places :
            memo[<<r, p>>] # NoMemo => Memoizes(r, memo[<<r, p>>], EvalRule(r, p, Outside))

(* A parse accepts what the grammar means by its rules, left-recursive     *)
(* ones included.                                                          *)
AcceptsPEG == Done => (result.ret <=> Denotation.len = Len(input))

(* The same of a packrat parse: the denotation knows no memo, so that the  *)
(* verdict is that of a parse without.                                     *)
PackratAgrees == job.packrat => AcceptsPEG

(* A log is told of the furthest position at which the parse failed to     *)
(* match anything, whatever was tried in between and undone, and memoized  *)
(* failures, which record nothing, included.  First sets and character     *)
(* class loops skip failures, so that with them the position may be short  *)
(* of that, but never beyond.                                              *)
FurthestFailure ==
  Done /\ job.log /\ ~recovered =>
    /\ error_info.error_pos <= Denotation.far
    /\ ~g.first_sets => error_info.error_pos = Denotation.far

(* An alternative that its first set filters out would have failed.        *)
FilterIsSafe ==
  Entering("cho") =>
    \A k \in DOMAIN node.kids : ~MayStart(node, here, k) => Eval(node.kids[k], here, Outside).len = Fail
=============================================================================
