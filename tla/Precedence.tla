----------------------------- MODULE Precedence -----------------------------
(***************************************************************************)
(* PrecedenceClimbing: a rule E <- A (O A)* with { precedence ... }, whose *)
(* operator rule O is told apart by what its action sees.  Each call of    *)
(* parse_expression puts an action of its own in the place of O's, which   *)
(* notes the operator in the call's tok and goes on to the one it replaced.*)
(*                                                                         *)
(* Here A is a digit or '(' E ')', and O one of the characters ops.        *)
(***************************************************************************)
EXTENDS Integers, Sequences, SequencesExt

\* A parse: the text, ops, the entries of the instruction, and whether O's
\* results are memoized.
Parse(s, ops, entries, memoized) == [s |-> s, ops |-> ops, entries |-> entries, memoized |-> memoized]

NoMatch == -1
NoTok == ""

\* An entry: an associativity, 'L' or 'R', and operators.
Listing(entries, op) == {k \in DOMAIN entries : op \in entries[k].ops}
BinOpeInfo(entries) ==
  [op \in UNION {entries[k].ops : k \in DOMAIN entries} |->
     LET level == CHOOSE k \in Listing(entries, op) : \A l \in Listing(entries, op) : l <= k
     IN <<level, entries[level].assoc>>]

At(j, p) == IF p < Len(j.s) THEN j.s[p + 1] ELSE ""

\* What a call gives: a length, a tree, and the state: toks, the tok of each
\* call under way, outermost first, and memo, the positions at which O has
\* been parsed.
Result(len, val, st) == [len |-> len, val |-> val, st |-> st]

\* O at p.  An answer from the memo runs no action.
binop(j, p, st) ==
  LET op == At(j, p)
      noted == [st EXCEPT !.toks = [k \in DOMAIN @ |-> op], !.memo = @ \cup {p}]
  IN IF op \notin j.ops THEN Result(NoMatch, "", st)
     ELSE Result(1, op, IF j.memoized /\ p \in st.memo THEN st ELSE noted)

Returned(r) == [r EXCEPT !.st.toks = Front(@)]      \* the replaced action is back

\* What the operators of the right operand must reach.
NextMinPrecLevel(level, assoc) == level
NextMinPrec(level, assoc) == IF assoc = "L" THEN level + 1 ELSE level

RECURSIVE parse_expression(_, _, _, _), climb(_, _, _, _, _, _)
atom(j, p, st) ==
  LET e == parse_expression(j, p + 1, 0, st) IN
  IF At(j, p) = "1" THEN Result(1, <<"1">>, st)
  ELSE IF At(j, p) # "(" THEN Result(NoMatch, <<>>, st)
  ELSE IF e.len = NoMatch \/ At(j, p + 1 + e.len) # ")" THEN Result(NoMatch, <<>>, e.st)
  ELSE [e EXCEPT !.len = @ + 2]

\* The loop: i bytes of the expression at p have given val.
climb(j, p, min_prec, i, val, st) ==
  LET op == binop(j, p + i, st)
      tok == Last(op.st.toks)
      info == BinOpeInfo(j.entries)
      level == info[tok][1]
      next_min_prec == NextMinPrec(level, info[tok][2])
      right == parse_expression(j, p + i + op.len, next_min_prec, op.st)
  IN IF op.len = NoMatch \/ tok \notin DOMAIN info THEN Result(i, val, op.st)
     ELSE IF level < min_prec THEN Result(i, val, op.st)
     ELSE IF right.len = NoMatch THEN Result(NoMatch, <<>>, right.st)
     ELSE climb(j, p, min_prec, i + op.len + right.len, <<val, op.val, right.val>>, right.st)

parse_expression(j, p, min_prec, st) ==
  LET left == atom(j, p, st) IN
  IF left.len = NoMatch THEN left
  ELSE Returned(climb(j, p, min_prec, left.len, left.val, [left.st EXCEPT !.toks = Append(@, NoTok)]))

\* E at the start of the text, after an alternative A O '!' if tried.
Expression(j, tried) ==
  LET start == [toks |-> <<>>, memo |-> {}]
      left == atom(j, 0, start)
      before == IF tried /\ left.len # NoMatch THEN binop(j, left.len, left.st).st ELSE start
  IN parse_expression(j, 0, 0, before)

----------------------------------------------------------------------------
(* What the instruction says.  Operands and the operators between them are *)
(* grouped at an operator of the lowest level: the last one when it        *)
(* associates to the left, the first one otherwise.                        *)
RECURSIVE Grouped(_, _)
Grouped(info, items) ==
  LET between == {k \in DOMAIN items : k % 2 = 0}
      lowest == {k \in between : \A l \in between : info[items[k]][1] <= info[items[l]][1]}
      left == \A k \in lowest : info[items[k]][2] = "L"
      k == CHOOSE k \in lowest : \A l \in lowest : IF left THEN l <= k ELSE k <= l
  IN IF Len(items) = 1 THEN items[1]
     ELSE <<Grouped(info, SubSeq(items, 1, k - 1)), items[k],
            Grouped(info, SubSeq(items, k + 1, Len(items)))>>
=============================================================================
