--------------------------- MODULE FrontEndProps ----------------------------
(***************************************************************************)
(* What a caller of class parser relies on.                                *)
(***************************************************************************)
EXTENDS ParserObject

CONSTANT Inputs

(* A parser that holds a grammar can be parsed with: its start rule is     *)
(* there and gives a value, every rule has a body, and every reference one *)
(* of them makes leads to a rule, those of provided rules and of lowered   *)
(* precedence lists included.                                              *)
Held == [rules |-> rules, start |-> start, whitespace |-> NoNode]
HeldIsUsable ==
  loaded =>
    /\ WellFormed(Held, Owned(Held)) /\ ~rules[start].ignoreSemanticValue
    /\ \A r \in DOMAIN rules :
         /\ rules[r].body # NoNode
         /\ rules[r].body.op = "pre" =>
              {rules[r].body.atom.name, rules[r].body.binop.name} \subseteq DOMAIN rules

(* A grammar is restored from a blob as it was saved: bodies, first sets   *)
(* and filters, which are not in the blob, and the attributes set by the   *)
(* loader and by the caller.                                               *)
RestoredIsSaved ==
  [][blob # NoBlob /\ load_blob(Len(blob.items))
       => loaded' /\ rules' = blob.rules /\ start' = blob.start]_vars

(* A blob that has been cut short between two of its items is refused.     *)
DamagedIsRefused ==
  \A n \in 0 .. Len(blob.items) - 1 : ~deserialize(SubSeq(blob.items, 1, n), start).ok

(* The rules that a parse with packrat parsing can reach have numbers of   *)
(* their own, by which they are guarded against re-entry; those that it    *)
(* may memoize have places of their own in the memo, and each              *)
(* left-recursive rule has one.                                            *)
SlotsAreDistinct ==
  \A from \in {f \in DOMAIN tables : tables[f].index # <<>>} :
    LET met == ToSet(initialize_definition_ids(from))
        slot(r) == tables[from].index[ids[r]]
    IN /\ \A r \in met : ids[r] \in 1 .. tables[from].size
       /\ \A r, q \in met : r # q => ids[r] # ids[q] /\ (slot(r) # Guarded => slot(r) # slot(q))
       /\ \A r \in met : rules[r].is_left_recursive => slot(r) # Guarded

----------------------------------------------------------------------------
(* What a grammar's parse does, but for values: a length, or Spins when it *)
(* repeats for ever something that matches nothing, and the captures.  The *)
(* rules in hits are answered from a memo, which leaves no captures.       *)
Spins == -2
Gives(len, caps) == [len |-> len, caps |-> caps]
AtInput(input, p, words) ==
  \E w \in words : p + Len(w) <= Len(input) /\ SubSeq(input, p + 1, p + Len(w)) = w
MatchOf(input, p, word, caps) == Gives(IF AtInput(input, p, {word}) THEN Len(word) ELSE Fail, caps)

RECURSIVE Run(_, _, _, _, _), RunAll(_, _, _, _, _), RunOneOf(_, _, _, _, _), RunRep(_, _, _, _, _, _)
After(a, b) == IF b.len < 0 THEN b ELSE Gives(a.len + b.len, b.caps)
RunAll(input, opes, p, caps, hits) ==
  IF opes = <<>> THEN Gives(0, caps)
  ELSE LET a == Run(input, Head(opes), p, caps, hits)
       IN IF a.len < 0 THEN a ELSE After(a, RunAll(input, Tail(opes), p + a.len, a.caps, hits))

RunOneOf(input, opes, p, caps, hits) ==
  LET a == Run(input, Head(opes), p, caps, hits)
  IN IF a.len # Fail \/ Len(opes) = 1 THEN a ELSE RunOneOf(input, Tail(opes), p, caps, hits)

RunRep(input, e, count, p, caps, hits) ==
  IF Saturated(e, count) THEN Gives(0, caps)
  ELSE LET a == Run(input, e.kid, p, caps, hits)
       IN IF a.len = Fail THEN Gives(IF count < e.min THEN Fail ELSE 0, caps)
          ELSE IF a.len = Spins \/ (a.len = 0 /\ e.max = Inf) THEN Gives(Spins, caps)
          ELSE After(a, RunRep(input, e, count + 1, p + a.len, a.caps, hits))

Run(input, e, p, caps, hits) ==
  CASE e.op = "lit" -> MatchOf(input, p, e.text, caps)
    [] e.op = "chr" -> Gives(IF AtInput(input, p, {<<c>> : c \in e.set}) THEN 1 ELSE Fail, caps)
    [] e.op = "bkr" -> LET named == SelectSeq(caps, LAMBDA c : c[1] = e.name)
                       IN IF named = <<>> THEN Gives(Fail, caps)
                          ELSE MatchOf(input, p, Last(named)[2], caps)
    [] e.op = "cut" -> Gives(0, caps)
    [] e.op = "seq" -> RunAll(input, e.kids, p, caps, hits)
    [] e.op = "cho" -> RunOneOf(input, e.kids, p, caps, hits)
    [] e.op = "rep" -> RunRep(input, e, 0, p, caps, hits)
    [] e.op = "and" -> LET a == Run(input, e.kid, p, caps, hits)
                       IN Gives(IF a.len > 0 THEN 0 ELSE a.len, caps)
    [] e.op = "not" -> LET a == Run(input, e.kid, p, caps, hits)
                       IN Gives(IF a.len = Fail THEN 0 ELSE IF a.len = Spins THEN Spins ELSE Fail, caps)
    [] e.op = "cap" -> LET a == Run(input, e.kid, p, caps, hits)
                       IN IF a.len < 0 THEN a
                          ELSE Gives(a.len, Append(a.caps, <<e.name, SubSeq(input, p + 1, p + a.len)>>))
    [] e.op = "csc" -> Gives(Run(input, e.kid, p, caps, hits).len, caps)
    [] e.op \in {"tok", "ign", "rec"} -> Run(input, e.kid, p, caps, hits)
    [] e.op = "ref" -> LET a == Run(input, rules[e.name].body, p, caps, hits)
                       IN IF e.name \in hits THEN Gives(a.len, caps) ELSE a

Recursive(r) == r \in Reached(Unary, rules, RefsIn(Unary, rules[r].body))
HasOps(ops) == \E r \in DOMAIN rules : \E e \in Within(Unary, rules[r].body) : e.op \in ops

\* Left recursion, which may hide behind a cut, has another meaning; white
\* space, words and precedence lists are left out.
CanRun ==
  /\ Directives \cap DOMAIN rules = {} /\ ~HasOps({"pre"})
  /\ \A r \in DOMAIN rules : ~rules[r].is_left_recursive /\ (Recursive(r) => ~HasOps({"cut"}))
Fresh == tables = <<>> /\ blob = NoBlob
Ends(input) == Run(input, rules[start].body, 0, <<>>, {}).len # Spins

(* No parse with a grammar that has been accepted goes on for ever.        *)
AcceptedEnds == loaded /\ Fresh /\ CanRun => \A input \in Inputs : Ends(input)

(* The same of the grammars that the loader's analysis sees into: without  *)
(* recursion, without a cut or a back reference, and without repetitions   *)
(* of repetitions that have no bound.                                      *)
RepetitionsWithin(r) == {e \in Within(Unary, rules[r].body) : e.op = "rep" /\ e.max = Inf}
Nested(e) ==
  LET within == Within(Unary, e.kid)
            \cup UNION {Within(Unary, rules[r].body) : r \in Reached(Unary, rules, RefsIn(Unary, e.kid))}
  IN \E d \in within : d.op = "rep" /\ d.max = Inf
IsPlain ==
  /\ ~HasOps({"cut", "bkr"})
  /\ \A r \in DOMAIN rules : ~Recursive(r) /\ \A e \in RepetitionsWithin(r) : ~Nested(e)
SimpleEnds == loaded /\ Fresh /\ CanRun /\ IsPlain => \A input \in Inputs : Ends(input)

(* A text is refused for a loop only if a repetition without bound that    *)
(* its start rule, white space or words lead to is of something that can   *)
(* match nothing.                                                          *)
CanLoop(rs, from) ==
  LET E == EmptyRules(rs, {})
  IN \E r \in Reached(Unary, rs, from) :
       \E e \in Within(Unary, rs[r].body) : e.op = "rep" /\ e.max = Inf /\ CanBeEmpty(E, e.kid)
LoopsAreReal ==
  ~loaded /\ perform_core(text).why = {"infinite loop"} =>
    LET rs == WithProvided(text, Read(text).grammar)
    IN CanLoop(rs, (Directives \cap DOMAIN rs) \cup {StartOf(text, Read(text))})

----------------------------------------------------------------------------
\* How a rule comes to its back references: the names that its text captures
\* before a place, those that it captures on every way there, and those that
\* it refers back to where it may have left them out.
RECURSIVE Way(_, _)
WayOneOf(opes, w) ==
  LET last == FoldLeft(LAMBDA v, e : Way(e, [v EXCEPT !.sure = w.sure]), w, opes)
  IN [last EXCEPT !.sure = {n \in @ : \A k \in DOMAIN opes : n \in Way(opes[k], w).sure}]
Way(e, w) ==
  CASE e.op = "seq" -> FoldLeft(LAMBDA v, d : Way(d, v), w, e.kids)
    [] e.op = "cho" -> WayOneOf(e.kids, w)
    [] e.op = "cap" -> LET x == Way(e.kid, w)
                       IN [x EXCEPT !.seen = @ \cup {e.name}, !.sure = @ \cup {e.name}]
    [] e.op = "bkr" -> [w EXCEPT !.doubted = @ \cup (IF e.name \in w.seen \ w.sure THEN {e.name} ELSE {})]
    [] e.op = "rep" /\ e.min > 0 -> Way(e.kid, w)
    [] e.op \in {"rep", "and", "not", "csc"} -> [Way(e.kid, w) EXCEPT !.sure = w.sure]
    [] e.op \in Unary \ {"rep", "and", "not", "csc", "cap"} -> Way(e.kid, w)
    [] OTHER -> w

Below(r) == Reached(Unary, rules, RefsIn(Unary, rules[r].body))
NamesOf(r, op) == {e.name : e \in {e \in Within(Unary, rules[r].body) : e.op = op}}
Doubtful(r) ==
  \/ Way(rules[r].body, [seen |-> {}, sure |-> {}, doubted |-> {}]).doubted # {}
  \/ \E q \in Below(r) : NamesOf(r, "bkr") \cap NamesOf(r, "cap") \cap NamesOf(q, "cap") # {}

(* Where packrat parsing is allowed, however the parser came by the        *)
(* grammar, a memo hit is as good as a parse: what a rule matches depends  *)
(* neither on what has been captured before it, nor on whether the rules   *)
(* it refers to leave their captures or are answered from the memo.  That  *)
(* takes a loader that sees to it that a back reference finds what its own *)
(* rule has captured (6060).  It looks at the text only, so that rules are *)
(* left out that refer back to a name they capture before that in the text,*)
(* but not on every way, or that a rule below them captures too: with these*)
(* packrat parsing may refuse what the plain parse accepts.                *)
CapturesAreOwn ==
  loaded /\ rules[start].enablePackratParsing /\ HasOps({"bkr"}) /\ CanRun =>
    LET sound == {r \in DOMAIN rules : \A q \in Below(r) \cup {r} : ~Doubtful(q)}
        names == UNION {NamesOf(r, "bkr") : r \in DOMAIN rules}
        earlier == {<<>>} \cup {<<c>> : c \in names \X Inputs}
    IN \A r \in sound, input \in Inputs : \A p \in 0 .. Len(input) :
         LET len(caps, hits) == Run(input, rules[r].body, p, caps, hits).len
         IN \A caps \in earlier, hits \in SUBSET Below(r) : len(caps, hits) = len(<<>>, {})
=============================================================================
