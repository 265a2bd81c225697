---------------------------- MODULE GrammarLoad -----------------------------
(***************************************************************************)
(* ParserGenerator: what it makes of a grammar text, whose syntax has been *)
(* read.  A text is a sequence of definitions in the order they stand in,  *)
(* the rules that the user provides besides, the start rule asked for and  *)
(* whether left recursion is allowed; one of its definitions at least is   *)
(* not named like a directive.  Macros are left out, but for %recover.     *)
(***************************************************************************)
EXTENDS GrammarAnalysis

Text(definitions, provided, start, left_recursion) ==
  [definitions |-> definitions, provided |-> provided, start |-> start,
   left_recursion |-> left_recursion]

\* ~name <- ope { instructions }; an instruction is a type and its data.
Def(name, ope)         == [name |-> name, ignore |-> FALSE, ope |-> ope, instructions |-> <<>>]
Instruction(type, data) == [type |-> type, data |-> data]
Provided(name, ignore, ope) == [name |-> name, ignore |-> ignore, ope |-> ope]

Directives == {"%whitespace", "%word"}

\* A Sequence of the text.
Sequence(opes) ==
  CASE opes = <<>> -> Not(Lit(<<>>)) [] Len(opes) = 1 -> opes[1] [] OTHER -> Seqn(opes)

\* A Definition's attributes that outlive the load, besides those of a parse.
Definition(ope) ==
  Rule(ope) @@ [can_be_empty |-> FALSE, enablePackratParsing |-> FALSE, eoi_check |-> TRUE,
                disable_action |-> FALSE]

----------------------------------------------------------------------------
(* Reading: the actions of the meta grammar, in the order in which they    *)
(* run.  captures_stack is never taken down between definitions.           *)
NoData == [grammar |-> <<>>, start |-> NoName, duplicates |-> {}, undefined |-> {}, repeated |-> {},
           packrat |-> TRUE, instructions |-> <<>>, captures_stack |-> << {} >>, captured |-> {}]

BackRefAnywhere(name, d) ==
  IF \E k \in DOMAIN d.captures_stack : name \in d.captures_stack[k] THEN d
  ELSE [d EXCEPT !.undefined = @ \cup {name}, !.packrat = FALSE]
BackRef(name, d) ==
  [d EXCEPT !.undefined = IF \E k \in DOMAIN d.captures_stack : name \in d.captures_stack[k]
                          THEN @ ELSE @ \cup {name},
            !.packrat = @ /\ name \in d.captured]

Capture(name, d) ==
  [d EXCEPT !.captures_stack[Len(d.captures_stack)] = @ \cup {name}, !.captured = @ \cup {name}]

RECURSIVE ReadOpe(_, _)
ReadOpe(e, d) ==
  CASE e.op \in {"seq", "cho"} -> FoldLeft(LAMBDA dt, kid : ReadOpe(kid, dt), d, e.kids)
    [] e.op = "bkr" -> BackRef(e.name, d)
    [] e.op = "cap" -> Capture(e.name, ReadOpe(e.kid, d))
    [] e.op = "csc" -> LET left == ReadOpe(e.kid, [d EXCEPT !.captures_stack = Append(@, {})])
                       IN [left EXCEPT !.captures_stack = Front(@)]
    [] e.op \in Unary \ {"cap", "csc"} -> ReadOpe(e.kid, d)
    [] OTHER -> d

\* An instruction of a type that the definition has had is a duplicate.
FirstOfType(is) == SelectSeq([k \in DOMAIN is |-> <<k, is[k]>>],
                             LAMBDA i : \A l \in 1 .. i[1] - 1 : is[l].type # i[2].type)
ReadInstructions(def, d) ==
  LET first == FirstOfType(def.instructions)
      had == IF def.name \in DOMAIN d.instructions THEN d.instructions[def.name] ELSE <<>>
      now == had \o [k \in DOMAIN first |-> first[k][2]]
  IN IF def.instructions = <<>> THEN d
     ELSE [d EXCEPT !.instructions = (def.name :> now) @@ @,
                    !.repeated = @ \cup (IF Len(first) < Len(def.instructions) THEN {def.name} ELSE {})]

ReadDefinition(def, d) ==
  LET read == ReadInstructions(def, ReadOpe(def.ope, [d EXCEPT !.captured = {}]))
      rule == [Definition(def.ope) EXCEPT !.ignoreSemanticValue = def.ignore]
  IN IF def.name \in DOMAIN d.grammar THEN [read EXCEPT !.duplicates = @ \cup {def.name}]
     ELSE [read EXCEPT !.grammar = (def.name :> rule) @@ @,
                       !.start = IF @ = NoName /\ def.name \notin Directives THEN def.name ELSE @]

Read(text) == FoldLeft(LAMBDA d, def : ReadDefinition(def, d), NoData, text.definitions)

\* A rule that the user provides replaces one of the text, but not what its
\* definition said besides.
WithProvided(text, rs) ==
  FoldSet(LAMBDA u, r : (u.name :> [IF u.name \in DOMAIN r THEN r[u.name] ELSE Definition(u.ope)
                                     EXCEPT !.body = u.ope, !.ignoreSemanticValue = u.ignore]) @@ r,
          rs, {u \in text.provided : u.name # NoName})

----------------------------------------------------------------------------
(* HasEmptyElement and DetectInfiniteLoop: whether a repetition without    *)
(* end may be of something that matches nothing.  path: the rules under    *)
(* way (refs_); cache: has_error_cache, which both of them share.          *)
Found(yes, cache) == [found |-> yes, cache |-> cache]

RECURSIVE HasEmpty(_, _, _, _), HasEmptyIn(_, _, _, _), HasEmptyOneOf(_, _, _, _),
          Loops(_, _, _, _), LoopsIn(_, _, _, _), LoopsLater(_, _, _, _)

\* The elements after the first that must match something; all are visited.
LoopsLaterEmpty(rs, kids, path, had) ==
  IF kids = <<>> THEN had
  ELSE LET a == HasEmpty(rs, Head(kids), path, had.cache)
       IN LoopsLater(rs, Tail(kids), path, Found(had.found \/ a.found, a.cache))
LoopsLater(rs, kids, path, had) ==
  IF kids = <<>> THEN had
  ELSE LET a == Loops(rs, Head(kids), path, had.cache)
       IN LoopsLater(rs, Tail(kids), path, Found(had.found \/ a.found, a.cache))

HasEmptyIn(rs, kids, path, had) ==
  IF kids = <<>> THEN had
  ELSE LET a == HasEmpty(rs, Head(kids), path, had.cache)
       IN IF a.found THEN HasEmptyIn(rs, Tail(kids), path, a) ELSE LoopsLater(rs, Tail(kids), path, a)

HasEmptyFirst(rs, kids, path, had) == HasEmpty(rs, Head(kids), path, had.cache)
HasEmptyOneOf(rs, kids, path, had) ==
  IF kids = <<>> \/ had.found THEN had
  ELSE HasEmptyOneOf(rs, Tail(kids), path, HasEmpty(rs, Head(kids), path, had.cache))

HasEmpty(rs, e, path, cache) ==
  CASE e.op = "seq" -> HasEmptyIn(rs, e.kids, path, Found(FALSE, cache))
    [] e.op = "cho" -> HasEmptyOneOf(rs, e.kids, path, Found(FALSE, cache))
    [] e.op = "rep" -> IF e.min = 0 THEN Found(TRUE, cache) ELSE HasEmpty(rs, e.kid, path, cache)
    [] e.op \in {"and", "not"} -> Found(TRUE, cache)
    [] e.op = "lit" -> Found(e.text = <<>>, cache)
    [] e.op = "ref" -> IF e.name \in path THEN Found(FALSE, cache)
                       ELSE HasEmpty(rs, rs[e.name].body, path \cup {e.name}, cache)
    [] e.op \in Transparent -> HasEmpty(rs, e.kid, path, cache)
    [] OTHER -> Found(FALSE, cache)

LoopsIn(rs, kids, path, had) ==
  IF kids = <<>> \/ had.found THEN had
  ELSE LoopsIn(rs, Tail(kids), path, Loops(rs, Head(kids), path, had.cache))

Loops(rs, e, path, cache) ==
  CASE e.op \in {"seq", "cho"} -> LoopsIn(rs, e.kids, path, Found(FALSE, cache))
    [] e.op = "rep" -> IF e.max = Inf THEN HasEmpty(rs, e.kid, path, cache)
                       ELSE Loops(rs, e.kid, path, cache)
    [] e.op = "ref" ->
         IF e.name \in path THEN Found(FALSE, cache)
         ELSE IF e.name \in DOMAIN cache THEN Found(cache[e.name], cache)
         ELSE LET in == Loops(rs, rs[e.name].body, path \cup {e.name}, cache)
              IN Found(in.found, (e.name :> in.found) @@ in.cache)
    [] e.op \in Unary \ {"rep"} -> Loops(rs, e.kid, path, cache)
    [] OTHER -> Found(FALSE, cache)

detect_infiniteLoop(rs, name) ==
  name \in DOMAIN rs /\ Loops(rs, rs[name].body, {name}, <<>>).found

----------------------------------------------------------------------------
(* apply_precedence_instruction: a list  A (O A)*  becomes a               *)
(* PrecedenceClimbing.  Of each sequence it looks at two elements and      *)
(* forgets the rest.                                                       *)
Pre(atom, binop, info) == [op |-> "pre", atom |-> atom, binop |-> binop, info |-> info]

IsPair(e) == e.op = "seq" /\ Len(e.kids) >= 2
IsList(e) ==
  /\ IsPair(e) /\ e.kids[1].op = "ref" /\ e.kids[2].op = "rep"
  /\ e.kids[2].min = 0 /\ e.kids[2].max = Inf
  /\ LET element == e.kids[2].kid
     IN /\ IsPair(element) /\ element.kids[1].op = "ref" /\ element.kids[2] = e.kids[1]
        /\ element.kids[1] # e.kids[1]
Lowered(e, info) == Pre(e.kids[1], e.kids[2].kid.kids[1], info)

Applied(rule, i) ==
  CASE i.type = "precedence" -> [rule EXCEPT !.body = Lowered(@, i.data), !.disable_action = TRUE]
    [] i.type = "no_whitespace" -> [rule EXCEPT !.no_whitespace = TRUE]
    [] i.type = "error_message" -> [rule EXCEPT !.error_message = TRUE]

Applicable(rule, i) == i.type = "precedence" => IsList(rule.body)

InstructionsOf(d, name) == IF name \in DOMAIN d.instructions THEN d.instructions[name] ELSE <<>>

\* A visitor of a PrecedenceClimbing goes to its operand only.
Seen(rs) == Tabulate(DOMAIN rs, LAMBDA r : IF rs[r].body.op = "pre" THEN [rs[r] EXCEPT !.body = @.atom]
                                           ELSE rs[r])
SetUpAll(rs) ==
  LET set_up(e) == IF e.op = "pre" THEN e ELSE SetUp(Seen(rs), e)
  IN Tabulate(DOMAIN rs, LAMBDA r : [rs[r] EXCEPT !.body = set_up(@)])

----------------------------------------------------------------------------
(* perform_core.  A load gives the rules, or says why not.                 *)
Refused(why) == [ok |-> FALSE, why |-> why, rules |-> <<>>, start |-> NoName, packrat |-> FALSE]

StartOf(text, d) == IF text.start = NoName THEN d.start ELSE text.start

\* What is wrong with a text before its references are looked at.
Misread(text, d, rs) ==
  (IF d.duplicates # {} THEN {"duplicate"} ELSE {})
  \cup (IF d.repeated # {} THEN {"instruction"} ELSE {})
  \cup (IF d.undefined # {} THEN {"back reference"} ELSE {})
  \cup (IF text.start # NoName /\ text.start \notin DOMAIN rs THEN {"start"} ELSE {})

\* ReferenceChecker, over every rule there is.
UndefinedButLabels(rs) == UNION {RefsIn(Unary \ {"rec"}, rs[r].body) : r \in DOMAIN rs} \ DOMAIN rs
Undefined(rs) == UNION {RefsIn(Unary, rs[r].body) : r \in DOMAIN rs} \ DOMAIN rs

\* Links, attributes and tokens of a text whose references are defined.
Linked(rs) ==
  LET E == EmptyRules(rs, {})
      L == LeftRecursiveRules(rs)
      marked == Tabulate(DOMAIN rs, LAMBDA r : [rs[r] EXCEPT !.can_be_empty = r \in E,
                                                             !.is_left_recursive = r \in L])
      spaced == IF "%whitespace" \in DOMAIN rs THEN rs["%whitespace"].body ELSE NoNode
  IN Tokenized([rules |-> marked, whitespace |-> spaced]).rules

Instructed(d, rs) ==
  Tabulate(DOMAIN rs, LAMBDA r : FoldLeft(Applied, rs[r], InstructionsOf(d, r)))

perform_core(text) ==
  LET d == Read(text)
      rs == WithProvided(text, d.grammar)
      start == StartOf(text, d)
      linked == Linked(rs)
      loops == {r \in Directives \cup {start} : detect_infiniteLoop(linked, r)}
  IN IF Misread(text, d, rs) # {} THEN Refused(Misread(text, d, rs))
     ELSE IF rs[start].ignoreSemanticValue THEN Refused({"ignored start"})
     ELSE IF Undefined(rs) # {} THEN Refused({"undefined"})
     ELSE IF ~text.left_recursion /\ LeftRecursiveRules(rs) # {} THEN Refused({"left recursion"})
     ELSE IF loops # {} THEN Refused({"infinite loop"})
     ELSE IF \E r \in DOMAIN d.instructions : \E i \in ToSet(d.instructions[r]) : ~Applicable(linked[r], i)
     THEN Refused({"precedence"})
     ELSE [ok |-> TRUE, why |-> {}, rules |-> SetUpAll(Instructed(d, linked)), start |-> start,
           packrat |-> d.packrat]
=============================================================================
