----------------------------- MODULE TreeParse ------------------------------
(***************************************************************************)
(* A parse with enable_ast: every rule's action is add_ast_action, which   *)
(* makes a node of what the rule matched and becomes the parent of the     *)
(* nodes of its kids.  The nodes are a heap: a node is its place in it, of *)
(* which a packrat parse may hand out several copies.                      *)
(*                                                                         *)
(* frames holds the parse_core calls in progress, ctl the next call or     *)
(* what is returned, as in ParseContext; a frame keeps the values and the  *)
(* tokens its operands gave.  Grammars have no left recursion here, no     *)
(* white space and no cut.                                                 *)
(***************************************************************************)
EXTENDS PegGrammar, FiniteSets, SequencesExt

CONSTANT Jobs           \* [grammar, packrat, input]

VARIABLES job,
          heap,         \* every node made so far
          frames, ctl,
          memo          \* what a rule gave at a position

rules == job.grammar.rules
input == job.input

Nobody == 0             \* a parent that has not been set

\* A rule with { ast_name: } and no_ast_opt.
Node(e, ast_name, no_ast_opt) == Rule(e) @@ [ast_name |-> ast_name, no_ast_opt |-> no_ast_opt]
EmittedName(r) == IF rules[r].ast_name = NoName THEN r ELSE rules[r].ast_name

----------------------------------------------------------------------------
(* Control.                                                                *)
Call(e, p) == [do |-> "call", node |-> e, pos |-> p, len |-> 0, vals |-> <<>>, toks |-> <<>>]
Return(m, vals, toks) ==
  [do |-> "return", node |-> NoNode, pos |-> 0, len |-> m, vals |-> vals, toks |-> toks]
Failure == Return(Fail, <<>>, <<>>)
Nothing(m) == Return(m, <<>>, <<>>)

\* i: what the frame has consumed; k: the operand it is at
Frame(e, p) == [node |-> e, pos |-> p, i |-> 0, k |-> 1, vals |-> <<>>, toks |-> <<>>]
Standing(f) == f.pos + f.i
Gave(f) == Return(f.i, f.vals, f.toks)

Entering(op) == ctl.do = "call" /\ ctl.node.op = op
Resuming(op) == ctl.do = "return" /\ frames # <<>> /\ Last(frames).node.op = op
node == ctl.node
top  == Last(frames)
\* The frame when its operand has matched.
After == [top EXCEPT !.i = @ + ctl.len, !.k = @ + 1, !.vals = @ \o ctl.vals, !.toks = @ \o ctl.toks]

SetTop(s, f) == [s EXCEPT ![Len(s)] = f]

Enter(e)     == frames' = Append(frames, Frame(node, ctl.pos)) /\ ctl' = Call(e, ctl.pos)
Resume(f, e) == frames' = SetTop(frames, f) /\ ctl' = Call(e, Standing(f))
Answer(r)    == UNCHANGED frames /\ ctl' = r
Leave(r)     == frames' = Front(frames) /\ ctl' = r

----------------------------------------------------------------------------
(* The operators.                                                          *)
Spelled(e) == IF e.op = "lit" THEN {e.text} ELSE {<<c>> : c \in e.set}
Matches(e, p) ==         \* the lengths of e's matches at p: one or none
  {m \in 0 .. Len(input) - p : SubSeq(input, p + 1, p + m) \in Spelled(e)}

Match ==
  /\ Entering("lit") \/ Entering("chr")
  /\ IF Matches(node, ctl.pos) = {} THEN Answer(Failure)
     ELSE \E m \in Matches(node, ctl.pos) : Answer(Nothing(m))

SequenceEnter ==
  /\ Entering("seq")
  /\ IF node.kids = <<>> THEN Answer(Nothing(0)) ELSE Enter(node.kids[1])

SequenceResume ==
  /\ Resuming("seq")
  /\ IF ctl.len = Fail THEN Leave(Failure)
     ELSE IF top.k = Len(top.node.kids) THEN Leave(Gave(After))
     ELSE Resume(After, top.node.kids[top.k + 1])

ChoiceEnter == Entering("cho") /\ Enter(node.kids[1])

ChoiceResume ==
  /\ Resuming("cho")
  /\ IF ctl.len # Fail THEN Leave(ctl)
     ELSE IF top.k = Len(top.node.kids) THEN Leave(Failure)
     ELSE Resume([top EXCEPT !.k = @ + 1], top.node.kids[top.k + 1])

RepetitionEnter ==
  /\ Entering("rep")
  /\ IF Saturated(node, 0) THEN Answer(Nothing(0)) ELSE Enter(node.kid)

RepetitionResume ==
  /\ Resuming("rep")
  /\ IF ctl.len = Fail THEN Leave(IF top.k - 1 < top.node.min THEN Failure ELSE Gave(top))
     ELSE IF Saturated(top.node, top.k) THEN Leave(Gave(After))
     ELSE Resume(After, top.node.kid)

UnaryEnter == (\E op \in {"and", "not", "tok", "ign"} : Entering(op)) /\ Enter(node.kid)

AndResume == Resuming("and") /\ Leave(IF ctl.len = Fail THEN Failure ELSE Nothing(0))
NotResume == Resuming("not") /\ Leave(IF ctl.len = Fail THEN Nothing(0) ELSE Failure)
IgnoreResume == Resuming("ign") /\ Leave(Nothing(ctl.len))
TokenResume ==
  /\ Resuming("tok")
  /\ Leave(IF ctl.len = Fail THEN Failure ELSE [ctl EXCEPT !.toks = Append(@, <<top.pos, ctl.len>>)])

Combinator ==
  /\ \/ Match \/ SequenceEnter \/ SequenceResume \/ ChoiceEnter \/ ChoiceResume
     \/ RepetitionEnter \/ RepetitionResume
     \/ UnaryEnter \/ AndResume \/ NotResume \/ TokenResume \/ IgnoreResume
  /\ UNCHANGED <<job, heap, memo>>

----------------------------------------------------------------------------
(* A rule, and its node.                                                   *)
\* A mutant of Adopt: the kids keep the parent they had.
AdoptNone(h, kids, id) == h
Adopt(h, kids, id) ==
  [i \in DOMAIN h |-> IF i \in ToSet(kids) THEN [h[i] EXCEPT !.parent = id] ELSE h[i]]

\* add_ast_action's, for what the rule's body gave, b.
NewNode(name, p, b) ==
  LET token == rules[name].is_token IN
  [name |-> EmittedName(name), original_name |-> EmittedName(name), position |-> p, length |-> b.len,
   is_token |-> token, nodes |-> IF token THEN <<>> ELSE b.vals, parent |-> Nobody,
   token |-> IF ~token THEN <<>> ELSE IF b.toks = <<>> THEN <<p, b.len>> ELSE Head(b.toks),
   preserve_position |-> rules[name].no_ast_opt]
add_ast_action(name, p, b) ==
  LET new == NewNode(name, p, b)
  IN Append(Adopt(heap, new.nodes, Len(heap) + 1), new)

Memoize(q, r) ==
  IF job.packrat /\ rules[q[1]].cached
  THEN [x \in DOMAIN memo \cup {q} |-> IF x = q THEN r ELSE memo[x]] ELSE memo

\* What a rule gives its caller.
Emplaced(name, r) == IF rules[name].ignoreSemanticValue THEN [r EXCEPT !.vals = <<>>] ELSE r

key == <<node.name, ctl.pos>>

RuleEnter ==
  /\ Entering("ref")
  /\ IF key \in DOMAIN memo THEN Answer(Emplaced(node.name, memo[key])) /\ UNCHANGED memo
     ELSE Enter(rules[node.name].body) /\ memo' = Memoize(key, Failure)
  /\ UNCHANGED <<job, heap>>

RuleReturn ==
  /\ Resuming("ref")
  /\ LET name == top.node.name
         reduced == Return(ctl.len, <<Len(heap) + 1>>, <<>>)
     IN IF ctl.len = Fail THEN Leave(Failure) /\ UNCHANGED <<heap, memo>>
        ELSE /\ heap' = add_ast_action(name, top.pos, ctl)
             /\ memo' = Memoize(<<name, top.pos>>, reduced)
             /\ Leave(Emplaced(name, reduced))
  /\ UNCHANGED job

ParseStart ==
  /\ job \in Jobs /\ heap = <<>> /\ memo = <<>>
  /\ frames = <<>> /\ ctl = Call(Ref(job.grammar.start), 0)

ParseStep == Combinator \/ RuleEnter \/ RuleReturn
=============================================================================
