----------------------------- MODULE SyntaxTree -----------------------------
(***************************************************************************)
(* The syntax tree a parse gives its caller, whose nodes know their parent *)
(* by a weak pointer, and AstOptimizer, which the caller may use any       *)
(* number of times: on the tree of the parse and on those it got from it.  *)
(*                                                                         *)
(* optimize calls itself; calls holds the calls in progress, doing the     *)
(* next call or the node that is returned.                                 *)
(***************************************************************************)
EXTENDS TreeParse

CONSTANT MaxOptimize    \* how often the caller optimizes

VARIABLES held,         \* the trees the caller holds
          asked,        \* what the caller's call is given: a tree and the mode;
                        \* given: how many nodes there were by then
          calls, doing
parsing    == <<job, frames, ctl, memo>>
optimizing == <<asked, calls, doing>>
vars       == <<heap, held, parsing, optimizing>>

NoTree == 0
\* A tree: its root, the one it was optimized from (or NoTree) and the mode;
\* its nodes are among those its own call made.
Held(root, from, mode, given) ==
  [root |-> root, from |-> from, mode |-> mode, made |-> given + 1 .. Len(heap)]

Asked(root, mode) == [root |-> root, mode |-> mode, given |-> Len(heap)]
Resting == [do |-> "rest", id |-> 0, parent |-> Nobody]
Optimize(id, parent) == [do |-> "optimize", id |-> id, parent |-> parent]
Optimized(id) == [do |-> "optimized", id |-> id, parent |-> Nobody]

\* A call that awaits its only kid, and one that fills its copy, ast.
NoNodeYet == 0
Awaiting(id, parent) == [id |-> id, parent |-> parent, ast |-> NoNodeYet]
Filling(id, parent, ast) == [id |-> id, parent |-> parent, ast |-> ast]

Init ==
  /\ ParseStart
  /\ held = {} /\ asked = Asked(NoTree, FALSE) /\ calls = <<>> /\ doing = Resting

\* parser::parse(s, ast); the tree is the caller's, the memo is gone.
parse ==
  /\ held = {} /\ ctl.do = "return" /\ frames = <<>>
  /\ ctl.len = Len(input) /\ ctl.vals # <<>>
  /\ held' = {Held(Head(ctl.vals), NoTree, FALSE, 0)} /\ memo' = <<>>
  /\ UNCHANGED <<heap, job, frames, ctl, optimizing>>

----------------------------------------------------------------------------
(* AstOptimizer::optimize.                                                 *)
no_ast_opt_by_rule == {r \in DOMAIN rules : rules[r].no_ast_opt}
get_no_ast_opt_rules == {EmittedName(r) : r \in {r \in DOMAIN rules : rules[r].no_ast_opt}}

Collapses(original, mode) ==
  Len(original.nodes) = 1 /\ (original.name \in get_no_ast_opt_rules) # mode

\* An exempt node keeps its own text.
KeptPosition(child, original) ==
  <<IF child.preserve_position THEN child.position ELSE original.position, original.length>>
Kept(child, original) ==
  IF child.preserve_position THEN <<child.position, child.length>> ELSE <<original.position, original.length>>

\* The copy of child that stands for original.
Collapsed(child, original) ==
  LET kept == Kept(child, original)
  IN [child EXCEPT !.original_name = original.name, !.position = kept[1], !.length = kept[2]]

\* parser::optimize_ast; the caller goes on with both trees.
optimize_ast ==
  /\ doing.do = "rest" /\ held # {} /\ Cardinality(held) <= MaxOptimize
  /\ \E t \in held, mode \in BOOLEAN :
       asked' = Asked(t.root, mode) /\ doing' = Optimize(t.root, Nobody)
  /\ UNCHANGED <<heap, held, parsing, calls>>

Await ==
  /\ doing.do = "optimize" /\ Collapses(heap[doing.id], asked.mode)
  /\ calls' = Append(calls, Awaiting(doing.id, doing.parent))
  /\ doing' = Optimize(heap[doing.id].nodes[1], doing.parent)
  /\ UNCHANGED <<heap, held, parsing, asked>>

\* The child goes when the call returns; the copy has its nodes.
Gone == -1
Released(h, child) == [h EXCEPT ![child].nodes = <<>>, ![child].parent = Gone]

\* A mutant of Replaced: the nodes of the original are adopted.
ReplacedOriginals(id, child) ==
  Append(Released(Adopt(heap, heap[id].nodes, Len(heap) + 1), child), Collapsed(heap[child], heap[id]))
Replaced(id, child) ==
  Append(Released(Adopt(heap, heap[child].nodes, Len(heap) + 1), child), Collapsed(heap[child], heap[id]))

Collapse ==
  /\ doing.do = "optimized" /\ calls # <<>> /\ Last(calls).ast = NoNodeYet
  /\ heap' = Replaced(Last(calls).id, doing.id)
  /\ calls' = Front(calls) /\ doing' = Optimized(Len(heap) + 1)
  /\ UNCHANGED <<held, parsing, asked>>

Copy ==
  LET original == heap[doing.id]  ast == Len(heap) + 1 IN
  /\ doing.do = "optimize" /\ ~Collapses(heap[doing.id], asked.mode)
  /\ heap' = Append(heap, [original EXCEPT !.parent = doing.parent, !.nodes = <<>>])
  /\ IF original.nodes = <<>> THEN doing' = Optimized(ast) /\ UNCHANGED calls
     ELSE /\ doing' = Optimize(original.nodes[1], ast)
          /\ calls' = Append(calls, Filling(doing.id, doing.parent, ast))
  /\ UNCHANGED <<held, parsing, asked>>

PushBack(h, ast, id) == [h EXCEPT ![ast].nodes = Append(@, id)]

Fill ==
  /\ doing.do = "optimized" /\ calls # <<>> /\ Last(calls).ast # NoNodeYet
  /\ LET ast == Last(calls).ast
         originals == heap[Last(calls).id].nodes
         filled == Len(heap[ast].nodes) + 1
     IN /\ heap' = PushBack(heap, ast, doing.id)
        /\ IF filled = Len(originals) THEN calls' = Front(calls) /\ doing' = Optimized(ast)
           ELSE doing' = Optimize(originals[filled + 1], ast) /\ UNCHANGED calls
  /\ UNCHANGED <<held, parsing, asked>>

Finish ==
  /\ doing.do = "optimized" /\ calls = <<>>
  /\ held' = held \cup {Held(doing.id, asked.root, asked.mode, asked.given)}
  /\ doing' = Resting
  /\ UNCHANGED <<heap, parsing, asked, calls>>

optimize == Await \/ Collapse \/ Copy \/ Fill

Next ==
  \/ ParseStep /\ UNCHANGED <<held, optimizing>>
  \/ parse \/ optimize_ast \/ optimize \/ Finish
Spec == Init /\ [][Next]_vars

----------------------------------------------------------------------------
(* A tree that has been optimized, and one parsed without packrat parsing, *)
(* can be walked upwards: the parent of a node is the node that holds it,  *)
(* whatever was tried and dropped and whichever other trees there are.     *)
(* Its nodes are all of the call that gave it: trees share none.           *)
Kids(id) == ToSet(heap[id].nodes)
Linked(t) ==
  /\ t.root \in t.made
  /\ \A i \in t.made : \A k \in Kids(i) :
       k \in t.made /\ (t.from # NoTree \/ ~job.packrat => heap[k].parent = i)
TreesLinked == \A t \in held : Linked(t)

(* A node's text holds the texts of its kids, in order, in the tree of the *)
(* parse and in an optimized one, exempt nodes included.                   *)
End(h, id) == h[id].position + h[id].length
Holds(h, from, to, kids) ==
  \A k \in DOMAIN kids :
    /\ from <= h[kids[k]].position /\ End(h, kids[k]) <= to
    /\ \A j \in 1 .. k - 1 : End(h, kids[j]) <= h[kids[k]].position
Nested(h) == \A i \in DOMAIN h : Holds(h, h[i].position, End(h, i), h[i].nodes)
ExtentsNest == Nested(heap)

(* Optimizing leaves no chain: afterwards a node has a single kid only if  *)
(* it is of a rule with no_ast_opt, in mode opt_mode, or of another rule,  *)
(* otherwise.                                                              *)
ChainsGone ==
  \A t \in held : t.from # NoTree => \A i \in t.made : ~Collapses(heap[i], t.mode)

(* Optimizing changes no node that was there: the tree it is given stays   *)
(* usable.                                                                 *)
Stands == \A i \in 1 .. asked.given : heap'[i] = heap[i]
OriginalStands == [][Stands]_vars
=============================================================================
