---------------------------- MODULE ParseContext ----------------------------
(***************************************************************************)
(* struct Context of peglib.h: the state of one parse.                     *)
(*                                                                         *)
(* The C++ call stack is explicit.  frames holds the parse_core calls in   *)
(* progress, innermost last; ctl says what happens next: "call" an         *)
(* operator at a position, or "return" a length (and, from a rule's body,  *)
(* its semantic value) to the innermost frame.  One step runs an operator  *)
(* from one such point to the next.                                        *)
(***************************************************************************)
EXTENDS PegGrammar, FiniteSets, TLC, SequencesExt

CONSTANTS
  Jobs,       \* the parses: [grammar, input, packrat, log]
  Nodes       \* Nodes[gr]: the operators that the rules of gr are made of

ASSUME JobsAssumption ==
  /\ \A gr \in {j.grammar : j \in Jobs} : WellFormed(gr, Nodes[gr])
  /\ \A j \in Jobs : j.input \in Seq(ToSet(j.input))

VARIABLES
  job,                      \* this parse's arguments, fixed at its start
  frames, ctl,
  result,                   \* Definition::Result, NoResult while parsing
  scopes,                   \* value_stack, above the caller's SemanticValues
  capture_entries,
  cut_stack,
  in_token_boundary_count,
  in_whitespace,
  recovered,
  memo,                     \* cache_registered, _success, _len and _values
  active_pos,
  lr_memo, lr_refs_hit, lr_active_seeds,
  error_info,
  reports                   \* the calls of log and error_reporter so far

values  == <<scopes, capture_entries>>
modes   == <<in_token_boundary_count, in_whitespace, recovered>>
lr      == <<lr_memo, lr_refs_hit, lr_active_seeds>>
memos   == <<memo, active_pos, lr>>
errors  == <<error_info, reports>>
silent  == <<values, cut_stack, modes, memos>>
context == <<silent, errors>>
caller  == <<job, result>>           \* what no operator touches
vars    == <<caller, frames, ctl, context>>

g     == job.grammar
rules == g.rules
input == job.input
Names == DOMAIN rules
Places == 0 .. Len(input)            \* positions, the end included

(* Nothing observes semantic values: no action or predicate on a rule that *)
(* the start rule reaches, no log.                                         *)
recognize_only ==
  ~job.log /\ \A r \in g.definition_ids : ~rules[r].action /\ rules[r].rejected = {}

----------------------------------------------------------------------------
(* Semantic values.  Without an action a rule's value is that of its first *)
(* child, NoVal (an empty std::any) if it has none.                        *)
NoVal == <<>>
NoChoice == <<0, 0>>                       \* choice_count_, choice_
EmptyScope == [vals |-> <<>>, toks |-> <<>>, choice |-> NoChoice]

Snapshot ==
  [vals |-> Len(Last(scopes).vals), toks |-> Len(Last(scopes).toks),
   choice |-> Last(scopes).choice, caps |-> Len(capture_entries)]
NoSnap == [vals |-> 0, toks |-> 0, choice |-> NoChoice, caps |-> 0]

First(seq, m) == SubSeq(seq, 1, m)         \* resize to m, m <= size
SetTop(seq, e) == [seq EXCEPT ![Len(seq)] = e]

\* A mutant of rollback: it forgets the captures.
rollbackKeepsCaptures(snap) ==
  /\ scopes' = SetTop(scopes, [vals |-> First(Last(scopes).vals, snap.vals),
                               toks |-> First(Last(scopes).toks, snap.toks),
                               choice |-> snap.choice])
  /\ UNCHANGED capture_entries

rollback(snap) ==
  /\ scopes' = SetTop(scopes, [vals |-> First(Last(scopes).vals, snap.vals),
                               toks |-> First(Last(scopes).toks, snap.toks),
                               choice |-> snap.choice])
  /\ capture_entries' = First(capture_entries, snap.caps)

Token(p, m) == <<p, m>>
AddToken(scope, p, m) ==
  IF recognize_only THEN scope ELSE [scope EXCEPT !.toks = Append(@, Token(p, m))]

\* cut_stack.back() = b, if there is one
SetCut(b) == IF cut_stack = <<>> THEN cut_stack ELSE SetTop(cut_stack, b)

----------------------------------------------------------------------------
(* Control.                                                                *)
Call(e, p)   == [do |-> "call", node |-> e, pos |-> p, len |-> 0, val |-> NoVal]
Return(m, v) == [do |-> "return", node |-> NoNode, pos |-> 0, len |-> m, val |-> v]

\* i: what the frame has consumed; k: the operand it is at, or a count;
\* snap: a Snapshot; save, seed: locals of Holder::parse_core.
NoPos  == -1
Seed(m, v, cycle_rules, saved_refs) ==
  [len |-> m, val |-> v, cycle_rules |-> cycle_rules, saved_refs |-> saved_refs]
NoSeed == Seed(Fail, NoVal, {}, {})
Frame(op, e, p) ==
  [op |-> op, node |-> e, pos |-> p, i |-> 0, k |-> 0,
   snap |-> NoSnap, save |-> NoPos, seed |-> NoSeed]

Entering(op) == ctl.do = "call" /\ ctl.node.op = op
Resuming(op) == ctl.do = "return" /\ frames # <<>> /\ Last(frames).op = op
node == ctl.node                      \* the operator being entered,
here == ctl.pos                       \* and where
len  == ctl.len                       \* the length being returned
top  == Last(frames)                  \* to this frame

Enter(f, e, p)  == frames' = Append(frames, f) /\ ctl' = Call(e, p)
Resume(f, e, p) == frames' = SetTop(frames, f) /\ ctl' = Call(e, p)
Answer(m)       == UNCHANGED frames /\ ctl' = Return(m, NoVal)
Leave(m)        == frames' = Front(frames) /\ ctl' = Return(m, NoVal)

(* skip_whitespace after a match of m bytes at p, count being the value    *)
(* in_token_boundary_count has by then.  What the whitespace matches is    *)
(* added to the match; the "skip" frame does that.                         *)
Skips(count) == count = 0 /\ g.whitespace # NoNode
\* A mutant of SkipFrame: the whitespace's length replaces the match's.
SkipFrameDropsMatch(p, m) == Frame("skip", NoNode, p)
SkipFrame(p, m) == [Frame("skip", NoNode, p) EXCEPT !.i = m]

MatchedFrom(p, m) ==         \* of an operator that has no frame yet
  IF Skips(in_token_boundary_count) THEN Enter(SkipFrame(p, m), g.whitespace, p + m)
  ELSE Answer(m)

SkipResume ==
  /\ Resuming("skip")
  /\ Leave(IF len = Fail THEN Fail ELSE top.i + len)
  /\ UNCHANGED <<context, caller>>
=============================================================================
