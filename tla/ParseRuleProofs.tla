-------------------------- MODULE ParseRuleProofs ---------------------------
(***************************************************************************)
(* Proofs about the rules being parsed: none is parsed again where it is   *)
(* being parsed; a finished entry is final, and the seed of a rule that is *)
(* growing only gets longer; and what the operators do to the context they *)
(* undo.                                                                   *)
(***************************************************************************)
EXTENDS ParseStackProofs

----------------------------------------------------------------------------
(* The rules in progress, when a frame is pushed, replaced or popped.      *)
Running(s, k) ==
  [depth |-> k, name |-> s[k].node.name, pos |-> s[k].pos, save |-> s[k].save]

(* A call in progress is that of some rule frame.                          *)
LEMMA Running1 ==
  ASSUME NEW s, NEW x
  PROVE  x \in InProgress(s) <=> \E k \in DOMAIN s : s[k].op = "rule" /\ x = Running(s, k)
BY DEF InProgress, Running

(* The fields of a call in progress.                                       *)
LEMMA RunningFacts ==
  ASSUME NEW s, NEW k
  PROVE  /\ Running(s, k).depth = k /\ Running(s, k).name = s[k].node.name
         /\ Running(s, k).pos = s[k].pos /\ Running(s, k).save = s[k].save
BY DEF Running

(* Pushing a frame adds a rule's call, or none.                            *)
LEMMA CallsPushed ==
  ASSUME NEW s, IsSeq(s), NEW f
  PROVE  LET x == [depth |-> Len(s) + 1, name |-> f.node.name, pos |-> f.pos, save |-> f.save] IN
         InProgress(Append(s, f)) =
           IF f.op = "rule" THEN InProgress(s) \cup {x} ELSE InProgress(s)
<1> DEFINE t == Append(s, f)  n == Len(s)
           x == [depth |-> Len(s) + 1, name |-> f.node.name, pos |-> f.pos, save |-> f.save]
<1>1. /\ n \in Nat /\ DOMAIN s = 1 .. n /\ DOMAIN t = 1 .. n + 1
      /\ t[n + 1] = f /\ \A k \in 1 .. n : t[k] = s[k]
  BY SeqFacts, AppendFacts
<1> HIDE DEF t, n
<1>2. Running(t, n + 1) = x /\ \A k \in 1 .. n : Running(t, k) = Running(s, k)
  BY <1>1 DEF Running, n
<1>3. \A y : y \in InProgress(t) <=> y \in InProgress(s) \/ (f.op = "rule" /\ y = x)
  <2> TAKE y
  <2>1. y \in InProgress(t) <=> \E k \in 1 .. n + 1 : t[k].op = "rule" /\ y = Running(t, k)
    BY <1>1, Running1
  <2>2. y \in InProgress(s) <=> \E k \in 1 .. n : s[k].op = "rule" /\ y = Running(s, k)
    BY <1>1, Running1
  <2>3. 1 .. n + 1 = (1 .. n) \cup {n + 1}
    BY <1>1
  <2> HIDE DEF x
  <2> QED BY <1>1, <1>2, <2>1, <2>2, <2>3
<1> QED BY <1>3 DEF t

(* Changing the innermost frame, except for a rule's own identity, changes *)
(* no call.                                                                *)
LEMMA CallsReplaced ==
  ASSUME NEW s, IsSeq(s), s # <<>>, NEW f,
         f.op = "rule" <=> Last(s).op = "rule",
         f.op = "rule" => f.node = Last(s).node /\ f.pos = Last(s).pos /\ f.save = Last(s).save
  PROVE  InProgress(SetTop(s, f)) = InProgress(s)
<1> DEFINE t == SetTop(s, f)  n == Len(s)
<1>1. /\ n \in Nat /\ n > 0 /\ DOMAIN s = 1 .. n /\ DOMAIN t = 1 .. n
      /\ t[n] = f /\ Last(s) = s[n] /\ \A k \in 1 .. n - 1 : t[k] = s[k]
  BY SeqFacts, SetTopFacts DEF Last
<1> HIDE DEF t, n
<1>2. \A k \in 1 .. n : /\ t[k].op = "rule" <=> s[k].op = "rule"
                        /\ t[k].op = "rule" => Running(t, k) = Running(s, k)
  <2> TAKE k \in 1 .. n
  <2>1. CASE k = n
    BY <1>1, <2>1 DEF Running
  <2>2. CASE k # n
    BY <1>1, <2>2 DEF Running
  <2> QED BY <2>1, <2>2
<1>3. \A y : y \in InProgress(t) <=> y \in InProgress(s)
  BY <1>1, <1>2, Running1
<1> QED BY <1>3 DEF t

(* Popping the innermost frame ends its call, if it is that of a rule.     *)
LEMMA CallsPopped ==
  ASSUME NEW s, IsSeq(s), s # <<>>
  PROVE  /\ InProgress(Front(s)) = {x \in InProgress(s) : x.depth < Len(s)}
         /\ Last(s).op # "rule" => InProgress(Front(s)) = InProgress(s)
<1> DEFINE t == Front(s)  n == Len(s)
<1>1. /\ n \in Nat /\ n > 0 /\ DOMAIN s = 1 .. n /\ DOMAIN t = 1 .. n - 1
      /\ Last(s) = s[n] /\ \A k \in 1 .. n - 1 : t[k] = s[k]
  BY SeqFacts, FrontFacts DEF Last
<1> HIDE DEF t, n
<1>2. \A k \in 1 .. n - 1 : Running(t, k) = Running(s, k)
  BY <1>1 DEF Running
<1>3. \A y : y \in InProgress(t) <=> y \in InProgress(s) /\ y.depth < n
  <2> TAKE y
  <2>1. y \in InProgress(t) <=> \E k \in 1 .. n - 1 : t[k].op = "rule" /\ y = Running(t, k)
    BY <1>1, Running1
  <2>2. y \in InProgress(s) <=> \E k \in 1 .. n : s[k].op = "rule" /\ y = Running(s, k)
    BY <1>1, Running1
  <2> QED BY <1>1, <1>2, <2>1, <2>2, RunningFacts
<1>4. Last(s).op # "rule" => \A y \in InProgress(s) : y.depth < n
  <2> SUFFICES ASSUME Last(s).op # "rule", NEW y \in InProgress(s) PROVE y.depth < n
    OBVIOUS
  <2>1. PICK k \in 1 .. n : s[k].op = "rule" /\ y = Running(s, k)
    BY <1>1, Running1
  <2> QED BY <1>1, <2>1, RunningFacts
<1> QED BY <1>3, <1>4 DEF t, n

(* Each rule in progress stands for a frame.                               *)
LEMMA CallFrames ==
  ASSUME FramesOK, NEW x \in InProgress(frames)
  PROVE  /\ x.depth \in 1 .. Len(frames) /\ frames[x.depth].op = "rule"
         /\ x = Running(frames, x.depth) /\ x.name \in Names /\ x.pos \in Places
         /\ x.save \in Places \cup {NoPos}
         /\ \A k \in x.depth .. Len(frames) : x.pos <= frames[k].pos
<1>1. DOMAIN frames = 1 .. Len(frames) /\ Len(frames) \in Nat
  BY SeqFacts DEF FramesOK, StackOK
<1>2. PICK k \in DOMAIN frames : frames[k].op = "rule" /\ x = Running(frames, k)
  BY Running1
<1>3. x.depth = k /\ x.name = frames[k].node.name /\ x.pos = frames[k].pos /\ x.save = frames[k].save
  BY <1>2, RunningFacts
<1>4. FrameOK(frames[k]) /\ job \in Jobs
  BY <1>2 DEF FramesOK, StackOK
<1>5. frames[k].node \in Own /\ frames[k].node.op = "ref"
  BY <1>2, <1>4 DEF FrameOK, HasOperator
<1>6. frames[k].node.name \in Names
  BY <1>4, <1>5, OperatorFacts
<1>7. \A l \in DOMAIN frames : k <= l => frames[k].pos <= frames[l].pos
  BY <1>2 DEF FramesOK, StackOK
<1> QED BY <1>1, <1>2, <1>3, <1>4, <1>6, <1>7 DEF FrameOK

----------------------------------------------------------------------------
(* What a step does to the stack: its frames are of the operators in ops.  *)
Moves(ops) ==
  \/ frames' = frames
  \/ \E f : f.op \in ops /\ frames' = Append(frames, f)
  \/ /\ frames # <<>> /\ Last(frames).op \in ops
     /\ \/ frames' = Front(frames)
        \/ \E f : f.op \in ops /\ frames' = SetTop(frames, f)

(* Entering an operand is such a step.                                     *)
LEMMA MovesEnter ==
  ASSUME NEW ops, NEW f, f.op \in ops, NEW e, NEW p, Enter(f, e, p) PROVE Moves(ops)
BY DEF Enter, Moves

(* So is calling the next operand.                                         *)
LEMMA MovesResume ==
  ASSUME NEW ops, NEW op \in ops, Resuming(op), NEW f, f.op \in ops, NEW e, NEW p, Resume(f, e, p)
  PROVE  Moves(ops)
BY DEF Resuming, Resume, Moves

(* So is returning.                                                        *)
LEMMA MovesLeave ==
  ASSUME NEW ops, NEW op \in ops, Resuming(op), NEW m, Leave(m) PROVE Moves(ops)
BY DEF Resuming, Leave, Moves

(* So is answering without a frame.                                        *)
LEMMA MovesAnswer ==
  ASSUME NEW ops, NEW m, Answer(m) PROVE Moves(ops)
BY DEF Answer, Moves

(* So is matching and skipping whitespace after it.                        *)
LEMMA MovesMatched ==
  ASSUME NEW ops, "skip" \in ops, NEW p, NEW m, MatchedFrom(p, m) PROVE Moves(ops)
<1>1. SkipFrame(p, m).op = "skip"
  BY DEF SkipFrame, Frame
<1> QED BY <1>1, MovesEnter, MovesAnswer DEF MatchedFrom

(* So is a literal.                                                        *)
LEMMA MovesLiteral ==
  ASSUME NEW ops, "skip" \in ops, NEW text, parse_literal(text) PROVE Moves(ops)
BY MovesMatched, MovesAnswer DEF parse_literal

(* The operators that touch no stack or count but the frames.              *)
PureOps == {"skip", "seq", "rep", "and", "not", "csc", "cap"}

PureAction ==
  \/ CharEnter \/ LiteralEnter \/ BackReferenceEnter \/ SkipResume
  \/ SequenceEnter \/ SequenceResume
  \/ RepetitionEnter \/ RepetitionMatched \/ RepetitionFailed
  \/ PredicateEnter \/ AndPredicateResume \/ NotPredicateResume
  \/ CaptureScopeEnter \/ CaptureScopeResume \/ CaptureEnter \/ CaptureResume

(* The actions of these operators are steps on their frames.               *)
LEMMA PureMoves ==
  ASSUME FramesOK, PureAction PROVE Moves(PureOps)
<1> DEFINE ops == PureOps
<1>1. /\ "skip" \in ops /\ "seq" \in ops /\ "rep" \in ops /\ "and" \in ops /\ "not" \in ops
      /\ "csc" \in ops /\ "cap" \in ops
  BY DEF PureOps
<1>2. \A op, e, p : Frame(op, e, p).op = op
  BY DEF Frame
<1> HIDE DEF ops
<1>3. CASE CharEnter
  BY <1>3, MovesAnswer DEF CharEnter, ops
<1>4. CASE LiteralEnter
  BY <1>1, <1>4, MovesLiteral DEF LiteralEnter, ops
<1>5. CASE BackReferenceEnter
  BY <1>1, <1>5, MovesLiteral, MovesAnswer DEF BackReferenceEnter, ops
<1>6. CASE SkipResume
  BY <1>1, <1>6, MovesLeave DEF SkipResume, ops
<1>7. CASE SequenceEnter
  <2> DEFINE f == [Frame("seq", node, here) EXCEPT !.k = 1]
  <2>1. f.op = "seq"
    BY DEF Frame
  <2>2. Answer(0) \/ Enter(f, node.kids[1], here)
    BY <1>7 DEF SequenceEnter
  <2> HIDE DEF f
  <2> QED BY <1>1, <2>1, <2>2, MovesAnswer, MovesEnter DEF ops
<1>8. CASE SequenceResume
  <2> DEFINE i == top.i + len  f == Advanced(top, i, top.k + 1)
  <2>1. /\ Resuming("seq")
        /\ \/ Leave(Fail) \/ Leave(i)
           \/ Resume(f, top.node.kids[top.k + 1], top.pos + i)
    BY <1>8 DEF SequenceResume, Advanced
  <2>2. f.op = "seq"
    BY <2>1, ReturnFacts, AdvancedIs DEF FrameOf
  <2> HIDE DEF f, i
  <2> QED BY <1>1, <2>1, <2>2, MovesLeave, MovesResume DEF ops
<1>9. CASE RepetitionEnter
  <2> DEFINE f == [Frame("rep", node, here) EXCEPT !.snap = Snapshot]
  <2>1. f.op = "rep"
    BY DEF Frame
  <2>2. \/ Answer(Fail) \/ Answer(Span(node, here)) \/ Answer(0)
        \/ Enter(f, node.kid, here)
    BY <1>9 DEF RepetitionEnter
  <2> HIDE DEF f
  <2> QED BY <1>1, <2>1, <2>2, MovesAnswer, MovesEnter DEF ops
<1>10. CASE RepetitionMatched
  <2> DEFINE i == top.i + len  f == Round(top, i, top.k + 1, Snapshot)
  <2>1. Resuming("rep") /\ (Leave(i) \/ Resume(f, top.node.kid, top.pos + i))
    BY <1>10 DEF RepetitionMatched, Round
  <2>2. f.op = "rep"
    BY <2>1, ReturnFacts, RoundIs DEF FrameOf
  <2> HIDE DEF f, i
  <2> QED BY <1>1, <2>1, <2>2, MovesLeave, MovesResume DEF ops
<1>11. CASE RepetitionFailed
  <2>1. Resuming("rep") /\ (Leave(Fail) \/ Leave(top.i))
    BY <1>11 DEF RepetitionFailed
  <2> QED BY <1>1, <2>1, MovesLeave DEF ops
<1>12. CASE PredicateEnter
  <2> DEFINE f == [Frame(node.op, node, here) EXCEPT !.snap = Snapshot]
  <2>1. f.op = node.op
    BY DEF Frame
  <2>2. Enter(f, node.kid, here) /\ node.op \in {"and", "not"}
    BY <1>12 DEF PredicateEnter, Entering, node
  <2> HIDE DEF f
  <2> QED BY <1>1, <2>1, <2>2, MovesEnter DEF ops
<1>13. CASE AndPredicateResume
  BY <1>1, <1>13, MovesLeave DEF AndPredicateResume, ops
<1>14. CASE NotPredicateResume
  <2>1. Resuming("not") /\ (Leave(0) \/ Leave(Fail))
    BY <1>14 DEF NotPredicateResume
  <2> QED BY <1>1, <2>1, MovesLeave DEF ops
<1>15. CASE CaptureScopeEnter
  <2> DEFINE f == [Frame("csc", node, here) EXCEPT !.snap = Snapshot]
  <2>1. f.op = "csc"
    BY DEF Frame
  <2>2. Enter(f, node.kid, here)
    BY <1>15 DEF CaptureScopeEnter
  <2> HIDE DEF f
  <2> QED BY <1>1, <2>1, <2>2, MovesEnter DEF ops
<1>16. CASE CaptureScopeResume
  BY <1>1, <1>16, MovesLeave DEF CaptureScopeResume, ops
<1>17. CASE CaptureEnter
  BY <1>1, <1>2, <1>17, MovesEnter DEF CaptureEnter, ops
<1>18. CASE CaptureResume
  BY <1>1, <1>18, MovesLeave DEF CaptureResume, ops
<1> QED BY <1>3, <1>4, <1>5, <1>6, <1>7, <1>8, <1>9, <1>10, <1>11, <1>12, <1>13, <1>14, <1>15,
           <1>16, <1>17, <1>18 DEF PureAction, ops

(* No combinator starts or ends a rule.                                    *)
QuietOps == FrameOps \ {"rule"}

(* A step on the frames of few operators is one on those of more.          *)
LEMMA MovesMore ==
  ASSUME NEW ops, NEW more, ops \subseteq more, Moves(ops) PROVE Moves(more)
BY DEF Moves

(* The frames of the combinators: not those of a rule or of the parse.     *)
InnerOps == QuietOps \ {"top"}

(* Every action of a combinator moves on the frames of the combinators     *)
(* only.                                                                   *)
LEMMA CombinatorStays ==
  ASSUME FramesOK, Combinator PROVE Moves(InnerOps)
<1> DEFINE ops == InnerOps
<1>1. /\ "cho" \in ops /\ "tok" \in ops /\ "ign" \in ops /\ "wsp" \in ops /\ "rec" \in ops
      /\ "skip" \in ops /\ PureOps \subseteq ops
  BY DEF InnerOps, QuietOps, PureOps, FrameOps
<1>2. \A op, e, p : Frame(op, e, p).op = op
  BY DEF Frame
<1> HIDE DEF ops
<1>3. CASE PureAction
  BY <1>1, <1>3, PureMoves, MovesMore DEF ops
<1>4. CASE ChoiceEnter
  <2> DEFINE f == [Frame("cho", node, here) EXCEPT !.k = NextOf(Open(node, here, 1)), !.snap = Snapshot]
  <2>1. f.op = "cho"
    BY DEF Frame
  <2>2. Answer(Fail) \/ Enter(f, node.kids[NextOf(Open(node, here, 1))], here)
    BY <1>4 DEF ChoiceEnter
  <2> HIDE DEF f
  <2> QED BY <1>1, <2>1, <2>2, MovesAnswer, MovesEnter DEF ops
<1>5. CASE ChoiceMatched
  BY <1>1, <1>5, MovesLeave DEF ChoiceMatched, ops
<1>6. CASE ChoiceFailed
  <2> DEFINE open == Open(top.node, top.pos, top.k + 1)  f == Counted(top, NextOf(open))
  <2>1. Resuming("cho") /\ (Leave(Fail) \/ Resume(f, top.node.kids[NextOf(open)], top.pos))
    BY <1>6 DEF ChoiceFailed, Counted
  <2>2. f.op = "cho"
    BY <2>1, ReturnFacts, CountedIs DEF FrameOf
  <2> HIDE DEF f, open
  <2> QED BY <1>1, <2>1, <2>2, MovesLeave, MovesResume DEF ops
<1>7. CASE TokenBoundaryEnter
  BY <1>1, <1>2, <1>7, MovesEnter DEF TokenBoundaryEnter, ops
<1>8. CASE TokenBoundaryResume
  <2>1. /\ Resuming("tok")
        /\ Leave(len) \/ Resume(SkipFrame(top.pos, len), g.whitespace, top.pos + len)
    BY <1>8 DEF TokenBoundaryResume
  <2>2. SkipFrame(top.pos, len).op = "skip"
    BY DEF SkipFrame, Frame
  <2> QED BY <1>1, <2>1, <2>2, MovesLeave, MovesResume DEF ops
<1>9. CASE IgnoreEnter
  BY <1>1, <1>2, <1>9, MovesEnter DEF IgnoreEnter, ops
<1>10. CASE IgnoreResume
  BY <1>1, <1>10, MovesLeave DEF IgnoreResume, ops
<1>11. CASE WhitespaceEnter
  <2>1. Answer(0) \/ Enter(Frame("wsp", node, here), node.kid, here)
    BY <1>11 DEF WhitespaceEnter
  <2> QED BY <1>1, <1>2, <2>1, MovesAnswer, MovesEnter DEF ops
<1>12. CASE WhitespaceResume
  BY <1>1, <1>12, MovesLeave DEF WhitespaceResume, ops
<1>13. CASE RecoveryEnter
  BY <1>1, <1>2, <1>13, MovesEnter DEF RecoveryEnter, ops
<1>14. CASE RecoveryResume
  BY <1>1, <1>14, MovesLeave DEF RecoveryResume, ops
<1>15. CASE CutEnter
  BY <1>15, MovesAnswer DEF CutEnter, ops
<1> QED BY <1>3, <1>4, <1>5, <1>6, <1>7, <1>8, <1>9, <1>10, <1>11, <1>12, <1>13, <1>14, <1>15
        DEF Combinator, PureAction, ops

(* A fortiori on those that start and end no call of a rule.               *)
LEMMA CombinatorMoves ==
  ASSUME FramesOK, Combinator PROVE Moves(QuietOps)
BY CombinatorStays, MovesMore DEF InnerOps

(* Hence it starts and ends no call.                                       *)
LEMMA QuietCalls ==
  ASSUME FramesOK, Moves(QuietOps) PROVE InProgress(frames') = InProgress(frames)
<1>1. IsSeq(frames) /\ "rule" \notin QuietOps
  BY DEF FramesOK, StackOK, QuietOps
<1>2. CASE frames' = frames
  BY <1>2
<1>3. CASE \E f : f.op \in QuietOps /\ frames' = Append(frames, f)
  BY <1>1, <1>3, CallsPushed
<1>4. CASE /\ frames # <<>> /\ Last(frames).op \in QuietOps
           /\ frames' = Front(frames)
  BY <1>1, <1>4, CallsPopped
<1>5. CASE /\ frames # <<>> /\ Last(frames).op \in QuietOps
           /\ \E f : f.op \in QuietOps /\ frames' = SetTop(frames, f)
  BY <1>1, <1>5, CallsReplaced
<1> QED BY <1>2, <1>3, <1>4, <1>5 DEF Moves

(* A step that starts and ends no call and touches no guard keeps RulesOK. *)
LEMMA RulesQuiet ==
  ASSUME RulesOK, job' = job, InProgress(frames') = InProgress(frames), memo' = memo,
         lr_memo' = lr_memo, active_pos' = active_pos, lr_active_seeds' = lr_active_seeds
  PROVE  RulesOK'
BY DEF RulesOK, CallsOK, Refused, Latest, ByPosition, Names, rules, g, Places, input

----------------------------------------------------------------------------
(* A rule starts.                                                          *)
LEMMA CallsBefore ==
  ASSUME FramesOK, ctl.do = "call", NEW y \in InProgress(frames)
  PROVE  y.pos <= here
<1> DEFINE n == Len(frames)
<1>1. IsSeq(frames) /\ frames # <<>> /\ n \in Nat /\ n > 0
  BY CallFacts, SeqFacts DEF FramesOK, StackOK
<1>2. y.depth \in 1 .. n /\ y.pos \in Places /\ y.pos <= frames[n].pos
  BY <1>1, CallFrames
<1>3. here = frames[n].pos + frames[n].i /\ FrameOK(frames[n])
  BY <1>1, SeqFacts DEF FramesOK, StackOK, ControlOK, Standing, here, Last
<1>4. frames[n].pos \in Nat /\ frames[n].i \in Nat /\ y.pos \in Nat
  BY <1>2, <1>3, InputFacts DEF FrameOK, FramesOK
<1> QED BY <1>2, <1>3, <1>4

(* A rule that no guard refuses starts: its call is the only one of it     *)
(* here, and its guard is now in place.                                    *)
LEMMA RuleStarts ==
  ASSUME FramesOK, RulesOK, Entering("ref"), job' = job,
         NEW f, RunRule(f), f.op = "rule", f.node = node, f.pos = here,
         \A q \in Names \X Places : memo[q] # NoMemo => memo'[q] # NoMemo,
         \A q \in Names \X Places : lr_memo[q] # NoMemo => lr_memo'[q] # NoMemo,
         lr_active_seeds \subseteq lr_active_seeds',
         \A q \in lr_active_seeds' :
           q \in lr_active_seeds \/ (q = key /\ callee.is_left_recursive),
         \A q \in Names \X Places :
           ~rules[q[1]].is_left_recursive /\ lr_memo'[q] # NoMemo
             => lr_memo[q] # NoMemo \/ (q = key /\ ~job.packrat),
         active_pos' = IF ByPosition(node.name) THEN [active_pos EXCEPT ![node.name] = here]
                       ELSE active_pos,
         \A y \in InProgress(frames) : ~(y.name = node.name /\ y.pos = here),
         IF callee.is_left_recursive THEN lr_memo'[key] # NoMemo /\ key \in lr_active_seeds'
         ELSE IF ~job.packrat THEN lr_memo'[key] # NoMemo
         ELSE IF callee.cached THEN memo'[key] # NoMemo
         ELSE f.save = active_pos[node.name]
  PROVE  RulesOK'
<1> DEFINE C == InProgress(frames)  n == Len(frames)
           x == [depth |-> n + 1, name |-> node.name, pos |-> here, save |-> f.save]
           D == C \cup {x}
<1>1. /\ IsSeq(frames) /\ frames # <<>> /\ n \in Nat /\ n > 0 /\ node.name \in Names
      /\ here \in Places /\ here \in Nat /\ key = <<node.name, here>> /\ NoPos \notin Places
      /\ active_pos \in [Names -> Places \cup {NoPos}]
  BY KeyFacts, CallFacts, SeqFacts, InputFacts DEF FramesOK, StackOK, MemosOK, key
<1>2. InProgress(frames') = D
  <2>1. InProgress(Append(frames, f)) = D /\ IsSeq(Append(frames, f))
    BY <1>1, CallsPushed, AppendFacts
  <2>2. Frame("body", f.node, f.pos).op # "rule"
    BY DEF Frame
  <2>3. frames' = Append(Append(frames, f), Frame("body", f.node, f.pos))
    BY DEF RunRule
  <2> HIDE DEF D
  <2> QED BY <2>1, <2>2, <2>3, CallsPushed
<1>3. \A y \in C : /\ y.depth \in 1 .. n /\ y.name \in Names /\ y.pos \in Places /\ y.pos \in Nat
                  /\ y.pos <= here /\ y.save \in Places \cup {NoPos}
  BY CallFrames, CallsBefore, InputFacts DEF FramesOK, Entering
<1> HIDE DEF C, n
<1>4. x.depth = n + 1 /\ x.name = node.name /\ x.pos = here /\ x.save = f.save
  OBVIOUS
<1> HIDE DEF x
<1>5. CallsOK(C)
  BY DEF RulesOK, C
<1>6. \A y, z \in D : y.name = z.name /\ y.pos = z.pos => y = z
  BY <1>4, <1>5 DEF CallsOK, C
<1>7. \A y \in C : {z \in D : z.depth < y.depth} = {z \in C : z.depth < y.depth}
  BY <1>1, <1>3, <1>4
<1>8. {z \in D : z.depth < x.depth} = C
  BY <1>1, <1>3, <1>4
<1> DEFINE Kept(y) ==
      IF rules[y.name].is_left_recursive
      THEN lr_memo'[<<y.name, y.pos>>] # NoMemo /\ <<y.name, y.pos>> \in lr_active_seeds'
      ELSE IF ~job.packrat THEN lr_memo'[<<y.name, y.pos>>] # NoMemo
      ELSE IF rules[y.name].cached THEN memo'[<<y.name, y.pos>>] # NoMemo
      ELSE Latest({z \in D : z.depth < y.depth}, y.name, y.save)
<1>9. \A y \in C : Kept(y)
  <2> TAKE y \in C
  <2> DEFINE q == <<y.name, y.pos>>
  <2>1. q \in Names \X Places
    BY <1>3
  <2>2. Refused(C, y) /\ {z \in D : z.depth < y.depth} = {z \in C : z.depth < y.depth}
    BY <1>5, <1>7 DEF CallsOK
  <2>3. CASE rules[y.name].is_left_recursive
    BY <2>1, <2>2, <2>3 DEF Refused
  <2>4. CASE ~rules[y.name].is_left_recursive /\ ~job.packrat
    BY <2>1, <2>2, <2>4 DEF Refused
  <2>5. CASE ~rules[y.name].is_left_recursive /\ job.packrat /\ rules[y.name].cached
    BY <2>1, <2>2, <2>5 DEF Refused
  <2>6. CASE ~rules[y.name].is_left_recursive /\ job.packrat /\ ~rules[y.name].cached
    BY <2>2, <2>6 DEF Refused
  <2> QED BY <2>3, <2>4, <2>5, <2>6
<1>10. Kept(x)
  <2>1. callee = rules[x.name] /\ key = <<x.name, x.pos>>
    BY <1>1, <1>4 DEF callee
  <2>2. Latest(C, x.name, active_pos[x.name])
    BY <1>1, <1>4, <1>5 DEF CallsOK
  <2>3. CASE callee.is_left_recursive
    BY <2>1, <2>3
  <2>4. CASE ~callee.is_left_recursive /\ ~job.packrat
    BY <2>1, <2>4
  <2>5. CASE ~callee.is_left_recursive /\ job.packrat /\ callee.cached
    BY <2>1, <2>5
  <2>6. CASE ~callee.is_left_recursive /\ job.packrat /\ ~callee.cached
    <3>1. x.save = active_pos[x.name]
      BY <1>4, <2>6
    <3> QED BY <1>8, <2>1, <2>2, <2>6, <3>1
  <2> QED BY <2>3, <2>4, <2>5, <2>6
<1>11. \A r \in Names : Latest(D, r, active_pos'[r])
  <2> SUFFICES ASSUME NEW r \in Names PROVE Latest(D, r, active_pos'[r])
    OBVIOUS
  <2>1. Latest(C, r, active_pos[r])
    BY <1>5 DEF CallsOK
  <2>2. CASE r = node.name /\ ByPosition(r)
    <3>1. active_pos'[r] = here
      BY <1>1, <2>2
    <3> QED BY <1>3, <1>4, <2>2, <3>1, <1>1 DEF Latest
  <2>3. CASE ~(r = node.name /\ ByPosition(r))
    <3>1. active_pos'[r] = active_pos[r]
      BY <1>1, <2>3
    <3> QED BY <1>4, <2>1, <2>3, <3>1 DEF Latest
  <2> QED BY <2>2, <2>3
<1>12. \A q \in lr_active_seeds' :
         rules[q[1]].is_left_recursive /\ \E y \in D : y.name = q[1] /\ y.pos = q[2]
  BY <1>1, <1>4, <1>5 DEF CallsOK, callee
<1>13. \A r \in Names, p \in Places :
         ~rules[r].is_left_recursive /\ lr_memo'[<<r, p>>] # NoMemo
           => ~job.packrat /\ \E y \in D : y.name = r /\ y.pos = p
  BY <1>1, <1>4, <1>5 DEF CallsOK
<1>14. RulesOK' <=>
         /\ \A y, z \in D : y.name = z.name /\ y.pos = z.pos => y = z
         /\ \A y \in D : Kept(y)
         /\ \A r \in Names : Latest(D, r, active_pos'[r])
         /\ \A q \in lr_active_seeds' :
              rules[q[1]].is_left_recursive /\ \E y \in D : y.name = q[1] /\ y.pos = q[2]
         /\ \A r \in Names, p \in Places :
              ~rules[r].is_left_recursive /\ lr_memo'[<<r, p>>] # NoMemo
                => ~job.packrat /\ \E y \in D : y.name = r /\ y.pos = p
  <2> HIDE DEF D
  <2> QED BY <1>2 DEF RulesOK, CallsOK, Refused, Latest, ByPosition, Names, rules, g, Places, input
<1> QED BY <1>6, <1>9, <1>10, <1>11, <1>12, <1>13, <1>14

----------------------------------------------------------------------------
(* A rule ends.                                                            *)
LEMMA RuleEnds ==
  ASSUME FramesOK, RulesOK, Resuming("rule"), job' = job, frames' = Front(frames),
         \A q \in Names \X Places : q # InRule(top) /\ memo[q] # NoMemo => memo'[q] # NoMemo,
         \A q \in Names \X Places :
           q # InRule(top) /\ lr_memo[q] # NoMemo => lr_memo'[q] # NoMemo,
         \A q \in Names \X Places :
           ~rules[q[1]].is_left_recursive /\ lr_memo'[q] # NoMemo => lr_memo[q] # NoMemo,
         ~rule_of(top).is_left_recursive /\ ~job.packrat => lr_memo'[InRule(top)] = NoMemo,
         lr_active_seeds' = IF rule_of(top).is_left_recursive
                            THEN lr_active_seeds \ {InRule(top)} ELSE lr_active_seeds,
         active_pos' = IF ByPosition(name_of(top))
                       THEN [active_pos EXCEPT ![name_of(top)] = top.save] ELSE active_pos
  PROVE  RulesOK'
<1> DEFINE C == InProgress(frames)  n == Len(frames)  x == Running(frames, n)
           D == {y \in C : y.depth < n}
<1>1. /\ IsSeq(frames) /\ frames # <<>> /\ n \in Nat /\ n > 0 /\ top = frames[n]
      /\ DOMAIN frames = 1 .. n
      /\ name_of(top) \in Names /\ InRule(top) = <<name_of(top), top.pos>>
      /\ top.op = "rule" /\ top.pos \in Places /\ NoPos \notin Places
      /\ rule_of(top) = rules[name_of(top)] /\ InRule(top) \in Names \X Places
      /\ active_pos \in [Names -> Places \cup {NoPos}]
  BY RuleFacts, SeqFacts, InputFacts
     DEF FramesOK, StackOK, MemosOK, Resuming, top, Last, name_of, rule_of
<1>2. InProgress(frames') = D
  BY <1>1, CallsPopped
<1>3. /\ x \in C /\ x.depth = n /\ x.name = name_of(top) /\ x.pos = top.pos /\ x.save = top.save
      /\ InRule(top) = <<x.name, x.pos>>
  BY <1>1, Running1, RunningFacts DEF name_of
<1>4. \A y \in C : y.depth \in 1 .. n /\ y.name \in Names /\ y.pos \in Places
  BY CallFrames
<1>5. \A y \in C : y \notin D <=> y = x
  <2> TAKE y \in C
  <2>1. y = Running(frames, y.depth) /\ y.depth \in 1 .. n
    BY CallFrames
  <2> QED BY <1>1, <1>3, <2>1
<1> HIDE DEF C, n, x
<1>6. CallsOK(C)
  BY DEF RulesOK, C
<1>7. \A y \in D : y \in C /\ <<y.name, y.pos>> # InRule(top)
  BY <1>3, <1>5, <1>6 DEF CallsOK
<1>8. \A y \in D : {z \in D : z.depth < y.depth} = {z \in C : z.depth < y.depth}
  BY <1>1, <1>4
<1>9. {z \in C : z.depth < x.depth} = D
  BY <1>3
<1>10. \A y, z \in D : y.name = z.name /\ y.pos = z.pos => y = z
  BY <1>6 DEF CallsOK
<1> HIDE DEF D
<1> DEFINE Kept(y) ==
      IF rules[y.name].is_left_recursive
      THEN lr_memo'[<<y.name, y.pos>>] # NoMemo /\ <<y.name, y.pos>> \in lr_active_seeds'
      ELSE IF ~job.packrat THEN lr_memo'[<<y.name, y.pos>>] # NoMemo
      ELSE IF rules[y.name].cached THEN memo'[<<y.name, y.pos>>] # NoMemo
      ELSE Latest({z \in D : z.depth < y.depth}, y.name, y.save)
<1>11. \A y \in D : Kept(y)
  <2> TAKE y \in D
  <2> DEFINE q == <<y.name, y.pos>>
  <2>1. q \in Names \X Places /\ q # InRule(top)
    BY <1>4, <1>7
  <2>2. Refused(C, y) /\ {z \in D : z.depth < y.depth} = {z \in C : z.depth < y.depth}
    BY <1>6, <1>7, <1>8 DEF CallsOK
  <2>3. CASE rules[y.name].is_left_recursive
    BY <2>1, <2>2, <2>3 DEF Refused
  <2>4. CASE ~rules[y.name].is_left_recursive /\ ~job.packrat
    BY <2>1, <2>2, <2>4 DEF Refused
  <2>5. CASE ~rules[y.name].is_left_recursive /\ job.packrat /\ rules[y.name].cached
    BY <2>1, <2>2, <2>5 DEF Refused
  <2>6. CASE ~rules[y.name].is_left_recursive /\ job.packrat /\ ~rules[y.name].cached
    BY <2>2, <2>6 DEF Refused
  <2> QED BY <2>3, <2>4, <2>5, <2>6
<1>12. \A r \in Names : Latest(D, r, active_pos'[r])
  <2> SUFFICES ASSUME NEW r \in Names PROVE Latest(D, r, active_pos'[r])
    OBVIOUS
  <2>1. CASE r = name_of(top) /\ ByPosition(r)
    <3>1. active_pos'[r] = x.save
      BY <1>1, <1>3, <2>1
    <3>2. Refused(C, x) /\ rules[x.name] = rules[r] /\ x.name = r
      BY <1>3, <1>6, <2>1 DEF CallsOK
    <3> QED BY <1>9, <2>1, <3>1, <3>2 DEF Refused, ByPosition
  <2>2. CASE ~(r = name_of(top) /\ ByPosition(r))
    <3>1. active_pos'[r] = active_pos[r] /\ Latest(C, r, active_pos[r])
      BY <1>1, <1>6, <2>2 DEF CallsOK
    <3> QED BY <1>3, <1>5, <1>7, <2>2, <3>1 DEF Latest
  <2> QED BY <2>1, <2>2
<1>13. \A q \in lr_active_seeds' :
         rules[q[1]].is_left_recursive /\ \E y \in D : y.name = q[1] /\ y.pos = q[2]
  <2> SUFFICES ASSUME NEW q \in lr_active_seeds'
               PROVE  rules[q[1]].is_left_recursive /\ \E y \in D : y.name = q[1] /\ y.pos = q[2]
    OBVIOUS
  <2>1. q \in lr_active_seeds /\ q \in Names \X Places
    BY DEF FramesOK, MemosOK
  <2>2. PICK y \in C : y.name = q[1] /\ y.pos = q[2] /\ rules[q[1]].is_left_recursive
    BY <1>6, <2>1 DEF CallsOK
  <2>3. y # x
    BY <1>1, <1>3, <2>1, <2>2
  <2> QED BY <1>5, <2>2, <2>3
<1>14. \A r \in Names, p \in Places :
         ~rules[r].is_left_recursive /\ lr_memo'[<<r, p>>] # NoMemo
           => ~job.packrat /\ \E y \in D : y.name = r /\ y.pos = p
  <2> SUFFICES ASSUME NEW r \in Names, NEW p \in Places,
                      ~rules[r].is_left_recursive, lr_memo'[<<r, p>>] # NoMemo
               PROVE  ~job.packrat /\ \E y \in D : y.name = r /\ y.pos = p
    OBVIOUS
  <2>1. lr_memo[<<r, p>>] # NoMemo
    BY Zenon
  <2>2. PICK y \in C : ~job.packrat /\ y.name = r /\ y.pos = p
    BY <1>6, <2>1 DEF CallsOK
  <2>3. y # x
    BY <1>1, <1>3, <2>2
  <2> QED BY <1>5, <2>2, <2>3
<1>15. RulesOK' <=>
         /\ \A y, z \in D : y.name = z.name /\ y.pos = z.pos => y = z
         /\ \A y \in D : Kept(y)
         /\ \A r \in Names : Latest(D, r, active_pos'[r])
         /\ \A q \in lr_active_seeds' :
              rules[q[1]].is_left_recursive /\ \E y \in D : y.name = q[1] /\ y.pos = q[2]
         /\ \A r \in Names, p \in Places :
              ~rules[r].is_left_recursive /\ lr_memo'[<<r, p>>] # NoMemo
                => ~job.packrat /\ \E y \in D : y.name = r /\ y.pos = p
  BY <1>2 DEF RulesOK, CallsOK, Refused, Latest, ByPosition, Names, rules, g, Places, input
<1> QED BY <1>10, <1>11, <1>12, <1>13, <1>14, <1>15

----------------------------------------------------------------------------
(* A rule goes on: what refuses the rules in progress stays.               *)
LEMMA RulesKept ==
  ASSUME FramesOK, RulesOK, job' = job, InProgress(frames') = InProgress(frames),
         \A q \in Names \X Places :
           ~rules[q[1]].is_left_recursive => memo'[q] = memo[q] /\ lr_memo'[q] = lr_memo[q],
         \A q \in lr_active_seeds : lr_memo'[q] # NoMemo,
         active_pos' = active_pos, lr_active_seeds' = lr_active_seeds
  PROVE  RulesOK'
<1> DEFINE C == InProgress(frames)
           Kept(y) ==
             IF rules[y.name].is_left_recursive
             THEN lr_memo'[<<y.name, y.pos>>] # NoMemo /\ <<y.name, y.pos>> \in lr_active_seeds
             ELSE IF ~job.packrat THEN lr_memo'[<<y.name, y.pos>>] # NoMemo
             ELSE IF rules[y.name].cached THEN memo'[<<y.name, y.pos>>] # NoMemo
             ELSE Latest({z \in C : z.depth < y.depth}, y.name, y.save)
<1>1. CallsOK(C) /\ \A y \in C : y.name \in Names /\ y.pos \in Places
  BY CallFrames DEF RulesOK
<1> HIDE DEF C
<1>2. \A y \in C : Kept(y)
  <2> TAKE y \in C
  <2>1. <<y.name, y.pos>> \in Names \X Places /\ Refused(C, y)
    BY <1>1 DEF CallsOK
  <2>2. CASE rules[y.name].is_left_recursive
    BY <2>1, <2>2 DEF Refused
  <2>3. CASE ~rules[y.name].is_left_recursive /\ ~job.packrat
    BY <2>1, <2>3 DEF Refused
  <2>4. CASE ~rules[y.name].is_left_recursive /\ job.packrat /\ rules[y.name].cached
    BY <2>1, <2>4 DEF Refused
  <2>5. CASE ~rules[y.name].is_left_recursive /\ job.packrat /\ ~rules[y.name].cached
    BY <2>1, <2>5 DEF Refused
  <2> QED BY <2>2, <2>3, <2>4, <2>5
<1>3. \A r \in Names, p \in Places :
        ~rules[r].is_left_recursive /\ lr_memo'[<<r, p>>] # NoMemo
          => ~job.packrat /\ \E y \in C : y.name = r /\ y.pos = p
  BY <1>1 DEF CallsOK
<1>4. RulesOK' <=>
        /\ \A y, z \in C : y.name = z.name /\ y.pos = z.pos => y = z
        /\ \A y \in C : Kept(y)
        /\ \A r \in Names : Latest(C, r, active_pos[r])
        /\ \A q \in lr_active_seeds :
             rules[q[1]].is_left_recursive /\ \E y \in C : y.name = q[1] /\ y.pos = q[2]
        /\ \A r \in Names, p \in Places :
             ~rules[r].is_left_recursive /\ lr_memo'[<<r, p>>] # NoMemo
               => ~job.packrat /\ \E y \in C : y.name = r /\ y.pos = p
  BY DEF RulesOK, CallsOK, Refused, Latest, ByPosition, Names, rules, g, Places, input, C
<1> QED BY <1>1, <1>2, <1>3, <1>4 DEF CallsOK

(* A round of growing forgets neither a rule that is growing nor one that  *)
(* is not left-recursive.                                                  *)
LEMMA RulesGrow ==
  ASSUME FramesOK, RulesOK, Growing, job' = job, len # Fail, NEW c, c \subseteq Growers, Grow(top, c)
  PROVE  RulesOK'
<1> DEFINE s == Seed(len, ctl.val, c, top.seed.saved_refs)
           f == Reseeded(top, 1, s)  b == Frame("body", f.node, f.pos)
<1>1. /\ IsSeq(frames) /\ frames # <<>> /\ Last(frames) = top /\ FrameOK(top) /\ top.op = "rule"
      /\ rule_of(top) = rules[name_of(top)] /\ rules[name_of(top)].is_left_recursive
      /\ InRule(top) = <<name_of(top), top.pos>> /\ InRule(top) \in Names \X Places
      /\ len \in Lengths /\ Len(input) \in Nat
  BY RuleFacts, InputFacts DEF FramesOK, StackOK, Growing, Resuming, top, rule_of, name_of
<1>2. frames' = Append(SetTop(frames, f), b)
  BY DEF Grow, RunRuleAgain, Reseeded
<1>3. f.op = "rule" /\ f.node = top.node /\ f.pos = top.pos /\ f.save = top.save
  <2> HIDE DEF s
  <2> QED BY <1>1, ReseededIs DEF FrameOf
<1>4. b.op = "body"
  BY DEF Frame
<1> HIDE DEF f, b
<1>5. InProgress(frames') = InProgress(frames)
  <2>1. InProgress(SetTop(frames, f)) = InProgress(frames) /\ IsSeq(SetTop(frames, f))
    BY <1>1, <1>3, CallsReplaced, SetTopFacts
  <2> QED BY <1>2, <1>4, <2>1, CallsPushed
<1> DEFINE forgotten == Stale(name_of(top), top.pos, c)
<1>6. /\ lr_memo' = [q \in DOMAIN lr_memo |->
                      IF q = InRule(top) THEN Entry(len, ctl.val)
                      ELSE IF q \in forgotten THEN NoMemo ELSE lr_memo[q]]
      /\ memo' = clear_packrat_cache(name_of(top), top.pos)
      /\ active_pos' = active_pos /\ lr_active_seeds' = lr_active_seeds
  BY DEF Grow
<1>7. \A q \in forgotten : q[1] \in Growers /\ q \notin lr_active_seeds
  BY DEF Stale
<1> HIDE DEF forgotten
<1>8. DOMAIN lr_memo = Names \X Places /\ DOMAIN memo = Names \X Places
      /\ lr_active_seeds \subseteq Names \X Places
  BY DEF FramesOK, MemosOK, EntriesOK
<1>9. Entry(len, ctl.val) # NoMemo
  <2>1. Entry(len, ctl.val).len = len /\ NoMemo.len = -2
    BY DEF Entry, NoMemo
  <2>2. len # -2
    BY <1>1 DEF Lengths, Places, Fail
  <2> QED BY <2>1, <2>2
<1>10. \A q \in lr_active_seeds : lr_memo[q] # NoMemo
  <2> TAKE q \in lr_active_seeds
  <2>1. q = <<q[1], q[2]>>
    BY <1>8
  <2>2. PICK x \in InProgress(frames) : x.name = q[1] /\ x.pos = q[2] /\ rules[q[1]].is_left_recursive
    BY DEF RulesOK, CallsOK
  <2>3. Refused(InProgress(frames), x) /\ q = <<x.name, x.pos>>
    BY <2>1, <2>2 DEF RulesOK, CallsOK
  <2> QED BY <2>2, <2>3 DEF Refused
<1>11. \A q \in lr_active_seeds : lr_memo'[q] # NoMemo
  BY <1>6, <1>7, <1>8, <1>9, <1>10
<1>12. \A q \in Names \X Places :
         ~rules[q[1]].is_left_recursive => memo'[q] = memo[q] /\ lr_memo'[q] = lr_memo[q]
  <2> SUFFICES ASSUME NEW q \in Names \X Places, ~rules[q[1]].is_left_recursive
               PROVE  memo'[q] = memo[q] /\ lr_memo'[q] = lr_memo[q]
    OBVIOUS
  <2>1. q # InRule(top) /\ q \notin forgotten
    BY <1>1, <1>7 DEF Growers
  <2> QED BY <1>1, <1>6, <1>8, <2>1 DEF clear_packrat_cache
<1> QED BY <1>5, <1>6, <1>11, <1>12, RulesKept

(* What the guards of a rule see of a call of it in progress at here.      *)
LEMMA CallRefused ==
  ASSUME FramesOK, RulesOK, Entering("ref"),
         NEW y \in InProgress(frames), y.name = node.name, y.pos = here
  PROVE  IF callee.is_left_recursive THEN lr_memo[key] # NoMemo
         ELSE IF ~job.packrat THEN lr_memo[key] # NoMemo
         ELSE IF callee.cached THEN memo[key] # NoMemo
         ELSE active_pos[node.name] = here
<1> DEFINE C == InProgress(frames)  v == active_pos[node.name]
<1>1. /\ key = <<y.name, y.pos>> /\ callee = rules[y.name] /\ Refused(C, y)
      /\ node.name \in Names /\ Latest(C, node.name, v)
  BY KeyFacts DEF RulesOK, CallsOK, key, callee
<1>2. CASE callee.is_left_recursive
  BY <1>1, <1>2 DEF Refused
<1>3. CASE ~callee.is_left_recursive /\ ~job.packrat
  BY <1>1, <1>3 DEF Refused
<1>4. CASE ~callee.is_left_recursive /\ job.packrat /\ callee.cached
  BY <1>1, <1>4 DEF Refused
<1>5. CASE ~callee.is_left_recursive /\ job.packrat /\ ~callee.cached
  <2>1. ByPosition(node.name)
    BY <1>5 DEF ByPosition, callee
  <2>2. here \in Nat /\ v \in Places \cup {NoPos} /\ \A p \in Places : p \in Nat
    BY <1>1, CallFacts, InputFacts DEF FramesOK, MemosOK, Entering
  <2>3. here <= v
    BY <1>1, <2>1 DEF Latest
  <2>4. v # NoPos /\ v \in Nat
    BY <2>2, <2>3 DEF NoPos
  <2>5. PICK x \in C : x.name = node.name /\ x.pos = v
    BY <1>1, <2>4 DEF Latest
  <2>6. x.pos <= here
    BY CallsBefore DEF Entering
  <2> QED BY <1>5, <2>2, <2>3, <2>4, <2>5, <2>6
<1> QED BY <1>2, <1>3, <1>4, <1>5

(* The rule at the top of the stack starts, ends or goes on.               *)
LEMMA RulesAnswered ==
  ASSUME RulesOK, job' = job, frames' = frames, memo' = memo, lr_memo' = lr_memo,
         active_pos' = active_pos, lr_active_seeds' = lr_active_seeds
  PROVE  RulesOK'
BY RulesQuiet DEF InProgress

(* A rule's frame that saves a position.                                   *)
LEMMA SavedIs ==
  ASSUME NEW p
  PROVE  LET f == [Frame("rule", node, here) EXCEPT !.save = p] IN
         f.op = "rule" /\ f.node = node /\ f.pos = here /\ f.save = p
BY DEF Frame

(* A rule's frame that starts with a seed.                                 *)
LEMMA SeededIs ==
  ASSUME NEW s
  PROVE  LET f == [Frame("rule", node, here) EXCEPT !.seed = s] IN
         f.op = "rule" /\ f.node = node /\ f.pos = here
BY DEF Frame

(* Every step of a rule call keeps RulesOK.                                *)
LEMMA RuleCallRules ==
  ASSUME FramesOK, RulesOK, RuleCall PROVE RulesOK'
<1> DEFINE C == InProgress(frames)  r == node.name  top_rule == name_of(top)
<1>1. /\ lr_memo = lr_memo /\ DOMAIN memo = Names \X Places /\ DOMAIN lr_memo = Names \X Places
      /\ lr_active_seeds \subseteq Names \X Places
      /\ Failed # NoMemo
  BY FailedOK DEF FramesOK, MemosOK, EntriesOK
<1>2. CASE MemoHit
  BY <1>2, RulesAnswered DEF MemoHit, Known, Answer, memos, lr, caller
<1>3. CASE GuardHit
  BY <1>3, RulesAnswered DEF GuardHit, Known, Answer, memos, lr, caller
<1>4. CASE PlainHit
  BY <1>4, RulesAnswered DEF PlainHit, Known, Answer, memos, lr, caller
<1>5. CASE SeedHit
  BY <1>5, RulesAnswered DEF SeedHit, Known, Answer, caller
<1>6. CASE MemoMiss
  <2> DEFINE f == Frame("rule", node, here)
  <2>1. /\ Entering("ref") /\ ~callee.is_left_recursive /\ job.packrat /\ callee.cached
        /\ memo[key] = NoMemo /\ memo' = [memo EXCEPT ![key] = Failed] /\ RunRule(f)
        /\ active_pos' = active_pos /\ lr_memo' = lr_memo /\ lr_active_seeds' = lr_active_seeds
        /\ job' = job
    BY <1>6 DEF MemoMiss, Memoized, registered, lr, RunRule, StartBody, caller
  <2>2. key \in Names \X Places /\ f.op = "rule" /\ f.node = node /\ f.pos = here
    BY <2>1, KeyFacts
  <2>3. \A y \in C : ~(y.name = r /\ y.pos = here)
    BY <2>1, CallRefused
  <2>4. ~ByPosition(r)
    BY <2>1 DEF ByPosition, callee
  <2>5. memo'[key] # NoMemo /\ \A q \in Names \X Places : memo[q] # NoMemo => memo'[q] # NoMemo
    BY <1>1, <2>1, <2>2
  <2> HIDE DEF f
  <2> QED BY <2>1, <2>2, <2>3, <2>4, <2>5, RuleStarts
<1>7. CASE GuardMiss
  <2> DEFINE f == [Frame("rule", node, here) EXCEPT !.save = active_pos[r]]
  <2>1. /\ Entering("ref") /\ ~callee.is_left_recursive /\ job.packrat /\ ~callee.cached
        /\ active_pos[r] # here /\ active_pos' = [active_pos EXCEPT ![r] = here] /\ RunRule(f)
        /\ memo' = memo /\ lr_memo' = lr_memo /\ lr_active_seeds' = lr_active_seeds
        /\ job' = job
    BY <1>7 DEF GuardMiss, Guarded, lr, RunRule, StartBody, caller
  <2>2. f.op = "rule" /\ f.node = node /\ f.pos = here /\ f.save = active_pos[r]
    BY SavedIs
  <2>3. \A y \in C : ~(y.name = r /\ y.pos = here)
    BY <2>1, CallRefused
  <2>4. ByPosition(r)
    BY <2>1 DEF ByPosition, callee
  <2> HIDE DEF f
  <2> QED BY <2>1, <2>2, <2>3, <2>4, RuleStarts
<1>8. CASE PlainMiss
  <2> DEFINE f == Frame("rule", node, here)
  <2>1. /\ Entering("ref") /\ ~callee.is_left_recursive /\ ~job.packrat
        /\ lr_memo[key] = NoMemo /\ lr_memo' = [lr_memo EXCEPT ![key] = Failed] /\ RunRule(f)
        /\ active_pos' = active_pos /\ memo' = memo /\ lr_active_seeds' = lr_active_seeds
        /\ job' = job
    BY <1>8 DEF PlainMiss, Plain, RunRule, StartBody, caller
  <2>2. key \in Names \X Places /\ f.op = "rule" /\ f.node = node /\ f.pos = here
    BY <2>1, KeyFacts
  <2>3. \A y \in C : ~(y.name = r /\ y.pos = here)
    BY <2>1, CallRefused
  <2>4. ~ByPosition(r)
    BY <2>1 DEF ByPosition, callee
  <2>5. /\ lr_memo'[key] # NoMemo
        /\ \A q \in Names \X Places : lr_memo[q] # NoMemo => lr_memo'[q] # NoMemo
        /\ \A q \in Names \X Places : q # key => lr_memo'[q] = lr_memo[q]
    BY <1>1, <2>1, <2>2
  <2> HIDE DEF f
  <2> QED BY <2>1, <2>2, <2>3, <2>4, <2>5, RuleStarts
<1>9. CASE SeedStart
  <2> DEFINE s == Seed(Fail, NoVal, {}, lr_refs_hit)
             f == [Frame("rule", node, here) EXCEPT !.seed = s]
  <2>1. /\ Entering("ref") /\ callee.is_left_recursive
        /\ lr_memo[key] = NoMemo /\ lr_memo' = [lr_memo EXCEPT ![key] = Failed] /\ RunRule(f)
        /\ active_pos' = active_pos /\ memo' = memo
        /\ lr_active_seeds' = lr_active_seeds \cup {key}
        /\ job' = job
    BY <1>9 DEF SeedStart, LeftRecursive, RunRule, StartBody, caller
  <2>2. key \in Names \X Places /\ key = <<r, here>>
    BY <2>1, KeyFacts DEF key
  <2>3. f.op = "rule" /\ f.node = node /\ f.pos = here
    BY SeededIs
  <2>4. \A y \in C : ~(y.name = r /\ y.pos = here)
    BY <2>1, CallRefused
  <2>5. ~ByPosition(r) /\ rules[key[1]].is_left_recursive
    BY <2>1, <2>2 DEF ByPosition, callee
  <2>6. /\ lr_memo'[key] # NoMemo
        /\ \A q \in Names \X Places : lr_memo[q] # NoMemo => lr_memo'[q] # NoMemo
        /\ \A q \in Names \X Places : q # key => lr_memo'[q] = lr_memo[q]
    BY <1>1, <2>1, <2>2
  <2> HIDE DEF f
  <2> QED BY <2>1, <2>2, <2>3, <2>4, <2>5, <2>6, RuleStarts
<1>10. CASE MemoReturn
  <2>1. /\ Resuming("rule") /\ ~rule_of(top).is_left_recursive /\ job.packrat /\ rule_of(top).cached
        /\ frames' = Front(frames) /\ job' = job
        /\ memo' = IF len = Fail THEN memo ELSE write_packrat_cache(name_of(top), top.pos, len, ctl.val)
        /\ active_pos' = active_pos /\ lr_memo' = lr_memo /\ lr_active_seeds' = lr_active_seeds
    BY <1>10 DEF MemoReturn, Returning, Finished, Leave, lr, caller
  <2>2. ~ByPosition(top_rule) /\ InRule(top) = <<name_of(top), top.pos>>
    BY <2>1, RuleFacts DEF ByPosition, rule_of, name_of
  <2>3. \A q \in Names \X Places : q # InRule(top) => memo'[q] = memo[q]
    BY <1>1, <2>1, <2>2 DEF write_packrat_cache
  <2> QED BY <2>1, <2>2, <2>3, RuleEnds
<1>11. CASE GuardReturn
  <2>1. /\ Resuming("rule") /\ ~rule_of(top).is_left_recursive /\ job.packrat /\ ~rule_of(top).cached
        /\ frames' = Front(frames) /\ job' = job /\ memo' = memo
        /\ active_pos' = [active_pos EXCEPT ![name_of(top)] = top.save]
        /\ lr_memo' = lr_memo /\ lr_active_seeds' = lr_active_seeds
    BY <1>11 DEF GuardReturn, Returning, Finished, Leave, lr, caller
  <2>2. ByPosition(top_rule)
    BY <2>1 DEF ByPosition, rule_of, name_of
  <2> QED BY <2>1, <2>2, RuleEnds
<1>12. CASE PlainReturn
  <2>1. /\ Resuming("rule") /\ ~rule_of(top).is_left_recursive /\ ~job.packrat
        /\ frames' = Front(frames) /\ job' = job /\ memo' = memo /\ active_pos' = active_pos
        /\ lr_memo' = [lr_memo EXCEPT ![InRule(top)] = NoMemo] /\ lr_active_seeds' = lr_active_seeds
    BY <1>12 DEF PlainReturn, Returning, Finished, Leave, caller
  <2>2. ~ByPosition(top_rule) /\ InRule(top) \in Names \X Places
    BY <2>1, RuleFacts DEF ByPosition
  <2>3. /\ lr_memo'[InRule(top)] = NoMemo
        /\ \A q \in Names \X Places : q # InRule(top) => lr_memo'[q] = lr_memo[q]
    BY <1>1, <2>1, <2>2
  <2> QED BY <2>1, <2>2, <2>3, RuleEnds
<1>13. CASE SeedReturn
  <2> DEFINE c == IF lr_refs_hit = {} THEN {} ELSE lr_refs_hit \cup {name_of(top)}
  <2>1. /\ Growing /\ Resuming("rule") /\ rule_of(top).is_left_recursive
        /\ \/ len # Fail /\ Grow(top, c)
           \/ /\ Finished(Fail, NoVal) /\ lr_active_seeds' = Deactivated(top)
              /\ memo' = memo /\ active_pos' = active_pos /\ lr_memo' = lr_memo
    BY <1>13 DEF SeedReturn, Growing
  <2>2. name_of(top) \in Growers /\ lr_refs_hit \subseteq Growers /\ ~ByPosition(top_rule)
    BY <2>1, RuleFacts DEF Growers, FramesOK, MemosOK, ByPosition, rule_of, name_of
  <2>3. c \subseteq Growers
    BY <2>2
  <2> HIDE DEF c
  <2>4. CASE len # Fail /\ Grow(top, c)
    <3>1. job' = job
      BY <2>4 DEF Grow, RunRuleAgain, StartBody, caller
    <3> QED BY <2>1, <2>3, <2>4, <3>1, RulesGrow
  <2>5. CASE /\ Finished(Fail, NoVal) /\ lr_active_seeds' = Deactivated(top)
             /\ memo' = memo /\ active_pos' = active_pos /\ lr_memo' = lr_memo
    <3>1. frames' = Front(frames) /\ job' = job /\ lr_active_seeds' = lr_active_seeds \ {InRule(top)}
      BY <2>5 DEF Finished, Leave, caller, Deactivated
    <3> QED BY <2>1, <2>2, <2>5, <3>1, RuleEnds
  <2> QED BY <2>1, <2>4, <2>5
<1>14. CASE GrowReturn
  <2>1. /\ Growing /\ Resuming("rule") /\ rule_of(top).is_left_recursive
        /\ \/ Grew(len, top) /\ Grow(top, top.seed.cycle_rules)
           \/ /\ Finished(top.seed.len, top.seed.val) /\ lr_active_seeds' = Deactivated(top)
              /\ memo' = write_packrat_cache(name_of(top), top.pos, top.seed.len, top.seed.val)
              /\ active_pos' = active_pos /\ lr_memo' = lr_memo
    BY <1>14 DEF GrowReturn, Growing
  <2>2. ~ByPosition(top_rule) /\ top.seed.cycle_rules \subseteq Growers /\ len \in Lengths
        /\ InRule(top) = <<name_of(top), top.pos>> /\ top.seed.len \in Lengths
        /\ Len(input) \in Nat
    BY <2>1, RuleFacts, InputFacts DEF ByPosition, IsSeed, rule_of, name_of
  <2>3. CASE Grew(len, top) /\ Grow(top, top.seed.cycle_rules)
    <3>1. job' = job
      BY <2>3 DEF Grow, RunRuleAgain, StartBody, caller
    <3>2. len # Fail
      BY <2>2, <2>3 DEF Grew, Lengths, Places, Fail
    <3> QED BY <2>1, <2>2, <2>3, <3>1, <3>2, RulesGrow
  <2>4. CASE /\ Finished(top.seed.len, top.seed.val) /\ lr_active_seeds' = Deactivated(top)
             /\ memo' = write_packrat_cache(name_of(top), top.pos, top.seed.len, top.seed.val)
             /\ active_pos' = active_pos /\ lr_memo' = lr_memo
    <3>1. frames' = Front(frames) /\ job' = job /\ lr_active_seeds' = lr_active_seeds \ {InRule(top)}
      BY <2>4 DEF Finished, Leave, caller, Deactivated
    <3>2. \A q \in Names \X Places : q # InRule(top) => memo'[q] = memo[q]
      BY <1>1, <2>2, <2>4 DEF write_packrat_cache
    <3> QED BY <2>1, <2>2, <2>4, <3>1, <3>2, RuleEnds
  <2> QED BY <2>1, <2>3, <2>4
<1>15. CASE BodySkips
  <2> DEFINE f == Advanced(top, len, 1)
  <2>1. /\ Resuming("body") /\ Resume(f, g.whitespace, top.pos + len) /\ job' = job
        /\ memo' = memo /\ lr_memo' = lr_memo /\ active_pos' = active_pos
        /\ lr_active_seeds' = lr_active_seeds
    BY <1>15 DEF BodySkips, Advanced, memos, lr, caller
  <2>2. f.op = "body" /\ "body" \in QuietOps
    BY <2>1, ReturnFacts, AdvancedIs DEF FrameOf, QuietOps, FrameOps
  <2> HIDE DEF f
  <2>3. Moves(QuietOps)
    BY <2>1, <2>2, MovesResume
  <2> QED BY <2>1, <2>3, QuietCalls, RulesQuiet
<1>16. CASE BodyReturns
  <2>1. /\ frames # <<>> /\ Last(frames).op = "body" /\ frames' = Front(frames) /\ job' = job
        /\ memo' = memo /\ lr_memo' = lr_memo /\ active_pos' = active_pos
        /\ lr_active_seeds' = lr_active_seeds
    BY <1>16 DEF BodyReturns, Resuming, memos, lr, caller
  <2>2. "body" \in QuietOps
    BY DEF QuietOps, FrameOps
  <2>3. Moves(QuietOps)
    BY <2>1, <2>2 DEF Moves
  <2> QED BY <2>1, <2>3, QuietCalls, RulesQuiet
<1> QED BY <1>2, <1>3, <1>4, <1>5, <1>6, <1>7, <1>8, <1>9, <1>10, <1>11, <1>12, <1>13, <1>14,
           <1>15, <1>16 DEF RuleCall

----------------------------------------------------------------------------
(* No rule is in progress at first, and no guard is set.                   *)
LEMMA InitRules == ASSUME Init PROVE RulesOK
<1> DEFINE C == InProgress(frames)
<1>1. FramesOK
  BY InitOK
<1>2. \A x : x \notin C
  <2> SUFFICES ASSUME NEW x \in C PROVE FALSE
    OBVIOUS
  <2>1. x.depth \in 1 .. Len(frames) /\ frames[x.depth].op = "rule"
    BY <1>1, CallFrames
  <2>2. frames = <<Frame("top", NoNode, 0)>> /\ Frame("top", NoNode, 0).op = "top"
    BY DEF Init, Frame
  <2> QED BY <2>1, <2>2
<1> HIDE DEF C
<1>3. /\ lr_active_seeds = {} /\ \A r \in Names : active_pos[r] = NoPos
      /\ \A r \in Names, p \in Places : lr_memo[<<r, p>>] = NoMemo
  BY DEF Init
<1>4. CallsOK(C)
  BY <1>2, <1>3 DEF CallsOK, Latest
<1> QED BY <1>4 DEF RulesOK, C

(* The steps of the parse entry keep RulesOK.                              *)
LEMMA TopRules ==
  ASSUME FramesOK, RulesOK, TopWhitespace \/ TopReturn PROVE RulesOK'
<1>1. /\ Resuming("top") /\ job' = job /\ memo' = memo /\ lr_memo' = lr_memo
      /\ active_pos' = active_pos /\ lr_active_seeds' = lr_active_seeds
  BY DEF TopWhitespace, TopReturn, silent, memos, lr
<1>2. /\ IsSeq(frames) /\ frames # <<>> /\ top.op = "top" /\ Len(frames) = 1 /\ DOMAIN frames = 1 .. 1
      /\ Last(frames) = top /\ frames[1] = top
  <2>1. IsSeq(frames) /\ frames # <<>> /\ top = frames[Len(frames)] /\ top.op = "top"
    BY <1>1 DEF FramesOK, StackOK, Resuming, top, Last
  <2>2. Len(frames) \in Nat /\ Len(frames) # 0 /\ DOMAIN frames = 1 .. Len(frames)
    BY <2>1, SeqFacts
  <2>3. Len(frames) = 1
    BY <2>1, <2>2 DEF FramesOK, StackOK
  <2> QED BY <2>1, <2>2, <2>3 DEF top
<1>3. InProgress(frames') = InProgress(frames)
  <2> DEFINE f == Advanced(top, len, 1)
  <2>1. frames' = <<>> \/ frames' = SetTop(frames, f)
    BY DEF TopWhitespace, TopReturn, Returned, Advanced
  <2>2. CASE frames' = SetTop(frames, f)
    <3>1. f.op = "top"
      BY <1>1, <1>2, ReturnFacts, AdvancedIs DEF FrameOf
    <3> HIDE DEF f
    <3> QED BY <1>2, <2>2, <3>1, CallsReplaced
  <2>3. CASE frames' = <<>>
    <3>1. \A x : x \notin InProgress(frames)
      BY <1>2, Running1
    <3>2. \A x : x \notin InProgress(<<>>)
      BY Running1
    <3>3. InProgress(frames) = InProgress(<<>>)
      BY <3>1, <3>2
    <3> QED BY <2>3, <3>3
  <2> QED BY <2>1, <2>2, <2>3
<1> QED BY <1>1, <1>3, RulesQuiet

(* Every step keeps RulesOK.                                               *)
LEMMA NextRules ==
  ASSUME FramesOK, RulesOK, [Next]_vars PROVE RulesOK'
<1>1. CASE Combinator
  BY <1>1, CombinatorMoves, QuietCalls, CombinatorLeaves, RulesQuiet
<1>2. CASE RuleCall
  BY <1>2, RuleCallRules
<1>3. CASE TopWhitespace \/ TopReturn
  BY <1>3, TopRules
<1>4. CASE UNCHANGED vars
  BY <1>4, RulesAnswered DEF vars, context, silent, memos, lr, caller
<1> QED BY <1>1, <1>2, <1>3, <1>4 DEF Next, Step, Idle

(* Every call in progress is refused by a guard if it comes again: a       *)
(* registered failure, active_pos, or lr_memo, in every mode and for every *)
(* grammar.                                                                *)
THEOREM RulesAlwaysOK == Spec => [](FramesOK /\ RulesOK)
<1>1. Init => FramesOK /\ RulesOK
  BY InitOK, InitRules
<1>2. FramesOK /\ RulesOK /\ [Next]_vars => (FramesOK /\ RulesOK)'
  BY NextOK, NextRules
<1> QED BY <1>1, <1>2, PTL DEF Spec

(* The guards imply NoReentry.                                             *)
LEMMA NoReentryHolds == ASSUME FramesOK, RulesOK PROVE NoReentry
<1> SUFFICES ASSUME NEW k \in DOMAIN frames, NEW l \in DOMAIN frames, frames[k].op = "rule",
                    frames[l].op = "rule", InRule(frames[k]) = InRule(frames[l])
             PROVE  k = l
  BY DEF NoReentry
<1>1. Running(frames, k) \in InProgress(frames) /\ Running(frames, l) \in InProgress(frames)
  BY Running1
<1>2. Running(frames, k) = Running(frames, l)
  BY <1>1, RunningFacts DEF RulesOK, CallsOK, InRule
<1> QED BY <1>2, RunningFacts

(* Left recursion ends: whatever the grammar, and whether or not it was    *)
(* analysed, no rule is parsed inside itself at the position where it is   *)
(* being parsed.                                                           *)
THEOREM NoReentryAlways == Spec => []NoReentry
BY RulesAlwaysOK, NoReentryHolds, PTL

----------------------------------------------------------------------------
(* A frame of a left-recursive rule, at depth k of a stack.                *)
GrowerAt(s, k) == k \in DOMAIN s /\ s[k].op = "rule" /\ rule_of(s[k]).is_left_recursive

(* The rule of such a frame is growing, with an answer for a reference to  *)
(* it.                                                                     *)
LEMMA GrowingFacts ==
  ASSUME FramesOK, RulesOK, NEW k, GrowerAt(frames, k)
  PROVE  /\ InRule(frames[k]) \in Names \X Places /\ InRule(frames[k]) \in lr_active_seeds
         /\ InRule(frames[k]) = <<name_of(frames[k]), frames[k].pos>>
         /\ rules[InRule(frames[k])[1]].is_left_recursive
         /\ lr_memo[InRule(frames[k])] # NoMemo
<1> DEFINE C == InProgress(frames)  x == Running(frames, k)
<1>1. x \in C /\ x.name = frames[k].node.name /\ x.pos = frames[k].pos
  BY Running1, RunningFacts DEF GrowerAt
<1>2. Refused(C, x)
  BY <1>1 DEF RulesOK, CallsOK
<1>3. x.name \in Names /\ x.pos \in Places
  BY <1>1, CallFrames
<1>4. InRule(frames[k]) = <<x.name, x.pos>> /\ rules[x.name].is_left_recursive
  BY <1>1 DEF InRule, rule_of, GrowerAt
<1> HIDE DEF x, C
<1> QED BY <1>1, <1>2, <1>3, <1>4 DEF Refused, name_of

(* No other frame is that of the same rule at the same position.           *)
LEMMA GrowingOnce ==
  ASSUME FramesOK, RulesOK, NEW k, GrowerAt(frames, k), NEW l, GrowerAt(frames, l), k # l
  PROVE  InRule(frames[k]) # InRule(frames[l])
BY NoReentryHolds DEF NoReentry, GrowerAt

(* A step keeps SeedsOK if every such frame after it was there, and its    *)
(* rule's answer is what it was, or has a seed that is that answer.        *)
LEMMA SeedsStep ==
  ASSUME SeedsOK, job' = job, NEW s, frames' = s,
         \A k : GrowerAt(s, k) =>
           \/ /\ GrowerAt(frames, k) /\ s[k] = frames[k]
              /\ lr_memo'[InRule(s[k])] = lr_memo[InRule(s[k])]
           \/ /\ lr_memo'[InRule(s[k])] = Entry(s[k].seed.len, s[k].seed.val)
              /\ s[k].k \in {0, 1} /\ (s[k].k = 0 => s[k].seed.len = Fail)
  PROVE  SeedsOK'
BY DEF SeedsOK, Seeded, GrowerAt, rule_of, rules, g, InRule, Entry

(* A step that leaves the stack of rules alone.                            *)
LEMMA SeedsQuiet ==
  ASSUME FramesOK, SeedsOK, job' = job, lr_memo' = lr_memo, Moves(QuietOps) PROVE SeedsOK'
<1>1. IsSeq(frames) /\ "rule" \notin QuietOps
  BY DEF FramesOK, StackOK, QuietOps
<1>2. \A k : GrowerAt(frames', k) => GrowerAt(frames, k) /\ frames'[k] = frames[k]
  <2>1. CASE frames' = frames
    BY <2>1
  <2>2. CASE \E f : f.op \in QuietOps /\ frames' = Append(frames, f)
    <3>1. PICK f : f.op \in QuietOps /\ frames' = Append(frames, f)
      BY <2>2
    <3>2. /\ DOMAIN frames = 1 .. Len(frames) /\ Len(frames) \in Nat
          /\ DOMAIN frames' = 1 .. Len(frames) + 1 /\ frames'[Len(frames) + 1] = f
          /\ \A k \in 1 .. Len(frames) : frames'[k] = frames[k]
      BY <1>1, <3>1, SeqFacts, AppendFacts
    <3> QED BY <1>1, <3>1, <3>2 DEF GrowerAt
  <2>3. CASE frames # <<>> /\ frames' = Front(frames)
    <3>1. /\ DOMAIN frames = 1 .. Len(frames) /\ Len(frames) \in Nat
          /\ DOMAIN frames' = 1 .. Len(frames) - 1
          /\ \A k \in 1 .. Len(frames) - 1 : frames'[k] = frames[k]
      BY <1>1, <2>3, SeqFacts, FrontFacts
    <3> QED BY <3>1 DEF GrowerAt
  <2>4. CASE frames # <<>> /\ \E f : f.op \in QuietOps /\ frames' = SetTop(frames, f)
    <3>1. PICK f : f.op \in QuietOps /\ frames' = SetTop(frames, f)
      BY <2>4
    <3>2. /\ DOMAIN frames = 1 .. Len(frames) /\ Len(frames) \in Nat
          /\ DOMAIN frames' = 1 .. Len(frames) /\ frames'[Len(frames)] = f
          /\ \A k \in 1 .. Len(frames) - 1 : frames'[k] = frames[k]
      BY <1>1, <2>4, <3>1, SeqFacts, SetTopFacts
    <3> QED BY <1>1, <3>1, <3>2 DEF GrowerAt
  <2> QED BY <2>1, <2>2, <2>3, <2>4 DEF Moves
<1> DEFINE s == frames'
<1>3. s = frames'
  OBVIOUS
<1> HIDE DEF s
<1> QED BY <1>2, <1>3, SeedsStep

(* A rule starts, which is not left-recursive or has no seed yet.          *)
LEMMA SeedsStart ==
  ASSUME FramesOK, RulesOK, SeedsOK, job' = job, NEW f, f.op = "rule", RunRule(f),
         \A k : GrowerAt(frames, k) => lr_memo'[InRule(frames[k])] = lr_memo[InRule(frames[k])],
         rule_of(f).is_left_recursive =>
           f.k = 0 /\ f.seed.len = Fail /\ lr_memo'[InRule(f)] = Entry(Fail, f.seed.val)
  PROVE  SeedsOK'
<1> DEFINE b == Frame("body", f.node, f.pos)  s == Append(frames, f)  t == Append(s, b)
<1>1. frames' = t /\ IsSeq(frames) /\ b.op = "body"
  BY DEF RunRule, FramesOK, StackOK, Frame
<1> HIDE DEF b
<1>2. /\ IsSeq(s) /\ DOMAIN frames = 1 .. Len(frames) /\ Len(frames) \in Nat
      /\ Len(s) = Len(frames) + 1 /\ DOMAIN s = 1 .. Len(frames) + 1 /\ s[Len(frames) + 1] = f
      /\ \A k \in 1 .. Len(frames) : s[k] = frames[k]
  BY <1>1, SeqFacts, AppendFacts
<1>3. /\ DOMAIN t = 1 .. Len(s) + 1 /\ t[Len(s) + 1] = b
      /\ \A k \in 1 .. Len(s) : t[k] = s[k]
  BY <1>2, AppendFacts
<1> HIDE DEF s, t
<1>4. \A k : GrowerAt(t, k) =>
        (k \in 1 .. Len(frames) /\ t[k] = frames[k]) \/ (k = Len(frames) + 1 /\ t[k] = f)
  BY <1>1, <1>2, <1>3 DEF GrowerAt
<1>5. \A k : GrowerAt(t, k) =>
           \/ /\ GrowerAt(frames, k) /\ t[k] = frames[k]
              /\ lr_memo'[InRule(t[k])] = lr_memo[InRule(t[k])]
           \/ /\ lr_memo'[InRule(t[k])] = Entry(t[k].seed.len, t[k].seed.val)
              /\ t[k].k \in {0, 1} /\ (t[k].k = 0 => t[k].seed.len = Fail)
  <2> SUFFICES ASSUME NEW k, GrowerAt(t, k)
      PROVE \/ /\ GrowerAt(frames, k) /\ t[k] = frames[k]
               /\ lr_memo'[InRule(t[k])] = lr_memo[InRule(t[k])]
            \/ /\ lr_memo'[InRule(t[k])] = Entry(t[k].seed.len, t[k].seed.val)
               /\ t[k].k \in {0, 1} /\ (t[k].k = 0 => t[k].seed.len = Fail)
    OBVIOUS
  <2>1. CASE k \in 1 .. Len(frames) /\ t[k] = frames[k]
    BY <1>2, <2>1 DEF GrowerAt
  <2>2. CASE k = Len(frames) + 1 /\ t[k] = f
    BY <2>2 DEF GrowerAt
  <2> QED BY <1>4, <2>1, <2>2
<1> QED BY <1>1, <1>5, SeedsStep

(* A rule ends.                                                            *)
LEMMA SeedsEnd ==
  ASSUME FramesOK, RulesOK, SeedsOK, job' = job, frames # <<>>, frames' = Front(frames),
         \A k : GrowerAt(frames, k) => lr_memo'[InRule(frames[k])] = lr_memo[InRule(frames[k])]
  PROVE  SeedsOK'
<1> DEFINE s == Front(frames)
<1>1. /\ DOMAIN frames = 1 .. Len(frames) /\ Len(frames) \in Nat
      /\ DOMAIN s = 1 .. Len(frames) - 1
      /\ \A k \in 1 .. Len(frames) - 1 : s[k] = frames[k]
  BY SeqFacts, FrontFacts DEF FramesOK, StackOK
<1> HIDE DEF s
<1>2. \A k : GrowerAt(s, k) => GrowerAt(frames, k) /\ s[k] = frames[k]
  BY <1>1 DEF GrowerAt
<1> QED BY <1>2, SeedsStep DEF s

(* What Grow does: one seed is replaced, and no other that is growing.     *)
LEMMA GrowFacts ==
  ASSUME FramesOK, RulesOK, Growing, NEW c, Grow(top, c)
  PROVE  /\ frames # <<>> /\ GrowerAt(frames, Len(frames)) /\ frames[Len(frames)] = top
         /\ lr_memo'[InRule(top)] = Entry(len, ctl.val)
         /\ \A q \in lr_active_seeds : q # InRule(top) => lr_memo'[q] = lr_memo[q]
         /\ lr_active_seeds' = lr_active_seeds /\ job' = job
<1>1. /\ frames # <<>> /\ top.op = "rule" /\ rule_of(top).is_left_recursive
      /\ IsSeq(frames) /\ top = frames[Len(frames)]
  BY DEF Growing, Resuming, top, Last, FramesOK, StackOK
<1>2. GrowerAt(frames, Len(frames))
  BY <1>1, SeqFacts DEF GrowerAt
<1>3. DOMAIN lr_memo = Names \X Places /\ lr_active_seeds \subseteq Names \X Places
  BY DEF FramesOK, MemosOK, EntriesOK
<1>4. InRule(top) \in Names \X Places
  BY <1>1, <1>2, GrowingFacts
<1> DEFINE forgotten == Stale(name_of(top), top.pos, c)
<1>5. lr_memo' = [q \in DOMAIN lr_memo |->
                   IF q = InRule(top) THEN Entry(len, ctl.val)
                   ELSE IF q \in forgotten THEN NoMemo ELSE lr_memo[q]]
  BY DEF Grow
<1>6. \A q \in forgotten : q \notin lr_active_seeds
  BY DEF Stale
<1> HIDE DEF forgotten
<1>7. lr_active_seeds' = lr_active_seeds /\ job' = job
  BY DEF Grow, RunRuleAgain, StartBody, caller
<1> QED BY <1>1, <1>2, <1>3, <1>4, <1>5, <1>6, <1>7

(* A round of growing.                                                     *)
LEMMA SeedsGrown ==
  ASSUME FramesOK, RulesOK, SeedsOK, Growing, NEW c, Grow(top, c) PROVE SeedsOK'
<1> DEFINE d == Seed(len, ctl.val, c, top.seed.saved_refs)  f == Reseeded(top, 1, d)
           b == Frame("body", f.node, f.pos)  s == SetTop(frames, f)  t == Append(s, b)
           n == Len(frames)
<1>1. /\ frames # <<>> /\ GrowerAt(frames, n) /\ frames[n] = top
      /\ lr_memo'[InRule(top)] = Entry(len, ctl.val)
      /\ \A q \in lr_active_seeds : q # InRule(top) => lr_memo'[q] = lr_memo[q]
      /\ job' = job /\ IsSeq(frames)
  BY GrowFacts DEF FramesOK, StackOK
<1>2. frames' = t
  BY DEF Grow, RunRuleAgain, Reseeded
<1>3. f.op = "rule" /\ f.node = top.node /\ f.pos = top.pos /\ f.k = 1 /\ f.seed = d
  BY RuleFacts, ReseededIs DEF FrameOf, Growing
<1>4. d.len = len /\ d.val = ctl.val
  BY DEF Seed
<1> HIDE DEF d, f
<1>5. b.op = "body"
  BY DEF Frame
<1> HIDE DEF b
<1>6. /\ IsSeq(s) /\ DOMAIN frames = 1 .. n /\ n \in Nat /\ n > 0
      /\ Len(s) = n /\ s[n] = f /\ \A k \in 1 .. n - 1 : s[k] = frames[k]
  BY <1>1, SeqFacts, SetTopFacts
<1>7. /\ DOMAIN t = 1 .. Len(s) + 1 /\ t[Len(s) + 1] = b
      /\ \A k \in 1 .. Len(s) : t[k] = s[k]
  BY <1>6, AppendFacts
<1> HIDE DEF s, t, n
<1>8. \A k : GrowerAt(t, k) =>
        (k \in 1 .. n - 1 /\ t[k] = frames[k]) \/ (k = n /\ t[k] = f)
  BY <1>5, <1>6, <1>7 DEF GrowerAt
<1>9. InRule(f) = InRule(top)
  BY <1>3 DEF InRule
<1>10. \A k : GrowerAt(t, k) =>
           \/ /\ GrowerAt(frames, k) /\ t[k] = frames[k]
              /\ lr_memo'[InRule(t[k])] = lr_memo[InRule(t[k])]
           \/ /\ lr_memo'[InRule(t[k])] = Entry(t[k].seed.len, t[k].seed.val)
              /\ t[k].k \in {0, 1} /\ (t[k].k = 0 => t[k].seed.len = Fail)
  <2> SUFFICES ASSUME NEW k, GrowerAt(t, k)
      PROVE \/ /\ GrowerAt(frames, k) /\ t[k] = frames[k]
               /\ lr_memo'[InRule(t[k])] = lr_memo[InRule(t[k])]
            \/ /\ lr_memo'[InRule(t[k])] = Entry(t[k].seed.len, t[k].seed.val)
               /\ t[k].k \in {0, 1} /\ (t[k].k = 0 => t[k].seed.len = Fail)
    OBVIOUS
  <2>1. CASE k \in 1 .. n - 1 /\ t[k] = frames[k]
    <3>1. GrowerAt(frames, k) /\ k # n
      BY <1>6, <2>1 DEF GrowerAt
    <3>2. InRule(frames[k]) \in lr_active_seeds /\ InRule(frames[k]) # InRule(top)
      BY <1>1, <3>1, GrowingFacts, GrowingOnce
    <3> QED BY <1>1, <2>1, <3>1, <3>2
  <2>2. CASE k = n /\ t[k] = f
    BY <1>1, <1>3, <1>4, <1>9, <2>2
  <2> QED BY <1>8, <2>1, <2>2
<1> QED BY <1>1, <1>2, <1>10, SeedsStep

(* A rule call keeps SeedsOK.                                              *)
LEMMA RuleCallSeeds ==
  ASSUME FramesOK, RulesOK, SeedsOK, RuleCall PROVE SeedsOK'
<1>1. CASE MemoHit \/ GuardHit \/ PlainHit \/ SeedHit
  <2>1. frames' = frames /\ lr_memo' = lr_memo /\ job' = job
    BY <1>1 DEF MemoHit, GuardHit, PlainHit, SeedHit, Known, Answer, memos, lr, caller
  <2> QED BY <2>1, SeedsQuiet DEF Moves
<1>2. CASE MemoMiss \/ GuardMiss
  <2>1. PICK f : /\ f \in {Frame("rule", node, here),
                           [Frame("rule", node, here) EXCEPT !.save = active_pos[node.name]]}
                 /\ RunRule(f) /\ ~callee.is_left_recursive /\ lr_memo' = lr_memo
    BY <1>2 DEF MemoMiss, GuardMiss, Memoized, Guarded, lr
  <2>2. f.op = "rule" /\ ~rule_of(f).is_left_recursive /\ job' = job
    BY <2>1 DEF Frame, rule_of, callee, RunRule, StartBody, caller
  <2> QED BY <2>1, <2>2, SeedsStart
<1>3. CASE PlainMiss
  <2> DEFINE f == Frame("rule", node, here)
  <2>1. /\ RunRule(f) /\ ~callee.is_left_recursive /\ lr_memo' = [lr_memo EXCEPT ![key] = Failed]
        /\ job' = job
    BY <1>3 DEF PlainMiss, Plain, RunRule, StartBody, caller
  <2>2. f.op = "rule" /\ ~rule_of(f).is_left_recursive
    BY <2>1 DEF Frame, rule_of, callee
  <2>3. ASSUME NEW k, GrowerAt(frames, k)
        PROVE  lr_memo'[InRule(frames[k])] = lr_memo[InRule(frames[k])]
    <3>1. InRule(frames[k]) # key
      BY <2>1, <2>3, GrowingFacts DEF callee, key
    <3> QED BY <2>1, <2>3, <3>1, GrowingFacts DEF FramesOK, MemosOK, EntriesOK
  <2> HIDE DEF f
  <2> QED BY <2>1, <2>2, <2>3, SeedsStart
<1>4. CASE SeedStart
  <2> DEFINE f == [Frame("rule", node, here) EXCEPT !.seed = Seed(Fail, NoVal, {}, lr_refs_hit)]
  <2>1. /\ RunRule(f) /\ lr_memo[key] = NoMemo /\ lr_memo' = [lr_memo EXCEPT ![key] = Failed]
        /\ job' = job /\ Entering("ref")
    BY <1>4 DEF SeedStart, LeftRecursive, RunRule, StartBody, caller
  <2>2. f.op = "rule" /\ f.k = 0 /\ f.seed.len = Fail /\ f.seed.val = NoVal /\ InRule(f) = key
    BY DEF Frame, Seed, InRule, key
  <2>3. key \in DOMAIN lr_memo /\ DOMAIN lr_memo = Names \X Places
    BY <2>1, KeyFacts DEF FramesOK, MemosOK, EntriesOK
  <2>4. ASSUME NEW k, GrowerAt(frames, k)
        PROVE  lr_memo'[InRule(frames[k])] = lr_memo[InRule(frames[k])]
    BY <2>1, <2>3, <2>4, GrowingFacts
  <2>5. lr_memo'[InRule(f)] = Entry(Fail, f.seed.val)
    BY <2>1, <2>2, <2>3 DEF Failed
  <2> HIDE DEF f
  <2> QED BY <2>1, <2>2, <2>4, <2>5, SeedsStart
<1>5. CASE MemoReturn \/ GuardReturn
  <2>1. /\ frames # <<>> /\ frames' = Front(frames) /\ lr_memo' = lr_memo /\ job' = job
    BY <1>5 DEF MemoReturn, GuardReturn, Returning, Resuming, Finished, Leave, lr, caller
  <2> QED BY <2>1, SeedsEnd
<1>6. CASE PlainReturn
  <2>1. /\ frames # <<>> /\ frames' = Front(frames) /\ job' = job /\ Resuming("rule")
        /\ lr_memo' = [lr_memo EXCEPT ![InRule(top)] = NoMemo] /\ ~rule_of(top).is_left_recursive
    BY <1>6 DEF PlainReturn, Returning, Resuming, Finished, Leave, caller
  <2>2. ASSUME NEW k, GrowerAt(frames, k)
        PROVE  lr_memo'[InRule(frames[k])] = lr_memo[InRule(frames[k])]
    <3>1. InRule(frames[k]) # InRule(top)
      BY <2>1, <2>2, GrowingFacts, RuleFacts DEF rule_of, name_of
    <3> QED BY <2>1, <2>2, <3>1, GrowingFacts DEF FramesOK, MemosOK, EntriesOK
  <2> QED BY <2>1, <2>2, SeedsEnd
<1>7. ASSUME Finished(top.seed.len, top.seed.val) \/ Finished(Fail, NoVal), Growing, lr_memo' = lr_memo
      PROVE  SeedsOK'
  <2>1. frames # <<>> /\ frames' = Front(frames) /\ job' = job
    BY <1>7 DEF Growing, Resuming, Finished, Leave, caller
  <2> QED BY <1>7, <2>1, SeedsEnd
<1>8. CASE SeedReturn
  <2>1. Growing /\ ((\E c : Grow(top, c)) \/ (Finished(Fail, NoVal) /\ lr_memo' = lr_memo))
    BY <1>8 DEF SeedReturn
  <2> QED BY <1>7, <2>1, SeedsGrown
<1>9. CASE GrowReturn
  <2>1. /\ Growing
        /\ \/ \E c : Grow(top, c)
           \/ Finished(top.seed.len, top.seed.val) /\ lr_memo' = lr_memo
    BY <1>9 DEF GrowReturn
  <2> QED BY <1>7, <2>1, SeedsGrown
<1>10. CASE BodySkips
  <2> DEFINE f == Advanced(top, len, 1)
  <2>1. Resuming("body") /\ Resume(f, g.whitespace, top.pos + len) /\ job' = job /\ lr_memo' = lr_memo
    BY <1>10 DEF BodySkips, Advanced, memos, lr, caller
  <2>2. f.op = "body" /\ "body" \in QuietOps
    BY <2>1, ReturnFacts, AdvancedIs DEF FrameOf, QuietOps, FrameOps
  <2> HIDE DEF f
  <2>3. Moves(QuietOps)
    BY <2>1, <2>2, MovesResume
  <2> QED BY <2>1, <2>3, SeedsQuiet
<1>11. CASE BodyReturns
  <2>1. frames # <<>> /\ frames' = Front(frames) /\ job' = job /\ lr_memo' = lr_memo
    BY <1>11 DEF BodyReturns, Resuming, memos, lr, caller
  <2> QED BY <2>1, SeedsEnd
<1> QED BY <1>1, <1>2, <1>3, <1>4, <1>5, <1>6, <1>8, <1>9, <1>10, <1>11 DEF RuleCall

(* No rule is in progress at first.                                        *)
LEMMA InitSeeds == ASSUME Init PROVE SeedsOK
<1> DEFINE f == Frame("top", NoNode, 0)
<1>1. f.op = "top"
  BY DEF Frame
<1> HIDE DEF f
<1>2. frames = <<f>>
  BY DEF Init, f
<1>3. \A k \in DOMAIN <<f>> : <<f>>[k] = f
  OBVIOUS
<1> QED BY <1>1, <1>2, <1>3 DEF SeedsOK

(* Every step keeps SeedsOK.                                               *)
LEMMA NextSeeds ==
  ASSUME FramesOK, RulesOK, SeedsOK, [Next]_vars PROVE SeedsOK'
<1>1. CASE Combinator
  BY <1>1, CombinatorMoves, CombinatorLeaves, SeedsQuiet
<1>2. CASE RuleCall
  BY <1>2, RuleCallSeeds
<1>3. CASE TopWhitespace \/ TopReturn
  <2> DEFINE f == Advanced(top, len, 1)
  <2>1. /\ Resuming("top") /\ job' = job /\ lr_memo' = lr_memo
        /\ (frames' = <<>> \/ frames' = SetTop(frames, f))
    BY <1>3 DEF TopWhitespace, TopReturn, Returned, Advanced, silent, memos, lr
  <2>2. frames # <<>> /\ f.op = "top" /\ "top" \in QuietOps /\ Last(frames).op = "top"
    BY <2>1, ReturnFacts, AdvancedIs DEF FrameOf, QuietOps, FrameOps, Resuming
  <2> HIDE DEF f
  <2>3. CASE frames' = SetTop(frames, f)
    BY <2>1, <2>2, <2>3, SeedsQuiet DEF Moves
  <2>4. CASE frames' = <<>>
    BY <2>4 DEF SeedsOK
  <2> QED BY <2>1, <2>3, <2>4
<1>4. CASE UNCHANGED vars
  BY <1>4, SeedsQuiet DEF vars, context, silent, memos, lr, caller, Moves
<1> QED BY <1>1, <1>2, <1>3, <1>4 DEF Next, Step, Idle

(* The answer to a reference to a growing rule is always its frame's seed. *)
LEMMA SeedsAlways == Spec => [](FramesOK /\ RulesOK /\ SeedsOK)
<1>1. Init => FramesOK /\ RulesOK /\ SeedsOK
  BY InitOK, InitRules, InitSeeds
<1>2. FramesOK /\ RulesOK /\ SeedsOK /\ [Next]_vars => (FramesOK /\ RulesOK /\ SeedsOK)'
  BY NextOK, NextRules, NextSeeds
<1> QED BY <1>1, <1>2, PTL DEF Spec

----------------------------------------------------------------------------
(* A longer match replaces the seed of the innermost rule, or nothing      *)
(* does.                                                                   *)
LEMMA GrowLonger ==
  ASSUME FramesOK, RulesOK, SeedsOK, Growing, NEW c, Grow(top, c),
         IF top.k = 0 THEN len # Fail ELSE Grew(len, top)
  PROVE  GrowsSeeds
<1>1. /\ GrowerAt(frames, Len(frames)) /\ frames[Len(frames)] = top
      /\ lr_memo'[InRule(top)] = Entry(len, ctl.val)
      /\ \A q \in lr_active_seeds : q # InRule(top) => lr_memo'[q] = lr_memo[q]
  BY GrowFacts
<1>2. lr_memo[InRule(top)] = Entry(top.seed.len, top.seed.val) /\ (top.k = 0 => top.seed.len = Fail)
  BY <1>1 DEF SeedsOK, GrowerAt, Seeded
<1>3. len \in Lengths /\ Len(input) \in Nat
  BY RuleFacts, InputFacts DEF Growing
<1>4. len > top.seed.len
  <2>1. CASE top.k = 0
    BY <1>2, <1>3, <2>1 DEF Lengths, Places, Fail
  <2>2. CASE top.k # 0
    BY <2>2 DEF Grew
  <2> QED BY <2>1, <2>2
<1>5. lr_memo'[InRule(top)].len > lr_memo[InRule(top)].len
  BY <1>1, <1>2, <1>4 DEF Entry
<1> QED BY <1>1, <1>5 DEF GrowsSeeds

(* No other step changes the seed of a rule that is growing.               *)
LEMMA NextGrows ==
  ASSUME FramesOK, RulesOK, SeedsOK, [Next]_vars PROVE [GrowsSeeds]_vars
<1>1. lr_memo' = lr_memo => GrowsSeeds
  BY DEF GrowsSeeds
<1>2. \A q \in lr_active_seeds : /\ rules[q[1]].is_left_recursive /\ lr_memo[q] # NoMemo
                                /\ q \in DOMAIN lr_memo
  <2> TAKE q \in lr_active_seeds
  <2>1. PICK x \in InProgress(frames) :
          x.name = q[1] /\ x.pos = q[2] /\ rules[q[1]].is_left_recursive
    BY DEF RulesOK, CallsOK
  <2>2. q = <<q[1], q[2]>> /\ q \in DOMAIN lr_memo
    BY DEF FramesOK, MemosOK, EntriesOK
  <2>3. Refused(InProgress(frames), x) /\ rules[x.name].is_left_recursive /\ <<x.name, x.pos>> = q
    BY <2>1, <2>2 DEF RulesOK, CallsOK
  <2> QED BY <2>1, <2>2, <2>3 DEF Refused
<1>3. CASE PlainMiss
  <2>1. lr_memo' = [lr_memo EXCEPT ![key] = Failed] /\ ~rules[key[1]].is_left_recursive
    BY <1>3 DEF PlainMiss, Plain, callee, key
  <2> QED BY <1>2, <2>1 DEF GrowsSeeds
<1>4. CASE PlainReturn
  <2>1. lr_memo' = [lr_memo EXCEPT ![InRule(top)] = NoMemo] /\ ~rules[InRule(top)[1]].is_left_recursive
    BY <1>4 DEF PlainReturn, Returning, InRule, rule_of
  <2> QED BY <1>2, <2>1 DEF GrowsSeeds
<1>5. CASE SeedStart
  <2>1. lr_memo' = [lr_memo EXCEPT ![key] = Failed] /\ lr_memo[key] = NoMemo
    BY <1>5 DEF SeedStart
  <2> QED BY <1>2, <2>1 DEF GrowsSeeds
<1>6. CASE SeedReturn
  <2>1. Growing /\ top.k = 0 /\ ((len # Fail /\ \E c : Grow(top, c)) \/ lr_memo' = lr_memo)
    BY <1>6 DEF SeedReturn
  <2> QED BY <1>1, <2>1, GrowLonger
<1>7. CASE GrowReturn
  <2>1. Growing /\ top.k = 1 /\ ((Grew(len, top) /\ \E c : Grow(top, c)) \/ lr_memo' = lr_memo)
    BY <1>7 DEF GrowReturn
  <2> QED BY <1>1, <2>1, GrowLonger
<1>8. CASE \/ MemoHit \/ MemoMiss \/ MemoReturn \/ GuardHit \/ GuardMiss \/ GuardReturn
           \/ PlainHit \/ SeedHit \/ BodySkips \/ BodyReturns
  BY <1>1, <1>8 DEF MemoHit, MemoMiss, MemoReturn, GuardHit, GuardMiss, GuardReturn, PlainHit,
     SeedHit, BodySkips, BodyReturns, memos, lr
<1>9. CASE Combinator \/ TopWhitespace \/ TopReturn
  BY <1>1, <1>9, CombinatorLeaves DEF TopWhitespace, TopReturn, silent, memos, lr
<1>10. CASE UNCHANGED vars
  BY <1>10
<1> QED BY <1>3, <1>4, <1>5, <1>6, <1>7, <1>8, <1>9, <1>10 DEF Next, Step, Idle, RuleCall

(* A seed only grows: each round's match is longer than the last, whatever *)
(* rules grow inside one another at one position, so that the rounds of    *)
(* Holder::parse_core end.                                                 *)
THEOREM SeedsAlwaysGrow == Spec => SeedsGrow
BY SeedsAlways, NextGrows, PTL DEF Spec, SeedsGrow

----------------------------------------------------------------------------
(* What is memoized for a rule that is no longer being parsed stays: only  *)
(* a rule's own return writes its entry, and only a growing rule's own     *)
(* round clears it.                                                        *)
LEMMA NextKeeps ==
  ASSUME FramesOK, [Next]_vars PROVE [KeepsFinished]_vars
<1>1. memo' = memo => KeepsFinished
  BY DEF KeepsFinished
<1>2. DOMAIN memo = Names \X Places
  BY DEF FramesOK, MemosOK, EntriesOK
<1>3. ASSUME NEW r, NEW p, \A q \in MemoFinal : q # <<r, p>>, NEW entry,
             memo' = [memo EXCEPT ![<<r, p>>] = entry]
      PROVE  KeepsFinished
  BY <1>3 DEF KeepsFinished, MemoFinal
<1>4. ASSUME Resuming("rule")
      PROVE  /\ InRule(top) = <<name_of(top), top.pos>>
             /\ \A q \in MemoFinal : q # InRule(top)
             /\ rules[name_of(top)] = rule_of(top)
  <2>1. top.op = "rule" /\ frames # <<>> /\ top = frames[Len(frames)] /\ IsSeq(frames)
    BY <1>4 DEF Resuming, top, Last, FramesOK, StackOK
  <2>2. Len(frames) \in DOMAIN frames
    BY <2>1, SeqFacts
  <2> QED BY <2>1, <2>2 DEF MemoFinal, InRule, name_of, rule_of
<1>5. CASE MemoMiss
  <2>1. memo' = [memo EXCEPT ![<<node.name, here>>] = Failed] /\ memo[<<node.name, here>>] = NoMemo
    BY <1>5 DEF MemoMiss, registered, key
  <2> QED BY <1>3, <2>1 DEF MemoFinal
<1>6. CASE MemoReturn
  <2>1. /\ Resuming("rule")
        /\ \/ memo' = memo
           \/ memo' = [memo EXCEPT ![<<name_of(top), top.pos>>] = Entry(len, ctl.val)]
    BY <1>6 DEF MemoReturn, Returning, write_packrat_cache
  <2> QED BY <1>1, <1>3, <1>4, <2>1
<1>7. CASE SeedReturn \/ GrowReturn
  <2>1. /\ Resuming("rule")
        /\ \/ memo' = memo
           \/ memo' = [memo EXCEPT ![<<name_of(top), top.pos>>] = NoMemo]
           \/ memo' = [memo EXCEPT ![<<name_of(top), top.pos>>] = Entry(top.seed.len, top.seed.val)]
    BY <1>7 DEF SeedReturn, GrowReturn, Growing, Grow, write_packrat_cache, clear_packrat_cache
  <2> QED BY <1>1, <1>3, <1>4, <2>1
<1>8. CASE \/ MemoHit \/ GuardHit \/ GuardMiss \/ GuardReturn \/ PlainHit \/ PlainMiss \/ PlainReturn
           \/ SeedHit \/ SeedStart \/ BodySkips \/ BodyReturns
  BY <1>1, <1>8 DEF MemoHit, GuardHit, GuardMiss, GuardReturn, PlainHit, PlainMiss, PlainReturn,
     SeedHit, SeedStart, BodySkips, BodyReturns, memos, lr
<1>9. CASE Combinator \/ TopWhitespace \/ TopReturn
  BY <1>1, <1>9, CombinatorLeaves DEF TopWhitespace, TopReturn, silent, memos, lr
<1>10. CASE UNCHANGED vars
  BY <1>10
<1> QED BY <1>5, <1>6, <1>7, <1>8, <1>9, <1>10 DEF Next, Step, Idle, RuleCall

(* Packrat parsing is linear: a rule with a slot is parsed at most once at *)
(* a position, since what its first parse memoized is never replaced or    *)
(* forgotten, not even by the rules that grow around it.                   *)
THEOREM ParsedOnceAlways == Spec => ParsedOnce
BY FramesAlwaysOK, NextKeeps, PTL DEF Spec, ParsedOnce

----------------------------------------------------------------------------
(* What a frame owes, and what a stack of frames does.                     *)
Debt(f, what) == IF Owes(f, what) THEN 1 ELSE 0

(* A stack owes what its lower frames owe and what its last one owes.      *)
LEMMA OwedLast ==
  ASSUME NEW s, IsSeq(s), s # <<>>, NEW what
  PROVE  LET below == Cardinality({k \in 1 .. Len(s) - 1 : Owes(s[k], what)}) IN
         below \in Nat /\ Owed(s, what) = below + Debt(Last(s), what)
<1> DEFINE n == Len(s)  B == {k \in 1 .. n - 1 : Owes(s[k], what)}
           A == {k \in DOMAIN s : Owes(s[k], what)}
<1>1. n \in Nat /\ n > 0 /\ DOMAIN s = 1 .. n /\ Last(s) = s[n]
  BY SeqFacts DEF Last
<1>2. IsFiniteSet(B) /\ Cardinality(B) \in Nat /\ n \notin B
  <2>1. IsFiniteSet(1 .. n - 1) /\ B \subseteq 1 .. n - 1
    BY <1>1, FS_Interval
  <2> QED BY <1>1, <2>1, FS_Subset, FS_CardinalityType
<1>3. A = IF Owes(Last(s), what) THEN B \cup {n} ELSE B
  <2>1. 1 .. n = (1 .. n - 1) \cup {n}
    BY <1>1
  <2>2. CASE Owes(Last(s), what)
    BY <1>1, <2>1, <2>2
  <2>3. CASE ~Owes(Last(s), what)
    BY <1>1, <2>1, <2>3
  <2> QED BY <2>2, <2>3
<1> HIDE DEF A, B
<1>4. Cardinality(A) = Cardinality(B) + Debt(Last(s), what)
  <2>1. CASE Owes(Last(s), what)
    <3>1. Cardinality(B \cup {n}) = Cardinality(B) + 1
      BY <1>2, FS_AddElement
    <3> QED BY <1>3, <2>1, <3>1 DEF Debt
  <2>2. CASE ~Owes(Last(s), what)
    BY <1>2, <1>3, <2>2 DEF Debt
  <2> QED BY <2>1, <2>2
<1> QED BY <1>2, <1>4 DEF Owed, A, B

(* The empty stack is a sequence.                                          *)
LEMMA NoFrames == IsSeq(<<>>) /\ DOMAIN <<>> = {} /\ Len(<<>>) = 0
<1>1. <<>> \in Seq({})
  OBVIOUS
<1>2. IsSeq(<<>>) /\ DOMAIN <<>> = 1 .. Len(<<>>) /\ Len(<<>>) = 0
  BY <1>1, SeqIsSeq
<1> QED BY <1>2

(* The empty stack owes nothing.                                           *)
LEMMA NothingOwed == ASSUME NEW what PROVE Owed(<<>>, what) = 0
<1>1. IsSeq(<<>>) /\ DOMAIN <<>> = {}
  BY NoFrames
<1> DEFINE s == <<>>
<1> HIDE DEF s
<1>2. DOMAIN s = {} => {k \in DOMAIN s : Owes(s[k], what)} = {}
  OBVIOUS
<1>3. DOMAIN s = {} => Owed(s, what) = 0
  BY <1>2, FS_EmptySet DEF Owed
<1> QED BY <1>1, <1>3 DEF s

(* What is owed is a natural number.                                       *)
LEMMA OwedType == ASSUME NEW s, IsSeq(s), NEW what PROVE Owed(s, what) \in Nat
<1>1. Debt(Last(s), what) \in Nat
  BY DEF Debt
<1>2. CASE s = <<>>
  BY <1>2, NothingOwed
<1>3. CASE s # <<>>
  <2> DEFINE below == Cardinality({k \in 1 .. Len(s) - 1 : Owes(s[k], what)})
  <2>1. below \in Nat /\ Owed(s, what) = below + Debt(Last(s), what)
    BY <1>3, OwedLast
  <2> HIDE DEF below
  <2> QED BY <1>1, <2>1
<1> QED BY <1>2, <1>3

(* Pushing a frame adds that frame's debt.                                 *)
LEMMA OwedPushed ==
  ASSUME NEW s, IsSeq(s), NEW f, NEW what
  PROVE  Owed(Append(s, f), what) = Owed(s, what) + Debt(f, what)
<1> DEFINE t == Append(s, f)  n == Len(s)
<1>1. /\ IsSeq(t) /\ t # <<>> /\ Len(t) = n + 1 /\ Last(t) = f /\ n \in Nat /\ DOMAIN s = 1 .. n
      /\ \A k \in 1 .. n : t[k] = s[k]
  BY AppendFacts, SeqFacts
<1> HIDE DEF t, n
<1>2. {k \in 1 .. Len(t) - 1 : Owes(t[k], what)} = {k \in DOMAIN s : Owes(s[k], what)}
  BY <1>1
<1>3. Owed(t, what) = Cardinality({k \in DOMAIN s : Owes(s[k], what)}) + Debt(f, what)
  BY <1>1, <1>2, OwedLast
<1> QED BY <1>3 DEF Owed, t

(* Popping a frame removes that frame's debt.                              *)
LEMMA OwedPopped ==
  ASSUME NEW s, IsSeq(s), s # <<>>, NEW what
  PROVE  Owed(s, what) = Owed(Front(s), what) + Debt(Last(s), what)
<1> DEFINE t == Front(s)  n == Len(s)
<1>1. /\ DOMAIN t = 1 .. n - 1 /\ n \in Nat /\ \A k \in 1 .. n - 1 : t[k] = s[k]
  BY FrontFacts, SeqFacts
<1> HIDE DEF t
<1>2. {k \in 1 .. n - 1 : Owes(s[k], what)} = {k \in DOMAIN t : Owes(t[k], what)}
  BY <1>1
<1>3. Owed(s, what) = Cardinality({k \in DOMAIN t : Owes(t[k], what)}) + Debt(Last(s), what)
  BY <1>2, OwedLast
<1> QED BY <1>3 DEF Owed, t

(* Changing the innermost frame changes its debt alone.                    *)
LEMMA OwedReplaced ==
  ASSUME NEW s, IsSeq(s), s # <<>>, NEW f, NEW what
  PROVE  Owed(SetTop(s, f), what) = Owed(s, what) - Debt(Last(s), what) + Debt(f, what)
<1> DEFINE t == SetTop(s, f)  n == Len(s)
           B == {k \in 1 .. n - 1 : Owes(s[k], what)}
<1>1. /\ IsSeq(t) /\ t # <<>> /\ Len(t) = n /\ Last(t) = f /\ n \in Nat
      /\ \A k \in 1 .. n - 1 : t[k] = s[k]
  BY SetTopFacts, SeqFacts
<1>2. Cardinality(B) \in Nat /\ Owed(s, what) = Cardinality(B) + Debt(Last(s), what)
  BY OwedLast
<1> HIDE DEF t
<1>3. {k \in 1 .. Len(t) - 1 : Owes(t[k], what)} = B
  BY <1>1
<1>4. Owed(t, what) = Cardinality(B) + Debt(f, what)
  BY <1>1, <1>3, OwedLast
<1>5. Debt(f, what) \in Nat /\ Debt(Last(s), what) \in Nat
  BY DEF Debt
<1> QED BY <1>2, <1>4, <1>5 DEF t

(* Which frames owe which of the four.                                     *)
LEMMA Debts ==
  ASSUME NEW f
  PROVE  /\ Debt(f, "flag") = IF f.op = "cho" /\ tracks_cut(f.node) THEN 1 ELSE 0
         /\ Debt(f, "boundary") =
              IF f.op = "tok" \/ (f.op = "body" /\ f.k = 0 /\ rule_of(f).no_whitespace)
              THEN 1 ELSE 0
         /\ Debt(f, "whitespace") = IF f.op = "wsp" THEN 1 ELSE 0
         /\ Debt(f, "scope") =
              IF f.op \in {"ign", "rec"} \/ (f.op = "body" /\ HasScope(rule_of(f))) THEN 1 ELSE 0
<1>1. Debt(f, "flag") = IF f.op = "cho" /\ tracks_cut(f.node) THEN 1 ELSE 0
  BY DEF Debt, Owes
<1>2. Debt(f, "boundary") =
        IF f.op = "tok" \/ (f.op = "body" /\ f.k = 0 /\ rule_of(f).no_whitespace) THEN 1 ELSE 0
  BY DEF Debt, Owes
<1>3. Debt(f, "whitespace") = IF f.op = "wsp" THEN 1 ELSE 0
  BY DEF Debt, Owes
<1>4. Debt(f, "scope") =
        IF f.op \in {"ign", "rec"} \/ (f.op = "body" /\ HasScope(rule_of(f))) THEN 1 ELSE 0
  <2>1. CASE f.op \in {"ign", "rec"}
    BY <2>1 DEF Debt, Owes
  <2>2. CASE f.op = "body"
    BY <2>2 DEF Debt, Owes
  <2>3. CASE f.op \notin {"ign", "rec", "body"}
    <3>1. ~Owes(f, "scope")
      BY <2>3 DEF Owes
    <3> QED BY <2>3, <3>1 DEF Debt
  <2> QED BY <2>1, <2>2, <2>3
<1> QED BY <1>1, <1>2, <1>3, <1>4

----------------------------------------------------------------------------
(* A step that changes what is owed and the context alike.                 *)
LEMMA ContextStep ==
  ASSUME job' = job, ContextOK, cut_stack' \in Seq(BOOLEAN), IsSeq(scopes'),
         in_token_boundary_count' \in Nat, in_whitespace' \in BOOLEAN, recovered' \in BOOLEAN,
         Len(cut_stack') = Owed(frames', "flag"),
         in_token_boundary_count' = Owed(frames', "boundary"),
         Owed(frames', "whitespace") = IF in_whitespace' THEN 1 ELSE 0,
         Len(scopes') = 1 + Owed(frames', "scope")
  PROVE  ContextOK'
BY DEF ContextOK, Balances, Owed, Owes, tracks_cut, rule_of, rules, g, HasScope, recognize_only, Names

(* The stacks and counts of the context, as what the frames owe.           *)
LEMMA ContextFacts ==
  ASSUME FramesOK, ContextOK
  PROVE  /\ IsSeq(frames) /\ cut_stack \in Seq(BOOLEAN) /\ IsSeq(scopes) /\ scopes # <<>>
         /\ in_token_boundary_count \in Nat /\ in_whitespace \in BOOLEAN /\ recovered \in BOOLEAN
         /\ \A what : Owed(frames, what) \in Nat
         /\ Len(cut_stack) = Owed(frames, "flag") /\ Len(cut_stack) \in Nat
         /\ in_token_boundary_count = Owed(frames, "boundary")
         /\ Owed(frames, "whitespace") = IF in_whitespace THEN 1 ELSE 0
         /\ Len(scopes) = 1 + Owed(frames, "scope") /\ Len(scopes) \in Nat
<1>1. IsSeq(frames) /\ IsSeq(scopes)
  BY DEF FramesOK, StackOK, ContextOK
<1>2. \A what : Owed(frames, what) \in Nat
  BY <1>1, OwedType
<1> QED BY <1>1, <1>2, SeqFacts DEF ContextOK, Balances

(* The stacks of flags and of scopes, when a step changes them.            *)
LEMMA FlagsSet ==
  ASSUME NEW s \in Seq(BOOLEAN), NEW b \in BOOLEAN
  PROVE  /\ Append(s, b) \in Seq(BOOLEAN) /\ Len(Append(s, b)) = Len(s) + 1
         /\ s # <<>> => /\ SetTop(s, b) \in Seq(BOOLEAN) /\ Len(SetTop(s, b)) = Len(s)
                        /\ Front(s) \in Seq(BOOLEAN) /\ Len(Front(s)) = Len(s) - 1
<1>1. Len(s) \in Nat /\ s \in [1 .. Len(s) -> BOOLEAN] /\ (s = <<>> <=> Len(s) = 0) /\ IsSeq(s)
  BY LenProperties, SeqIsSeq
<1>2. Append(s, b) \in Seq(BOOLEAN) /\ Len(Append(s, b)) = Len(s) + 1
  BY AppendProperties
<1>3. ASSUME s # <<>>
      PROVE  /\ SetTop(s, b) \in Seq(BOOLEAN) /\ Len(SetTop(s, b)) = Len(s)
             /\ Front(s) \in Seq(BOOLEAN) /\ Len(Front(s)) = Len(s) - 1
  <2>1. SetTop(s, b) \in [1 .. Len(s) -> BOOLEAN] /\ Len(SetTop(s, b)) = Len(s)
    BY <1>1, <1>3, SetTopFacts DEF SetTop
  <2>2. Front(s) \in Seq(BOOLEAN) /\ Len(Front(s)) = Len(s) - 1
    BY <1>1, <1>3, FrontFacts, SubSeqProperties DEF Front
  <2> QED BY <1>1, <1>3, <2>1, <2>2, SeqDef
<1> QED BY <1>2, <1>3

(* Raising or clearing a cut keeps the depth of the cut flags.             *)
LEMMA CutKept ==
  ASSUME FramesOK, ContextOK, NEW b \in BOOLEAN
  PROVE  /\ SetCut(b) \in Seq(BOOLEAN) /\ Len(SetCut(b)) = Len(cut_stack)
         /\ cleared(cut_stack) \in Seq(BOOLEAN) /\ Len(cleared(cut_stack)) = Len(cut_stack)
BY ContextFacts, FlagsSet DEF SetCut, cleared

(* Opening, changing and closing a scope changes the depth by one, none    *)
(* and one.                                                                *)
LEMMA ScopesSet ==
  ASSUME FramesOK, ContextOK, NEW e
  PROVE  /\ IsSeq(Append(scopes, e)) /\ Len(Append(scopes, e)) = Len(scopes) + 1
         /\ IsSeq(SetTop(scopes, e)) /\ Len(SetTop(scopes, e)) = Len(scopes)
         /\ IsSeq(Front(scopes)) /\ Len(Front(scopes)) = Len(scopes) - 1
BY ContextFacts, AppendFacts, SetTopFacts, FrontFacts

(* The operators that owe nothing: a step of theirs may set the innermost  *)
(* scope, and does nothing else to the context.                            *)
ScopeSet == scopes' = scopes \/ \E e : scopes' = SetTop(scopes, e)

ModesKept ==
  /\ cut_stack' = cut_stack /\ in_token_boundary_count' = in_token_boundary_count
  /\ in_whitespace' = in_whitespace /\ recovered' = recovered

Kinds == {"flag", "boundary", "whitespace", "scope"}

(* The operators of PureOps, rules and the entry owe nothing.              *)
LEMMA PureDebts ==
  ASSUME NEW f, f.op \in PureOps \cup {"rule", "top"}, NEW what \in Kinds
  PROVE  Debt(f, what) = 0
BY Debts DEF PureOps, Kinds

(* Hence a step on frames of PureOps changes no debt.                      *)
LEMMA PureOwed ==
  ASSUME FramesOK, Moves(PureOps), NEW what \in Kinds
  PROVE  Owed(frames', what) = Owed(frames, what)
<1>1. IsSeq(frames) /\ Owed(frames, what) \in Nat
  BY OwedType DEF FramesOK, StackOK
<1>2. \A f : f.op \in PureOps => Debt(f, what) = 0
  BY PureDebts
<1>3. CASE frames' = frames
  BY <1>3
<1>4. CASE \E f : f.op \in PureOps /\ frames' = Append(frames, f)
  BY <1>1, <1>2, <1>4, OwedPushed
<1>5. CASE frames # <<>> /\ Last(frames).op \in PureOps /\ frames' = Front(frames)
  <2>1. Owed(Front(frames), what) \in Nat
    BY <1>1, <1>5, FrontFacts, OwedType
  <2> QED BY <1>1, <1>2, <1>5, <2>1, OwedPopped
<1>6. CASE /\ frames # <<>> /\ Last(frames).op \in PureOps
           /\ \E f : f.op \in PureOps /\ frames' = SetTop(frames, f)
  BY <1>1, <1>2, <1>6, OwedReplaced
<1> QED BY <1>3, <1>4, <1>5, <1>6 DEF Moves

(* A step that changes no debt and no depth keeps the balance.             *)
LEMMA SameDebts ==
  ASSUME FramesOK, ContextOK, job' = job, ModesKept, ScopeSet,
         \A what \in Kinds :
           Owed(frames', what) = Owed(frames, what)
  PROVE  ContextOK'
<1>1. IsSeq(scopes') /\ Len(scopes') = Len(scopes)
  BY ContextFacts, ScopesSet DEF ScopeSet
<1> QED BY <1>1, ContextFacts, ContextStep DEF ModesKept, Kinds

(* The actions of the operators of PureOps keep the balance.               *)
LEMMA PureContext ==
  ASSUME FramesOK, ContextOK, PureAction PROVE ContextOK'
<1>1. Moves(PureOps)
  BY PureMoves
<1>2. job' = job
  BY CombinatorLeaves DEF Combinator, PureAction
<1>3. ModesKept /\ ScopeSet
  BY DEF PureAction, CharEnter, LiteralEnter, BackReferenceEnter, SkipResume, SequenceEnter,
     SequenceResume, RepetitionEnter, RepetitionMatched, RepetitionFailed, PredicateEnter,
     AndPredicateResume, NotPredicateResume, CaptureScopeEnter, CaptureScopeResume, CaptureEnter,
     CaptureResume, rollback, context, silent, values, modes, ModesKept, ScopeSet
<1> QED BY <1>1, <1>2, <1>3, PureOwed, SameDebts

----------------------------------------------------------------------------
(* The operators that owe something while they run.                        *)
LEMMA Pushed ==
  ASSUME FramesOK, NEW f, frames' = Append(frames, f), NEW what
  PROVE  Owed(frames', what) = Owed(frames, what) + Debt(f, what)
BY OwedPushed DEF FramesOK, StackOK

(* A return takes the innermost frame's debt away.                         *)
LEMMA Popped ==
  ASSUME FramesOK, frames # <<>>, frames' = Front(frames), NEW what
  PROVE  /\ Owed(frames', what) \in Nat
         /\ Owed(frames', what) = Owed(frames, what) - Debt(top, what)
<1>1. IsSeq(frames) /\ IsSeq(Front(frames))
  BY FrontFacts DEF FramesOK, StackOK
<1>2. /\ Owed(frames, what) = Owed(Front(frames), what) + Debt(top, what)
      /\ Owed(Front(frames), what) \in Nat /\ Debt(top, what) \in Nat
  BY <1>1, OwedPopped, OwedType DEF top, Debt
<1> QED BY <1>2

(* A change of the innermost frame replaces its debt.                      *)
LEMMA Replaced ==
  ASSUME FramesOK, frames # <<>>, NEW f, frames' = SetTop(frames, f), NEW what
  PROVE  /\ Owed(frames', what) \in Nat
         /\ Owed(frames', what) = Owed(frames, what) - Debt(top, what) + Debt(f, what)
BY OwedReplaced, SetTopFacts, OwedType DEF FramesOK, StackOK, top

(* A choice pushes and pops one cut flag, or none for a label.             *)
LEMMA ChoiceContext ==
  ASSUME FramesOK, ContextOK, ChoiceEnter \/ ChoiceMatched \/ ChoiceFailed PROVE ContextOK'
<1> DEFINE Tracked(e) == IF tracks_cut(e) THEN 1 ELSE 0
<1>1. job' = job /\ IsSeq(frames)
  BY ContextFacts, CombinatorLeaves DEF Combinator
<1>2. /\ in_token_boundary_count' = in_token_boundary_count /\ in_whitespace' = in_whitespace
      /\ recovered' = recovered
  BY DEF ChoiceEnter, ChoiceMatched, ChoiceFailed, modes
<1>3. IsSeq(scopes') /\ Len(scopes') = Len(scopes)
  BY ContextFacts, ScopesSet DEF ChoiceEnter, ChoiceMatched, ChoiceFailed, rollback, values
<1>4. ASSUME cut_stack' \in Seq(BOOLEAN), Len(cut_stack') = Owed(frames', "flag"),
             \A what \in {"boundary", "whitespace", "scope"} : Owed(frames', what) = Owed(frames, what)
      PROVE  ContextOK'
  BY <1>1, <1>2, <1>3, <1>4, ContextFacts, ContextStep
<1>5. \A f : f.op = "cho" => /\ Debt(f, "flag") = Tracked(f.node)
                            /\ Debt(f, "boundary") = 0 /\ Debt(f, "whitespace") = 0 /\ Debt(f, "scope") = 0
  BY Debts
<1>6. /\ \A what : Owed(frames, what) \in Nat /\ cut_stack \in Seq(BOOLEAN)
      /\ Len(cut_stack) = Owed(frames, "flag") /\ (cut_stack = <<>> <=> Len(cut_stack) = 0)
  BY ContextFacts, SeqIsSeq
<1>7. CASE ChoiceEnter
  <2> DEFINE f == [Frame("cho", node, here) EXCEPT !.k = NextOf(Open(node, here, 1)), !.snap = Snapshot]
  <2>1. f.op = "cho" /\ f.node = node
    BY DEF Frame
  <2>2. CASE Open(node, here, 1) = {}
    <3>1. frames' = frames /\ cut_stack' = cut_stack
      BY <1>7, <2>2 DEF ChoiceEnter, Answer
    <3> QED BY <1>4, <1>6, <3>1
  <2>3. CASE Open(node, here, 1) # {}
    <3>1. /\ frames' = Append(frames, f)
          /\ cut_stack' = IF tracks_cut(node) THEN Append(cut_stack, FALSE) ELSE cleared(cut_stack)
      BY <1>7, <2>3 DEF ChoiceEnter, Enter
    <3> HIDE DEF f
    <3>2. \A what : Owed(frames', what) = Owed(frames, what) + Debt(f, what)
      BY <3>1, Pushed
    <3>3. cut_stack' \in Seq(BOOLEAN) /\ Len(cut_stack') = Len(cut_stack) + Tracked(node)
      <4> DEFINE b == FALSE
      <4>1. b \in BOOLEAN /\ cut_stack' = IF tracks_cut(node) THEN Append(cut_stack, b) ELSE cleared(cut_stack)
        BY <3>1
      <4> HIDE DEF b
      <4>2. Append(cut_stack, b) \in Seq(BOOLEAN) /\ Len(Append(cut_stack, b)) = Len(cut_stack) + 1
        BY <1>6, <4>1, FlagsSet
      <4>3. cleared(cut_stack) \in Seq(BOOLEAN) /\ Len(cleared(cut_stack)) = Len(cut_stack)
        BY <4>1, CutKept
      <4>4. Len(cut_stack) \in Nat
        BY <1>6
      <4>5. CASE tracks_cut(node)
        BY <4>1, <4>2, <4>5
      <4>6. CASE ~tracks_cut(node)
        BY <4>1, <4>3, <4>4, <4>6
      <4> QED BY <4>5, <4>6
    <3> QED BY <1>4, <1>5, <1>6, <2>1, <3>2, <3>3
  <2> QED BY <2>2, <2>3
<1>8. ASSUME Resuming("cho"), frames' = Front(frames), cut_stack' = ended(top.node)
      PROVE  ContextOK'
  <2>1. frames # <<>> /\ top.op = "cho"
    BY <1>8 DEF Resuming, top
  <2>2. \A what : /\ Owed(frames', what) \in Nat
                  /\ Owed(frames', what) = Owed(frames, what) - Debt(top, what)
    BY <1>8, <2>1, Popped
  <2>3. cut_stack' \in Seq(BOOLEAN) /\ Len(cut_stack') = Len(cut_stack) - Tracked(top.node)
    <3>1. CASE tracks_cut(top.node)
      <4>1. cut_stack # <<>>
        BY <1>5, <1>6, <2>1, <2>2, <3>1
      <4> QED BY <1>6, <1>8, <3>1, <4>1, FlagsSet DEF ended
    <3>2. CASE ~tracks_cut(top.node)
      BY <1>6, <1>8, <3>2 DEF ended
    <3> QED BY <3>1, <3>2
  <2> QED BY <1>4, <1>5, <1>6, <2>1, <2>2, <2>3
<1>9. CASE ChoiceMatched
  BY <1>8, <1>9 DEF ChoiceMatched, Leave
<1>10. CASE ChoiceFailed
  <2> DEFINE open == Open(top.node, top.pos, top.k + 1)  f == Counted(top, NextOf(open))
  <2>1. /\ Resuming("cho")
        /\ \/ frames' = Front(frames) /\ cut_stack' = ended(top.node)
           \/ frames' = SetTop(frames, f) /\ cut_stack' = cleared(cut_stack)
    BY <1>10 DEF ChoiceFailed, Counted, Leave, Resume
  <2>2. frames # <<>> /\ top.op = "cho" /\ f.op = "cho" /\ f.node = top.node
    BY <2>1, ReturnFacts, CountedIs DEF FrameOf
  <2> HIDE DEF f
  <2>3. CASE frames' = SetTop(frames, f) /\ cut_stack' = cleared(cut_stack)
    <3>1. \A what : Owed(frames', what) = Owed(frames, what) - Debt(top, what) + Debt(f, what)
      BY <2>2, <2>3, Replaced
    <3>2. cut_stack' \in Seq(BOOLEAN) /\ Len(cut_stack') = Len(cut_stack)
      BY <2>3, CutKept
    <3> QED BY <1>4, <1>5, <1>6, <2>2, <3>1, <3>2
  <2> QED BY <1>8, <2>1, <2>3
<1> QED BY <1>7, <1>9, <1>10

(* A token enters and leaves one boundary.                                 *)
LEMMA TokenContext ==
  ASSUME FramesOK, ContextOK, TokenBoundaryEnter \/ TokenBoundaryResume PROVE ContextOK'
<1>1. job' = job
  BY CombinatorLeaves DEF Combinator
<1>2. cut_stack' = cut_stack /\ in_whitespace' = in_whitespace /\ recovered' = recovered
  BY DEF TokenBoundaryEnter, TokenBoundaryResume
<1>3. \A f : /\ f.op = "tok" => /\ Debt(f, "boundary") = 1 /\ Debt(f, "flag") = 0
                               /\ Debt(f, "whitespace") = 0 /\ Debt(f, "scope") = 0
             /\ f.op = "skip" => /\ Debt(f, "boundary") = 0 /\ Debt(f, "flag") = 0
                               /\ Debt(f, "whitespace") = 0 /\ Debt(f, "scope") = 0
  BY Debts
<1>4. CASE TokenBoundaryEnter
  <2> DEFINE f == Frame("tok", node, here)
  <2>1. /\ frames' = Append(frames, f) /\ in_token_boundary_count' = in_token_boundary_count + 1
        /\ scopes' = scopes /\ f.op = "tok"
    BY <1>4 DEF TokenBoundaryEnter, Enter, values, Frame
  <2> HIDE DEF f
  <2>2. \A what : Owed(frames', what) = Owed(frames, what) + Debt(f, what)
    BY <2>1, Pushed
  <2> QED BY <1>1, <1>2, <1>3, <2>1, <2>2, ContextFacts, ContextStep
<1>5. CASE TokenBoundaryResume
  <2> DEFINE f == SkipFrame(top.pos, len)
  <2>1. /\ frames # <<>> /\ top.op = "tok"
        /\ in_token_boundary_count' = in_token_boundary_count - 1
        /\ scopes' = scopes \/ \E e : scopes' = SetTop(scopes, e)
        /\ frames' = SetTop(frames, f) \/ frames' = Front(frames)
    BY <1>5 DEF TokenBoundaryResume, Resuming, top, Leave, Resume
  <2>2. f.op = "skip"
    BY DEF SkipFrame, Frame
  <2> HIDE DEF f
  <2>3. IsSeq(scopes') /\ Len(scopes') = Len(scopes)
    BY <2>1, ContextFacts, ScopesSet
  <2>4. \A what : Owed(frames', what) \in Nat
    BY <2>1, Popped, Replaced
  <2>5. /\ Owed(frames', "flag") = Owed(frames, "flag")
        /\ Owed(frames', "boundary") = Owed(frames, "boundary") - 1
        /\ Owed(frames', "whitespace") = Owed(frames, "whitespace")
        /\ Owed(frames', "scope") = Owed(frames, "scope")
    <3>1. CASE frames' = SetTop(frames, f)
      <4>1. \A what : Owed(frames', what) = Owed(frames, what) - Debt(top, what) + Debt(f, what)
        BY <2>1, <3>1, Replaced
      <4> QED BY <1>3, <2>1, <2>2, <4>1, ContextFacts
    <3>2. CASE frames' = Front(frames)
      <4>1. \A what : Owed(frames', what) = Owed(frames, what) - Debt(top, what)
        BY <2>1, <3>2, Popped
      <4> QED BY <1>3, <2>1, <4>1, ContextFacts
    <3> QED BY <2>1, <3>1, <3>2
  <2> QED BY <1>1, <1>2, <2>1, <2>3, <2>4, <2>5, ContextFacts, ContextStep
<1> QED BY <1>4, <1>5

(* Whitespace raises the flag and lowers it, also when it fails, and never *)
(* inside itself.                                                          *)
LEMMA WhitespaceContext ==
  ASSUME FramesOK, ContextOK, WhitespaceEnter \/ WhitespaceResume PROVE ContextOK'
<1>1. job' = job
  BY CombinatorLeaves DEF Combinator
<1>2. /\ cut_stack' = cut_stack /\ in_token_boundary_count' = in_token_boundary_count
      /\ recovered' = recovered /\ scopes' = scopes
  BY DEF WhitespaceEnter, WhitespaceResume, values
<1>3. \A f : f.op = "wsp" => /\ Debt(f, "whitespace") = 1 /\ Debt(f, "flag") = 0
                            /\ Debt(f, "boundary") = 0 /\ Debt(f, "scope") = 0
  BY Debts
<1>4. CASE WhitespaceEnter /\ in_whitespace
  <2>1. frames' = frames /\ in_whitespace' = in_whitespace
    BY <1>4 DEF WhitespaceEnter, Answer
  <2> QED BY <1>1, <1>2, <2>1, ContextFacts, ContextStep
<1>5. CASE WhitespaceEnter /\ ~in_whitespace
  <2> DEFINE f == Frame("wsp", node, here)
  <2>1. frames' = Append(frames, f) /\ in_whitespace' = TRUE /\ f.op = "wsp"
    BY <1>5 DEF WhitespaceEnter, Enter, Frame
  <2> HIDE DEF f
  <2>2. \A what : Owed(frames', what) = Owed(frames, what) + Debt(f, what)
    BY <2>1, Pushed
  <2> QED BY <1>1, <1>2, <1>3, <1>5, <2>1, <2>2, ContextFacts, ContextStep
<1>6. CASE WhitespaceResume
  <2>1. frames # <<>> /\ top.op = "wsp" /\ frames' = Front(frames) /\ in_whitespace' = FALSE
    BY <1>6 DEF WhitespaceResume, Resuming, top, Leave
  <2>2. \A what : /\ Owed(frames', what) \in Nat
                  /\ Owed(frames', what) = Owed(frames, what) - Debt(top, what)
    BY <2>1, Popped
  <2>3. Owed(frames', "whitespace") = 0
    BY <1>3, <2>1, <2>2, ContextFacts
  <2>4. /\ Owed(frames', "flag") = Owed(frames, "flag") /\ Owed(frames', "scope") = Owed(frames, "scope")
        /\ Owed(frames', "boundary") = Owed(frames, "boundary")
    BY <1>3, <2>1, <2>2, ContextFacts
  <2>5. /\ cut_stack' \in Seq(BOOLEAN) /\ Len(cut_stack') = Owed(frames', "flag") /\ IsSeq(scopes')
        /\ in_token_boundary_count' \in Nat /\ in_token_boundary_count' = Owed(frames', "boundary")
        /\ recovered' \in BOOLEAN /\ Len(scopes') = 1 + Owed(frames', "scope")
    BY <1>2, <2>4, ContextFacts
  <2>6. /\ Owed(frames', "whitespace") = IF in_whitespace' THEN 1 ELSE 0
        /\ in_whitespace' \in BOOLEAN
    BY <2>1, <2>3
  <2> QED BY <1>1, <2>5, <2>6, ContextStep
<1> QED BY <1>4, <1>5, <1>6

(* Ignore and Recovery parse into a scope of their own.                    *)
LEMMA ScopedContext ==
  ASSUME FramesOK, ContextOK, IgnoreEnter \/ IgnoreResume \/ RecoveryEnter \/ RecoveryResume
  PROVE  ContextOK'
<1>1. job' = job
  BY CombinatorLeaves DEF Combinator
<1>2. /\ in_token_boundary_count' = in_token_boundary_count /\ in_whitespace' = in_whitespace
      /\ recovered' \in BOOLEAN
  BY ContextFacts DEF IgnoreEnter, IgnoreResume, RecoveryEnter, RecoveryResume, modes
<1>3. cut_stack' \in Seq(BOOLEAN) /\ Len(cut_stack') = Len(cut_stack)
  <2>1. cut_stack' = cut_stack \/ cut_stack' = SetCut(TRUE)
    BY DEF IgnoreEnter, IgnoreResume, RecoveryEnter, RecoveryResume
  <2> DEFINE b == TRUE
  <2>2. b \in BOOLEAN /\ (cut_stack' = cut_stack \/ cut_stack' = SetCut(b))
    BY <2>1
  <2> HIDE DEF b
  <2> QED BY <2>2, CutKept, ContextFacts
<1>4. \A f : f.op \in {"ign", "rec"} => /\ Debt(f, "scope") = 1 /\ Debt(f, "flag") = 0
                                      /\ Debt(f, "boundary") = 0 /\ Debt(f, "whitespace") = 0
  BY Debts
<1>5. CASE IgnoreEnter \/ RecoveryEnter
  <2>1. PICK f : /\ frames' = Append(frames, f) /\ f.op \in {"ign", "rec"}
                 /\ scopes' = Append(scopes, EmptyScope)
    BY <1>5 DEF IgnoreEnter, RecoveryEnter, Enter, Frame
  <2>2. \A what : Owed(frames', what) = Owed(frames, what) + Debt(f, what)
    BY <2>1, Pushed
  <2>3. IsSeq(scopes') /\ Len(scopes') = Len(scopes) + 1
    BY <2>1, ScopesSet
  <2> QED BY <1>1, <1>2, <1>3, <1>4, <2>1, <2>2, <2>3, ContextFacts, ContextStep
<1>6. CASE IgnoreResume \/ RecoveryResume
  <2>1. /\ frames # <<>> /\ top.op \in {"ign", "rec"} /\ frames' = Front(frames)
        /\ scopes' = Front(scopes)
    BY <1>6 DEF IgnoreResume, RecoveryResume, Resuming, top, Leave
  <2>2. \A what : /\ Owed(frames', what) \in Nat
                  /\ Owed(frames', what) = Owed(frames, what) - Debt(top, what)
    BY <2>1, Popped
  <2>3. IsSeq(scopes') /\ Len(scopes') = Len(scopes) - 1
    BY <2>1, ScopesSet
  <2> QED BY <1>1, <1>2, <1>3, <1>4, <2>1, <2>2, <2>3, ContextFacts, ContextStep
<1> QED BY <1>5, <1>6

(* A cut raises the innermost flag and keeps the depth.                    *)
LEMMA CutContext ==
  ASSUME FramesOK, ContextOK, CutEnter PROVE ContextOK'
<1> DEFINE b == TRUE
<1>1. /\ job' = job /\ frames' = frames /\ cut_stack' = SetCut(b) /\ b \in BOOLEAN
      /\ scopes' = scopes /\ in_token_boundary_count' = in_token_boundary_count
      /\ in_whitespace' = in_whitespace /\ recovered' = recovered
  BY DEF CutEnter, Answer, values, modes, caller
<1> HIDE DEF b
<1>2. cut_stack' \in Seq(BOOLEAN) /\ Len(cut_stack') = Len(cut_stack)
  BY <1>1, CutKept
<1> QED BY <1>1, <1>2, ContextFacts, ContextStep

(* Every action of a combinator keeps the balance.                         *)
LEMMA CombinatorContext ==
  ASSUME FramesOK, ContextOK, Combinator PROVE ContextOK'
BY PureContext, ChoiceContext, TokenContext, WhitespaceContext, ScopedContext, CutContext
   DEF Combinator, PureAction

----------------------------------------------------------------------------
(* A rule: its "rule" frame owes nothing, its "body" frame the scope and   *)
(* the boundary.                                                           *)
LEMMA RuleAnswers ==
  ASSUME FramesOK, ContextOK, NEW entry, Known(entry) PROVE ContextOK'
<1>1. job' = job /\ frames' = frames /\ ModesKept /\ ScopeSet
  BY DEF Known, Answer, Emplace, modes, caller, ModesKept, ScopeSet
<1> QED BY <1>1, SameDebts

(* A rule that finishes keeps the balance.                                 *)
LEMMA RuleFinishes ==
  ASSUME FramesOK, ContextOK, Resuming("rule"), NEW m, NEW v, Finished(m, v) PROVE ContextOK'
<1>1. /\ job' = job /\ frames' = Front(frames) /\ ModesKept /\ ScopeSet
      /\ frames # <<>> /\ top.op = "rule"
  BY DEF Finished, Leave, Emplace, modes, caller, ModesKept, ScopeSet, Resuming, top
<1>2. \A what \in Kinds : Owed(frames', what) = Owed(frames, what)
  <2> TAKE what \in Kinds
  <2>1. Debt(top, what) = 0
    BY <1>1, PureDebts
  <2> QED BY <1>1, <2>1, Popped, ContextFacts
<1> QED BY <1>1, <1>2, SameDebts

(* A rule's body opens its scope and its boundary, and owes them.          *)
LEMMA BodyStarts ==
  ASSUME FramesOK, ContextOK, job' = job, NEW s, IsSeq(s), NEW f, StartBody(f),
         \A what \in Kinds : Owed(s, what) = Owed(frames, what),
         frames' = Append(s, Frame("body", f.node, f.pos))
  PROVE  ContextOK'
<1> DEFINE b == Frame("body", f.node, f.pos)  r == rule_of(f)
<1>1. b.op = "body" /\ b.k = 0 /\ rule_of(b) = r
  BY DEF Frame, rule_of
<1>2. /\ cut_stack' = cut_stack /\ in_whitespace' = in_whitespace /\ recovered' = recovered
      /\ in_token_boundary_count' = in_token_boundary_count + (IF r.no_whitespace THEN 1 ELSE 0)
      /\ scopes' = IF HasScope(r) THEN Append(scopes, EmptyScope) ELSE scopes
  BY DEF StartBody
<1> HIDE DEF b
<1>3. \A what \in Kinds : Owed(frames', what) = Owed(frames, what) + Debt(b, what)
  BY OwedPushed DEF b
<1>4. /\ Debt(b, "flag") = 0 /\ Debt(b, "whitespace") = 0
      /\ Debt(b, "boundary") = IF r.no_whitespace THEN 1 ELSE 0
      /\ Debt(b, "scope") = IF HasScope(r) THEN 1 ELSE 0
  BY <1>1, Debts
<1> HIDE DEF r
<1>5. IsSeq(scopes') /\ Len(scopes') = Len(scopes) + (IF HasScope(r) THEN 1 ELSE 0)
  BY <1>2, ScopesSet, ContextFacts
<1>6. /\ Owed(frames', "flag") = Owed(frames, "flag")
      /\ Owed(frames', "whitespace") = Owed(frames, "whitespace")
      /\ in_token_boundary_count' \in Nat /\ in_token_boundary_count' = Owed(frames', "boundary")
      /\ Len(scopes') = 1 + Owed(frames', "scope")
  BY <1>2, <1>3, <1>4, <1>5, ContextFacts DEF Kinds
<1> QED BY <1>2, <1>5, <1>6, ContextFacts, ContextStep

(* The first round of a rule keeps the balance.                            *)
LEMMA RuleRuns ==
  ASSUME FramesOK, ContextOK, job' = job, NEW f, f.op = "rule", RunRule(f) PROVE ContextOK'
<1> DEFINE s == Append(frames, f)
<1>1. IsSeq(s) /\ StartBody(f) /\ frames' = Append(s, Frame("body", f.node, f.pos))
  BY ContextFacts, AppendFacts DEF RunRule
<1>2. \A what \in Kinds : Owed(s, what) = Owed(frames, what)
  BY ContextFacts, OwedPushed, PureDebts
<1> HIDE DEF s
<1> QED BY <1>1, <1>2, BodyStarts

(* A further round of a rule keeps the balance.                            *)
LEMMA RuleRunsAgain ==
  ASSUME FramesOK, ContextOK, job' = job, Resuming("rule"), NEW f, f.op = "rule", RunRuleAgain(f)
  PROVE  ContextOK'
<1> DEFINE s == SetTop(frames, f)
<1>1. frames # <<>> /\ Last(frames).op = "rule"
  BY DEF Resuming
<1>2. IsSeq(s) /\ StartBody(f) /\ frames' = Append(s, Frame("body", f.node, f.pos))
  BY <1>1, ContextFacts, SetTopFacts DEF RunRuleAgain
<1>3. \A what \in Kinds : Owed(s, what) = Owed(frames, what)
  BY <1>1, ContextFacts, OwedReplaced, PureDebts
<1> HIDE DEF s
<1> QED BY <1>2, <1>3, BodyStarts

(* A body leaves its boundary before it skips whitespace, once, and closes *)
(* its scope.                                                              *)
LEMMA BodyContext ==
  ASSUME FramesOK, ContextOK, BodySkips \/ BodyReturns PROVE ContextOK'
<1> DEFINE r == rule_of(top)
<1>1. /\ job' = job /\ frames # <<>> /\ top.op = "body" /\ Resuming("body")
      /\ cut_stack' = cut_stack /\ in_whitespace' = in_whitespace /\ recovered' = recovered
  BY DEF BodySkips, BodyReturns, Resuming, top, caller
<1>2. /\ Debt(top, "flag") = 0 /\ Debt(top, "whitespace") = 0
      /\ Debt(top, "boundary") = IF in_boundary(top) THEN 1 ELSE 0
      /\ Debt(top, "scope") = IF HasScope(r) THEN 1 ELSE 0
  BY <1>1, Debts DEF in_boundary
<1>3. CASE BodySkips
  <2> DEFINE f == Advanced(top, len, 1)
  <2>1. /\ frames' = SetTop(frames, f) /\ in_boundary(top) /\ scopes' = scopes
        /\ in_token_boundary_count' = in_token_boundary_count - 1
    BY <1>3 DEF BodySkips, Resume, Advanced, values
  <2>2. f.op = "body" /\ f.k = 1 /\ rule_of(f) = r
    BY <1>1, ReturnFacts, AdvancedIs DEF FrameOf, rule_of
  <2> HIDE DEF f
  <2>3. /\ Debt(f, "flag") = 0 /\ Debt(f, "whitespace") = 0 /\ Debt(f, "boundary") = 0
        /\ Debt(f, "scope") = IF HasScope(r) THEN 1 ELSE 0
    BY <2>2, Debts
  <2>4. \A what : /\ Owed(frames', what) \in Nat
                  /\ Owed(frames', what) = Owed(frames, what) - Debt(top, what) + Debt(f, what)
    BY <1>1, <2>1, Replaced
  <2>5. /\ Owed(frames', "flag") = Owed(frames, "flag")
        /\ Owed(frames', "whitespace") = Owed(frames, "whitespace")
        /\ in_token_boundary_count' \in Nat /\ in_token_boundary_count' = Owed(frames', "boundary")
        /\ Owed(frames', "scope") = Owed(frames, "scope")
    BY <1>2, <2>1, <2>3, <2>4, ContextFacts
  <2> QED BY <1>1, <2>1, <2>5, ContextFacts, ContextStep
<1>4. CASE BodyReturns
  <2>1. /\ frames' = Front(frames)
        /\ scopes' = IF HasScope(r) THEN Front(scopes) ELSE scopes
        /\ in_token_boundary_count' = in_token_boundary_count - (IF in_boundary(top) THEN 1 ELSE 0)
    BY <1>4 DEF BodyReturns
  <2>2. \A what : /\ Owed(frames', what) \in Nat
                  /\ Owed(frames', what) = Owed(frames, what) - Debt(top, what)
    BY <1>1, <2>1, Popped
  <2> HIDE DEF r
  <2>3. IsSeq(scopes') /\ Len(scopes') = Len(scopes) - (IF HasScope(r) THEN 1 ELSE 0)
    BY <2>1, ScopesSet, ContextFacts
  <2>4. /\ Owed(frames', "flag") = Owed(frames, "flag")
        /\ Owed(frames', "whitespace") = Owed(frames, "whitespace")
        /\ in_token_boundary_count' \in Nat /\ in_token_boundary_count' = Owed(frames', "boundary")
        /\ Len(scopes') = 1 + Owed(frames', "scope")
    BY <1>2, <2>1, <2>2, <2>3, ContextFacts
  <2> QED BY <1>1, <2>3, <2>4, ContextFacts, ContextStep
<1> QED BY <1>3, <1>4

(* A round of growing keeps the balance.                                   *)
LEMMA GrowContext ==
  ASSUME FramesOK, ContextOK, Resuming("rule"), NEW c, Grow(top, c) PROVE ContextOK'
<1> DEFINE s == Seed(len, ctl.val, c, top.seed.saved_refs)  f == Reseeded(top, 1, s)
<1>1. job' = job /\ RunRuleAgain(f)
  BY DEF Grow, Reseeded, RunRuleAgain, StartBody, caller
<1>2. f.op = "rule"
  <2> HIDE DEF s
  <2> QED BY ReturnFacts, ReseededIs DEF FrameOf
<1> HIDE DEF f
<1> QED BY <1>1, <1>2, RuleRunsAgain

(* Every step of a rule call keeps the balance.                            *)
LEMMA RuleCallContext ==
  ASSUME FramesOK, ContextOK, RuleCall PROVE ContextOK'
<1>1. CASE MemoHit \/ GuardHit \/ PlainHit \/ SeedHit
  <2>1. \E entry : Known(entry)
    BY <1>1 DEF MemoHit, GuardHit, PlainHit, SeedHit
  <2> QED BY <2>1, RuleAnswers
<1>2. CASE MemoMiss \/ GuardMiss \/ PlainMiss \/ SeedStart
  <2>1. CASE MemoMiss \/ PlainMiss
    <3> DEFINE f == Frame("rule", node, here)
    <3>1. f.op = "rule" /\ RunRule(f) /\ job' = job
      BY <2>1 DEF MemoMiss, PlainMiss, Frame, RunRule, StartBody, caller
    <3> HIDE DEF f
    <3> QED BY <3>1, RuleRuns
  <2>2. CASE GuardMiss
    <3> DEFINE f == [Frame("rule", node, here) EXCEPT !.save = active_pos[node.name]]
    <3>1. RunRule(f) /\ job' = job
      BY <2>2 DEF GuardMiss, RunRule, StartBody, caller
    <3>2. f.op = "rule"
      BY SavedIs
    <3> HIDE DEF f
    <3> QED BY <3>1, <3>2, RuleRuns
  <2>3. CASE SeedStart
    <3> DEFINE f == [Frame("rule", node, here) EXCEPT !.seed = Seed(Fail, NoVal, {}, lr_refs_hit)]
    <3>1. RunRule(f) /\ job' = job
      BY <2>3 DEF SeedStart, RunRule, StartBody, caller
    <3>2. f.op = "rule"
      BY SeededIs
    <3> HIDE DEF f
    <3> QED BY <3>1, <3>2, RuleRuns
  <2> QED BY <1>2, <2>1, <2>2, <2>3
<1>3. CASE MemoReturn \/ GuardReturn \/ PlainReturn
  BY <1>3, RuleFinishes DEF MemoReturn, GuardReturn, PlainReturn, Returning
<1>4. CASE SeedReturn \/ GrowReturn
  <2>1. Resuming("rule") /\ ((\E m, v : Finished(m, v)) \/ \E c : Grow(top, c))
    BY <1>4 DEF SeedReturn, GrowReturn, Growing
  <2> QED BY <2>1, RuleFinishes, GrowContext
<1> QED BY <1>1, <1>2, <1>3, <1>4, BodyContext DEF RuleCall

----------------------------------------------------------------------------
(* The first and the last step.                                            *)
LEMMA InitContext == ASSUME Init PROVE ContextOK
<1> DEFINE s == frames  f == Frame("top", NoNode, 0)
<1>1. /\ frames = Append(<<>>, f) /\ f.op = "top" /\ cut_stack = <<>> /\ scopes = <<EmptyScope>>
      /\ in_token_boundary_count = 0 /\ in_whitespace = FALSE /\ recovered = FALSE
  BY DEF Init, Frame
<1> HIDE DEF f
<1>2. \A what \in Kinds : Owed(frames, what) = 0
  <2> DEFINE none == <<>>
  <2>1. frames = Append(none, f) /\ IsSeq(none) /\ \A what : Owed(none, what) = 0
    BY <1>1, NoFrames, NothingOwed
  <2> HIDE DEF none
  <2> TAKE what \in Kinds
  <2>2. Owed(Append(none, f), what) = Owed(none, what) + Debt(f, what)
    BY <2>1, OwedPushed
  <2>3. Debt(f, what) = 0
    BY <1>1, PureDebts
  <2> QED BY <2>1, <2>2, <2>3
<1>3. IsSeq(scopes) /\ Len(scopes) = 1
  <2> DEFINE e == EmptyScope
  <2>1. <<e>> \in Seq({e}) /\ Len(<<e>>) = 1
    OBVIOUS
  <2> HIDE DEF e
  <2>2. IsSeq(<<e>>)
    BY <2>1, SeqIsSeq
  <2> QED BY <1>1, <2>1, <2>2 DEF e
<1>4. cut_stack \in Seq(BOOLEAN) /\ Len(cut_stack) = 0
  BY <1>1
<1>5. /\ Owed(frames, "flag") = 0 /\ Owed(frames, "boundary") = 0
      /\ Owed(frames, "whitespace") = 0 /\ Owed(frames, "scope") = 0
  BY <1>2 DEF Kinds
<1>6. /\ Owed(frames, "whitespace") = IF in_whitespace THEN 1 ELSE 0
      /\ in_whitespace \in BOOLEAN /\ recovered \in BOOLEAN
  BY <1>1, <1>5
<1>7. /\ Len(cut_stack) = Owed(frames, "flag") /\ Len(scopes) = 1 + Owed(frames, "scope")
      /\ in_token_boundary_count = Owed(frames, "boundary") /\ in_token_boundary_count \in Nat
  BY <1>1, <1>3, <1>4, <1>5
<1> QED BY <1>3, <1>4, <1>6, <1>7 DEF ContextOK, Balances

(* The steps of the parse entry keep the balance.                          *)
LEMMA TopContext ==
  ASSUME FramesOK, ContextOK, TopWhitespace \/ TopReturn PROVE ContextOK'
<1> DEFINE f == Advanced(top, len, 1)
<1>1. /\ job' = job /\ ModesKept /\ ScopeSet /\ frames # <<>> /\ top.op = "top" /\ Resuming("top")
      /\ frames' = <<>> \/ frames' = SetTop(frames, f)
  BY DEF TopWhitespace, TopReturn, Resuming, top, silent, values, modes, ModesKept, ScopeSet,
     Returned, Advanced
<1>2. f.op = "top"
  BY <1>1, ReturnFacts, AdvancedIs DEF FrameOf
<1>3. \A what \in Kinds : Debt(top, what) = 0 /\ Debt(f, what) = 0
  BY <1>1, <1>2, PureDebts
<1> HIDE DEF f
<1>4. CASE frames' = SetTop(frames, f)
  <2>1. \A what \in Kinds : Owed(frames', what) = Owed(frames, what)
    BY <1>1, <1>3, <1>4, Replaced, ContextFacts
  <2> QED BY <1>1, <2>1, SameDebts
<1>5. CASE frames' = <<>>
  <2>1. IsSeq(frames) /\ Len(frames) = 1
    <3>1. top = frames[Len(frames)] /\ IsSeq(frames)
      BY DEF top, Last, FramesOK, StackOK
    <3>2. Len(frames) \in Nat /\ Len(frames) # 0 /\ DOMAIN frames = 1 .. Len(frames)
      BY <1>1, <3>1, SeqFacts
    <3> QED BY <1>1, <3>1, <3>2 DEF FramesOK, StackOK
  <2>2. Front(frames) = <<>>
    <3>1. IsSeq(Front(frames)) /\ Len(Front(frames)) = Len(frames) - 1
      BY <1>1, <2>1, FrontFacts
    <3>2. Len(Front(frames)) = 0
      BY <2>1, <3>1
    <3> QED BY <3>1, <3>2, SeqFacts
  <2>3. \A what \in Kinds : Owed(frames', what) = Owed(frames, what)
    <3> TAKE what \in Kinds
    <3>1. Owed(frames, what) = Owed(Front(frames), what) + Debt(top, what)
      BY <1>1, <2>1, OwedPopped DEF top
    <3> QED BY <1>3, <1>5, <2>2, <3>1, NothingOwed
  <2> QED BY <1>1, <2>3, SameDebts
<1> QED BY <1>1, <1>4, <1>5

(* Every step keeps the balance.                                           *)
LEMMA NextContext ==
  ASSUME FramesOK, ContextOK, [Next]_vars PROVE ContextOK'
<1>1. CASE UNCHANGED vars
  <2>1. job' = job /\ frames' = frames /\ ModesKept /\ ScopeSet
    BY <1>1 DEF vars, caller, context, silent, values, modes, ModesKept, ScopeSet
  <2> QED BY <2>1, SameDebts
<1> QED BY <1>1, CombinatorContext, RuleCallContext, TopContext DEF Next, Step, Idle

(* The inductive invariant of a parse, for every grammar, input and mode.  *)
THEOREM Invariant == Spec => []IInv
<1>1. Init => IInv
  BY InitOK, InitRules, InitContext DEF IInv
<1>2. IInv /\ [Next]_vars => IInv'
  BY NextOK, NextRules, NextContext DEF IInv
<1> QED BY <1>1, <1>2, PTL DEF Spec

(* The growing seeds are those of the left-recursive rules in progress.    *)
LEMMA GrowingNow ==
  ASSUME FramesOK, RulesOK
  PROVE  lr_active_seeds = {InRule(frames[k]) : k \in {l \in DOMAIN frames :
                              frames[l].op = "rule" /\ rule_of(frames[l]).is_left_recursive}}
<1> DEFINE C == InProgress(frames)
           K == {l \in DOMAIN frames : frames[l].op = "rule" /\ rule_of(frames[l]).is_left_recursive}
<1>1. ASSUME NEW q \in lr_active_seeds PROVE \E k \in K : q = InRule(frames[k])
  <2>1. PICK x \in C : x.name = q[1] /\ x.pos = q[2] /\ rules[q[1]].is_left_recursive
    BY DEF RulesOK, CallsOK
  <2>2. PICK k \in DOMAIN frames : frames[k].op = "rule" /\ x = Running(frames, k)
    BY Running1
  <2>3. q = <<q[1], q[2]>>
    BY DEF FramesOK, MemosOK
  <2> QED BY <2>1, <2>2, <2>3, RunningFacts DEF InRule, rule_of
<1>2. ASSUME NEW k \in K PROVE InRule(frames[k]) \in lr_active_seeds
  <2>1. Running(frames, k) \in C
    BY Running1
  <2> DEFINE x == Running(frames, k)
  <2>2. Refused(C, x) /\ x.name = frames[k].node.name /\ x.pos = frames[k].pos
    BY <2>1, RunningFacts DEF RulesOK, CallsOK
  <2>3. InRule(frames[k]) = <<x.name, x.pos>> /\ rules[x.name].is_left_recursive
    BY <2>2 DEF InRule, rule_of
  <2> HIDE DEF x, C
  <2> QED BY <2>2, <2>3 DEF Refused
<1> QED BY <1>1, <1>2

(* The invariant implies Balanced.                                         *)
LEMMA BalancedHolds == ASSUME IInv PROVE Balanced
<1>1. FramesOK /\ RulesOK /\ Balances(frames)
  BY DEF IInv, ContextOK
<1>2. ASSUME Done
      PROVE  /\ \A r \in Names : active_pos[r] = NoPos
             /\ \A q \in Names \X Places : ~rules[q[1]].is_left_recursive => lr_memo[q] = NoMemo
  <2>1. \A x : x \notin InProgress(frames)
    BY <1>2, NoFrames, Running1 DEF Done
  <2>2. \A r \in Names : active_pos[r] = NoPos
    BY <1>1, <2>1 DEF RulesOK, CallsOK, Latest
  <2>3. \A q \in Names \X Places : ~rules[q[1]].is_left_recursive => lr_memo[q] = NoMemo
    BY <1>1, <2>1 DEF RulesOK, CallsOK
  <2> QED BY <2>2, <2>3
<1> QED BY <1>1, <1>2, GrowingNow DEF Balanced

(* The invariant implies TypeOK.                                           *)
LEMMA TypesHold == ASSUME IInv PROVE TypeOK
<1>1. FramesOK /\ ContextOK /\ job \in Jobs /\ ResultOK
  BY DEF IInv, FramesOK
<1>2. \A p \in Places : \A m : p \in Nat /\ (m \in Nat /\ p + m <= Len(input) => m \in Places)
  BY <1>1, InputFacts DEF Places
<1>3. \A k \in DOMAIN frames : /\ frames[k].op \in FrameOps
                              /\ frames[k].pos \in Places /\ frames[k].i \in Places
                              /\ frames[k].save \in Places \cup {NoPos}
  <2> SUFFICES ASSUME NEW k \in DOMAIN frames
               PROVE  /\ frames[k].op \in FrameOps
                      /\ frames[k].pos \in Places /\ frames[k].i \in Places
                      /\ frames[k].save \in Places \cup {NoPos}
    OBVIOUS
  <2>1. FrameOK(frames[k])
    BY <1>1 DEF FramesOK, StackOK
  <2> QED BY <1>2, <2>1 DEF FrameOK, Fits
<1>4. ctl.do \in {"call", "return"} /\ ctl.pos \in Places /\ ctl.len \in Lengths
  BY <1>1 DEF FramesOK, StackOK, ControlOK
<1>5. \A k \in DOMAIN cut_stack : cut_stack[k] \in BOOLEAN
  BY <1>1, LenProperties DEF ContextOK
<1>6. \A q \in Names \X Places : {memo[q].len, lr_memo[q].len} \subseteq Lengths \cup {NoMemo.len}
  <2> SUFFICES ASSUME NEW r \in Names, NEW p \in Places
               PROVE  {memo[<<r, p>>].len, lr_memo[<<r, p>>].len} \subseteq Lengths \cup {NoMemo.len}
    OBVIOUS
  <2>1. EntryOK(memo[<<r, p>>], p) /\ EntryOK(lr_memo[<<r, p>>], p)
    BY <1>1 DEF FramesOK, MemosOK, EntriesOK
  <2> QED BY <2>1 DEF EntryOK
<1>7. /\ active_pos \in [Names -> Places \cup {NoPos}]
      /\ lr_refs_hit \subseteq Names /\ lr_active_seeds \subseteq Names \X Places
  BY <1>1 DEF FramesOK, MemosOK, Growers
<1> QED BY <1>1, <1>3, <1>4, <1>5, <1>6, <1>7 DEF TypeOK, ResultOK, ContextOK

(* The variables of a parse have their types at every step; the depth of   *)
(* token boundaries, unsigned in the C++, never passes zero.               *)
THEOREM TypesAlwaysOK == Spec => []TypeOK
BY Invariant, TypesHold, PTL

(* Every operator that returns, whatever way, has undone what it did: the  *)
(* cut flags, token boundaries, the whitespace flag, the scopes and the    *)
(* growing rules are those of the frames in progress, and after the parse  *)
(* no guard is left behind.                                                *)
THEOREM BalancedAlways == Spec => []Balanced
BY Invariant, BalancedHolds, PTL
=============================================================================
