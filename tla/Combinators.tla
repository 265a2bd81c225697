---------------------------- MODULE Combinators -----------------------------
(***************************************************************************)
(* Ope::parse_core of every operator class but Holder and Reference: what  *)
(* each does when it is called, and when an operand returns to it.         *)
(***************************************************************************)
EXTENDS ErrorInfo

----------------------------------------------------------------------------
(* Characters, literals, back references.                                  *)
Byte(p) == input[p + 1]
Matches(text, p) == \E q \in p .. Len(input) : text = SubSeq(input, p + 1, q)

CharEnter ==
  /\ Entering("chr")
  /\ IF here < Len(input) /\ Byte(here) \in node.set
     THEN Answer(1) /\ UNCHANGED error_info
     ELSE Answer(Fail) /\ set_error_pos(here, NoText)
  /\ UNCHANGED <<silent, reports, caller>>

(* A literal that begins like a word must not be followed by a character   *)
(* of a word.                                                              *)
WordGoesOn(text, p) ==
  /\ text # <<>> /\ Head(text) \in g.word
  /\ p + Len(text) < Len(input) /\ Byte(p + Len(text)) \in g.word

parse_literal(text) ==
  IF Matches(text, here) /\ ~WordGoesOn(text, here)
  THEN MatchedFrom(here, Len(text)) /\ UNCHANGED error_info
  ELSE Answer(Fail) /\ set_error_pos(here, text)

LiteralEnter ==
  /\ Entering("lit")
  /\ parse_literal(node.text)
  /\ UNCHANGED <<silent, reports, caller>>

\* The latest capture of that name.
BackReferenceEnter ==
  /\ Entering("bkr")
  /\ LET named == {c \in DOMAIN capture_entries : capture_entries[c][1] = node.name} IN
     IF named = {}
     THEN /\ Answer(Fail)
          /\ error_info' = [error_info EXCEPT !.message_pos = here, !.message = UndefinedBack]
     ELSE parse_literal(capture_entries[Max(named)][2])
  /\ UNCHANGED <<silent, reports, caller>>

----------------------------------------------------------------------------
(* Sequence.                                                               *)
SequenceEnter ==
  /\ Entering("seq")
  /\ IF node.kids = <<>> THEN Answer(0)
     ELSE Enter([Frame("seq", node, here) EXCEPT !.k = 1], node.kids[1], here)
  /\ UNCHANGED <<context, caller>>

SequenceResume ==
  /\ Resuming("seq")
  /\ LET i == top.i + len IN
     IF len = Fail THEN Leave(Fail)
     ELSE IF top.k = Len(top.node.kids) THEN Leave(i)
     ELSE Resume([top EXCEPT !.i = i, !.k = @ + 1], top.node.kids[top.k + 1], top.pos + i)
  /\ UNCHANGED <<context, caller>>

----------------------------------------------------------------------------
(* PrioritizedChoice.  An alternative is skipped when the next byte cannot *)
(* start it.  A cut in the alternative that fails ends the choice.         *)
MayStart(e, p, k) ==
  p < Len(input) /\ e.first # <<>> => Byte(p) \in e.first[k]

\* A mutant of Open: it looks again at the alternative that failed.
OpenAgain(e, p, from) == {k \in from - 1 .. Len(e.kids) : k > 0 /\ MayStart(e, p, k)}
Open(e, p, from) == {k \in from .. Len(e.kids) : MayStart(e, p, k)}
NextOf(open) == Min(open)

tracks_cut(e) == g.has_cut /\ ~e.for_label
cleared(cuts) == IF g.has_cut /\ cuts # <<>> THEN SetTop(cuts, FALSE) ELSE cuts
\* A mutant of ended: it pops a flag for e^label too, which pushed none.
endedForLabel(e) == IF g.has_cut THEN Front(cut_stack) ELSE cut_stack
ended(e)      == IF tracks_cut(e) THEN Front(cut_stack) ELSE cut_stack
was_cut       == g.has_cut /\ cut_stack # <<>> /\ Last(cut_stack)

ChoiceEnter ==
  /\ Entering("cho")
  /\ LET open == Open(node, here, 1) IN
     IF open = {}
     THEN /\ Answer(Fail) /\ UNCHANGED cut_stack
          /\ FilterOut(node, here, 1, Len(node.kids), FALSE)
     ELSE /\ Enter([Frame("cho", node, here) EXCEPT !.k = NextOf(open), !.snap = Snapshot],
                   node.kids[NextOf(open)], here)
          /\ cut_stack' = IF tracks_cut(node) THEN Append(cut_stack, FALSE)
                          ELSE cleared(cut_stack)
          /\ FilterOut(node, here, 1, NextOf(open) - 1, NextOf(open) > 1)
  /\ UNCHANGED <<values, modes, memos, reports, caller>>

ChoiceMatched ==
  /\ Resuming("cho") /\ len # Fail
  /\ scopes' = SetTop(scopes, [Last(scopes) EXCEPT
                                 !.choice = <<Len(top.node.kids), top.k - 1>>])
  /\ cut_stack' = ended(top.node)
  /\ error_info' = [error_info EXCEPT !.keep_previous_token = FALSE]
  /\ Leave(len)
  /\ UNCHANGED <<capture_entries, modes, memos, reports, caller>>

ChoiceFailed ==
  /\ Resuming("cho") /\ len = Fail
  /\ rollback(top.snap)
  /\ LET open == Open(top.node, top.pos, top.k + 1) IN
     IF was_cut \/ open = {}
     THEN /\ Leave(Fail) /\ cut_stack' = ended(top.node)
          /\ FilterOut(top.node, top.pos, top.k + 1,
                       IF was_cut THEN top.k ELSE Len(top.node.kids), FALSE)
     ELSE /\ Resume([top EXCEPT !.k = NextOf(open)], top.node.kids[NextOf(open)], top.pos)
          /\ cut_stack' = cleared(cut_stack)
          /\ FilterOut(top.node, top.pos, top.k + 1, NextOf(open) - 1, TRUE)
  /\ UNCHANGED <<modes, memos, reports, caller>>

----------------------------------------------------------------------------
(* Repetition.  k counts the matches; over a character class it is a loop  *)
(* over the input.                                                         *)
More(e, k) == e.max = Inf \/ k < e.max

Span(e, p) ==               \* how many bytes the loop passes
  CHOOSE m \in 0 .. Len(input) - p :
    /\ \A q \in p .. p + m - 1 : Byte(q) \in e.kid.set
    /\ e.max # Inf => m <= e.max
    /\ \/ ~More(e, m) \/ p + m = Len(input)
       \/ Byte(p + m) \notin e.kid.set

RepetitionEnter ==
  /\ Entering("rep")
  /\ IF node.span
     THEN IF Span(node, here) < node.min
          THEN Answer(Fail) /\ set_error_pos(here + Span(node, here), NoText)
          ELSE Answer(Span(node, here)) /\ UNCHANGED error_info
     ELSE /\ IF Saturated(node, 0) THEN Answer(0)
             ELSE Enter([Frame("rep", node, here) EXCEPT !.snap = Snapshot], node.kid, here)
          /\ UNCHANGED error_info
  /\ UNCHANGED <<silent, reports, caller>>

RepetitionMatched ==
  /\ Resuming("rep") /\ len # Fail
  /\ LET i == top.i + len  k == top.k + 1 IN
     IF More(top.node, k) \/ k < top.node.min
     THEN Resume([top EXCEPT !.i = i, !.k = k, !.snap = Snapshot], top.node.kid, top.pos + i)
     ELSE Leave(i)
  /\ UNCHANGED <<context, caller>>

RepetitionFailed ==
  /\ Resuming("rep") /\ len = Fail
  /\ IF top.k < top.node.min
     THEN Leave(Fail) /\ UNCHANGED values
     ELSE Leave(top.i) /\ rollback(top.snap)
  /\ UNCHANGED <<cut_stack, modes, memos, errors, caller>>

----------------------------------------------------------------------------
(* Predicates.                                                             *)
PredicateEnter ==
  /\ Entering("and") \/ Entering("not")
  /\ Enter([Frame(node.op, node, here) EXCEPT !.snap = Snapshot], node.kid, here)
  /\ UNCHANGED <<context, caller>>

AndPredicateResume ==
  /\ Resuming("and")
  /\ rollback(top.snap)
  /\ Leave(IF len = Fail THEN Fail ELSE 0)
  /\ UNCHANGED <<cut_stack, modes, memos, errors, caller>>

NotPredicateResume ==
  /\ Resuming("not")
  /\ rollback(top.snap)
  /\ IF len = Fail THEN Leave(0) /\ UNCHANGED error_info
     ELSE Leave(Fail) /\ set_error_pos(top.pos, NoText)
  /\ UNCHANGED <<cut_stack, modes, memos, reports, caller>>

----------------------------------------------------------------------------
(* Captures.                                                               *)
CaptureScopeEnter ==
  /\ Entering("csc")
  /\ Enter([Frame("csc", node, here) EXCEPT !.snap = Snapshot], node.kid, here)
  /\ UNCHANGED <<context, caller>>

CaptureScopeResume ==
  /\ Resuming("csc")
  /\ capture_entries' = First(capture_entries, top.snap.caps)
  /\ Leave(len)
  /\ UNCHANGED <<scopes, cut_stack, modes, memos, errors, caller>>

CaptureEnter ==
  /\ Entering("cap")
  /\ Enter(Frame("cap", node, here), node.kid, here)
  /\ UNCHANGED <<context, caller>>

CaptureResume ==
  /\ Resuming("cap")
  /\ capture_entries' = IF len = Fail THEN capture_entries
                        ELSE Append(capture_entries,
                                    <<top.node.name, SubSeq(input, top.pos + 1, top.pos + len)>>)
  /\ Leave(len)
  /\ UNCHANGED <<scopes, cut_stack, modes, memos, errors, caller>>

----------------------------------------------------------------------------
(* Token boundaries, ignored operators, whitespace.                        *)
TokenBoundaryEnter ==
  /\ Entering("tok")
  /\ Enter(Frame("tok", node, here), node.kid, here)
  /\ in_token_boundary_count' = in_token_boundary_count + 1
  /\ UNCHANGED <<values, cut_stack, in_whitespace, recovered, memos, errors, caller>>

TokenBoundaryResume ==
  /\ Resuming("tok")
  /\ in_token_boundary_count' = in_token_boundary_count - 1
  /\ scopes' = IF len = Fail THEN scopes
               ELSE SetTop(scopes, AddToken(Last(scopes), top.pos, len))
  /\ IF len # Fail /\ Skips(in_token_boundary_count')
     THEN Resume(SkipFrame(top.pos, len), g.whitespace, top.pos + len)
     ELSE Leave(len)
  /\ UNCHANGED <<capture_entries, cut_stack, in_whitespace, recovered, memos, errors, caller>>

IgnoreEnter ==
  /\ Entering("ign")
  /\ Enter(Frame("ign", node, here), node.kid, here)
  /\ scopes' = Append(scopes, EmptyScope)
  /\ UNCHANGED <<capture_entries, cut_stack, modes, memos, errors, caller>>

IgnoreResume ==
  /\ Resuming("ign")
  /\ scopes' = Front(scopes)
  /\ Leave(len)
  /\ UNCHANGED <<capture_entries, cut_stack, modes, memos, errors, caller>>

WhitespaceEnter ==
  /\ Entering("wsp")
  /\ IF in_whitespace THEN Answer(0) ELSE Enter(Frame("wsp", node, here), node.kid, here)
  /\ in_whitespace' = TRUE
  /\ UNCHANGED <<values, cut_stack, in_token_boundary_count, recovered, memos, errors, caller>>

WhitespaceResume ==
  /\ Resuming("wsp")
  /\ in_whitespace' = FALSE
  /\ Leave(len)
  /\ UNCHANGED <<values, cut_stack, in_token_boundary_count, recovered, memos, errors, caller>>

----------------------------------------------------------------------------
(* Recovery parses the label's rule into a dummy SemanticValues, without a *)
(* log, reports the error if that matches, and cuts whatever comes of it.  *)
RecoveryEnter ==
  /\ Entering("rec")
  /\ Enter(Frame("rec", node, here), node.kid, here)
  /\ scopes' = Append(scopes, EmptyScope)
  /\ error_info' = IF Logging /\ rules[node.kid.name].error_message
                   THEN set_message(here, node.kid.name) ELSE error_info
  /\ UNCHANGED <<capture_entries, cut_stack, modes, memos, reports, caller>>

RecoveryResume ==
  /\ Resuming("rec")
  /\ scopes' = Front(scopes)
  /\ recovered' = (recovered \/ len # Fail)
  /\ IF len # Fail /\ LoggingIn(Front(frames))
     THEN output_log(error_info) /\ error_info' = clear(AfterOutput(error_info))
     ELSE UNCHANGED errors
  /\ cut_stack' = SetCut(TRUE)
  /\ Leave(len)
  /\ UNCHANGED <<capture_entries, in_token_boundary_count, in_whitespace, memos, caller>>

CutEnter ==
  /\ Entering("cut")
  /\ cut_stack' = SetCut(TRUE)
  /\ Answer(0)
  /\ UNCHANGED <<values, modes, memos, errors, caller>>

Combinator ==
  \/ CharEnter \/ LiteralEnter \/ BackReferenceEnter \/ SkipResume
  \/ SequenceEnter \/ SequenceResume
  \/ ChoiceEnter \/ ChoiceMatched \/ ChoiceFailed
  \/ RepetitionEnter \/ RepetitionMatched \/ RepetitionFailed
  \/ PredicateEnter \/ AndPredicateResume \/ NotPredicateResume
  \/ CaptureScopeEnter \/ CaptureScopeResume \/ CaptureEnter \/ CaptureResume
  \/ TokenBoundaryEnter \/ TokenBoundaryResume \/ IgnoreEnter \/ IgnoreResume
  \/ WhitespaceEnter \/ WhitespaceResume
  \/ RecoveryEnter \/ RecoveryResume \/ CutEnter
=============================================================================
