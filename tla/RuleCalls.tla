----------------------------- MODULE RuleCalls ------------------------------
(***************************************************************************)
(* Holder::parse_core, with Reference::parse_dispatch before it and        *)
(* Context::packrat inside it: a reference to a rule either is answered    *)
(* from a memo, or is refused because the rule is already being parsed at  *)
(* that position, or runs the rule's body.                                 *)
(*                                                                         *)
(* A running rule has two frames: "rule", with the part of Holder that     *)
(* decides and memoizes, and on top of it "body", with do_parse.           *)
(***************************************************************************)
EXTENDS Combinators

Entry(m, v) == [len |-> m, val |-> v]
NoMemo == Entry(-2, NoVal)             \* not registered
Failed == Entry(Fail, NoVal)

callee      == rules[node.name]
name_of(f)  == f.node.name
rule_of(f)  == rules[f.node.name]
InRule(f)   == <<f.node.name, f.pos>>

----------------------------------------------------------------------------
(* do_parse and parse_ope_body.                                            *)

(* A rule that only recognizes runs in its caller's scope.                 *)
HasScope(r) == r.is_left_recursive \/ ~recognize_only

StartBody(f) ==           \* f: the "rule" frame, with its new locals
  /\ ctl' = Call(rule_of(f).body, f.pos)
  /\ scopes' = IF HasScope(rule_of(f)) THEN Append(scopes, EmptyScope) ELSE scopes
  /\ in_token_boundary_count' =
       in_token_boundary_count + (IF rule_of(f).no_whitespace THEN 1 ELSE 0)
  /\ UNCHANGED <<capture_entries, cut_stack, in_whitespace, recovered, errors, caller>>

RunRule(f) ==
  /\ frames' = Append(Append(frames, f), Frame("body", f.node, f.pos))
  /\ StartBody(f)

RunRuleAgain(f) ==
  /\ frames' = Append(SetTop(frames, f), Frame("body", f.node, f.pos))
  /\ StartBody(f)

\* A rule with the no_whitespace instruction that is still in its boundary.
\* A mutant: the boundary is left again after the whitespace.
in_boundary_always(f) == rule_of(f).no_whitespace
in_boundary(f) == rule_of(f).no_whitespace /\ f.k = 0

(* The whitespace after a rule with the no_whitespace instruction.         *)
BodySkips ==
  /\ Resuming("body") /\ top.k = 0 /\ len # Fail
  /\ in_boundary(top) /\ Skips(in_token_boundary_count - 1)
  /\ Resume([top EXCEPT !.i = len, !.k = 1], g.whitespace, top.pos + len)
  /\ in_token_boundary_count' = in_token_boundary_count - 1
  /\ UNCHANGED <<values, cut_stack, in_whitespace, recovered, memos, errors, caller>>

is_choice_like(e) == e.op = "cho" \/ (e.op = "tok" /\ e.kid.op = "cho")

reduce(name, p, m, chvs) ==
  IF rules[name].action THEN <<name, p, m, chvs>>
  ELSE IF chvs.vals = <<>> THEN NoVal ELSE Head(chvs.vals)

BodyReturns ==
  /\ Resuming("body")
  /\ LET r == rule_of(top)
         m == IF len = Fail THEN Fail ELSE top.i + len
         chvs == IF is_choice_like(r.body) THEN Last(scopes)
                 ELSE [Last(scopes) EXCEPT !.choice = NoChoice]
         rejects == m # Fail /\ SubSeq(input, top.pos + 1, top.pos + m) \in r.rejected
         scoped == HasScope(r)
         complains == IF m = Fail THEN r.error_message ELSE rejects /\ r.predicate_message
     IN
     /\ ~(in_boundary(top) /\ top.k = 0 /\ len # Fail /\ Skips(in_token_boundary_count - 1))
     /\ frames' = Front(frames)
     /\ ctl' = IF m = Fail \/ rejects THEN Return(Fail, NoVal)
               ELSE Return(m, IF scoped /\ ~recovered
                              THEN reduce(name_of(top), top.pos, m, chvs) ELSE NoVal)
     /\ scopes' = IF scoped THEN Front(scopes) ELSE scopes
     /\ error_info' = IF Logging /\ complains THEN WithMessage(top.pos, name_of(top)) ELSE error_info
     /\ in_token_boundary_count' = in_token_boundary_count - (IF in_boundary(top) THEN 1 ELSE 0)
  /\ UNCHANGED <<capture_entries, cut_stack, in_whitespace, recovered, memos, reports, caller>>

----------------------------------------------------------------------------
(* What a rule gives its caller: its value, unless the caller ignores it.  *)
Emplace(name, m, v) ==
  scopes' = IF m = Fail \/ rules[name].ignoreSemanticValue \/ recognize_only THEN scopes
            ELSE SetTop(scopes, [Last(scopes) EXCEPT !.vals = Append(@, v)])

Known(entry) ==                  \* answered from a memo
  /\ Answer(entry.len)
  /\ Emplace(node.name, entry.len, entry.val)
  /\ UNCHANGED <<capture_entries, cut_stack, modes, errors, caller>>

Finished(m, v) ==                \* answered by the body
  /\ Leave(m)
  /\ Emplace(name_of(top), m, v)
  /\ UNCHANGED <<capture_entries, cut_stack, modes, errors, caller>>

key == <<node.name, here>>

----------------------------------------------------------------------------
(* A memoized rule: Context::packrat with a cache slot.  The failure it    *)
(* registers first also refuses the rule at this position.                 *)
Memoized == Entering("ref") /\ ~callee.is_left_recursive /\ job.packrat /\ callee.cached

\* A mutant of registered: an empty match does not count.
registered_if_consumed(q) == memo[q].len > 0 \/ memo[q] = Failed
registered(q) == memo[q] # NoMemo

MemoHit ==
  /\ Memoized /\ registered(key)
  /\ Known(memo[key])
  /\ UNCHANGED memos

MemoMiss ==
  /\ Memoized /\ ~registered(key)
  /\ memo' = [memo EXCEPT ![key] = Failed]
  /\ RunRule(Frame("rule", node, here))
  /\ UNCHANGED <<active_pos, lr>>

\* A mutant of write_packrat_cache: an empty match is not written.
write_packrat_cache_if_consumed(name, p, m, v) ==
  IF job.packrat /\ rules[name].cached /\ m > 0
  THEN [memo EXCEPT ![<<name, p>>] = Entry(m, v)] ELSE memo

write_packrat_cache(name, p, m, v) ==
  IF job.packrat /\ rules[name].cached THEN [memo EXCEPT ![<<name, p>>] = Entry(m, v)] ELSE memo

Returning == Resuming("rule") /\ ~rule_of(top).is_left_recursive

MemoReturn ==
  /\ Returning /\ job.packrat /\ rule_of(top).cached
  /\ memo' = IF len = Fail THEN memo ELSE write_packrat_cache(name_of(top), top.pos, len, ctl.val)
  /\ Finished(len, ctl.val)
  /\ UNCHANGED <<active_pos, lr>>

----------------------------------------------------------------------------
(* A rule without a slot: only the re-entry guard.                         *)
Guarded == Entering("ref") /\ ~callee.is_left_recursive /\ job.packrat /\ ~callee.cached

GuardHit ==
  /\ Guarded /\ active_pos[node.name] = here
  /\ Known(Failed)
  /\ UNCHANGED memos

GuardMiss ==
  /\ Guarded /\ active_pos[node.name] # here
  /\ active_pos' = [active_pos EXCEPT ![node.name] = here]
  /\ RunRule([Frame("rule", node, here) EXCEPT !.save = active_pos[node.name]])
  /\ UNCHANGED <<memo, lr>>

\* A mutant of GuardReturn: it does not restore the outer call's position.
GuardReturnResets ==
  /\ Returning /\ job.packrat /\ ~rule_of(top).cached
  /\ active_pos' = [active_pos EXCEPT ![name_of(top)] = NoPos]
  /\ Finished(len, ctl.val)
  /\ UNCHANGED <<memo, lr>>

GuardReturn ==
  /\ Returning /\ job.packrat /\ ~rule_of(top).cached
  /\ active_pos' = [active_pos EXCEPT ![name_of(top)] = top.save]
  /\ Finished(len, ctl.val)
  /\ UNCHANGED <<memo, lr>>

----------------------------------------------------------------------------
(* Without packrat parsing, lr_memo is the re-entry guard of every rule.   *)
Plain == Entering("ref") /\ ~callee.is_left_recursive /\ ~job.packrat

PlainHit ==
  /\ Plain /\ lr_memo[key] # NoMemo
  /\ Known(Failed)
  /\ UNCHANGED memos

PlainMiss ==
  /\ Plain /\ lr_memo[key] = NoMemo
  /\ lr_memo' = [lr_memo EXCEPT ![key] = Failed]
  /\ RunRule(Frame("rule", node, here))
  /\ UNCHANGED <<memo, active_pos, lr_refs_hit, lr_active_seeds>>

PlainReturn ==
  /\ Returning /\ ~job.packrat
  /\ lr_memo' = [lr_memo EXCEPT ![InRule(top)] = NoMemo]
  /\ Finished(len, ctl.val)
  /\ UNCHANGED <<memo, active_pos, lr_refs_hit, lr_active_seeds>>

----------------------------------------------------------------------------
(* A left-recursive rule grows a seed: its body is parsed again and again, *)
(* its references to itself at this position answered with the previous    *)
(* result, until the match gets no longer.                                 *)
LeftRecursive == Entering("ref") /\ callee.is_left_recursive

SeedHit ==
  /\ LeftRecursive /\ lr_memo[key] # NoMemo
  /\ Known(lr_memo[key])
  /\ lr_refs_hit' = lr_refs_hit \cup {node.name}
  /\ UNCHANGED <<memo, active_pos, lr_memo, lr_active_seeds>>

SeedStart ==
  /\ LeftRecursive /\ lr_memo[key] = NoMemo
  /\ lr_memo' = [lr_memo EXCEPT ![key] = Failed]
  /\ lr_active_seeds' = lr_active_seeds \cup {key}
  /\ lr_refs_hit' = {}
  /\ RunRule([Frame("rule", node, here) EXCEPT !.seed = Seed(Fail, NoVal, {}, lr_refs_hit)])
  /\ UNCHANGED <<memo, active_pos>>

clear_packrat_cache(name, p) ==
  IF job.packrat /\ rules[name].cached THEN [memo EXCEPT ![<<name, p>>] = NoMemo] ELSE memo

(* What a new round of growing forgets: the results, at this position, of  *)
(* the other rules on the cycle that are not growing themselves.           *)
\* Mutants of Stale: nothing is forgotten; a rule that is growing is.
StaleKept(name, p, cycle_rules) == {}
StaleWithSeeds(name, p, cycle_rules) ==
  {q \in Names \X Places : q[2] = p /\ q[1] # name /\ q[1] \in cycle_rules}
Stale(name, p, cycle_rules) ==
  {q \in Names \X Places :
     q[2] = p /\ q[1] # name /\ q[1] \in cycle_rules /\ q \notin lr_active_seeds}

Grow(f, cycle_rules) ==
  LET name == name_of(f)  forgotten == Stale(name, f.pos, cycle_rules) IN
  /\ lr_memo' = [q \in DOMAIN lr_memo |->
                   IF q = InRule(f) THEN Entry(len, ctl.val)
                   ELSE IF q \in forgotten THEN NoMemo ELSE lr_memo[q]]
  /\ memo' = clear_packrat_cache(name, f.pos)
  /\ RunRuleAgain([f EXCEPT !.k = 1, !.seed = Seed(len, ctl.val, cycle_rules, f.seed.saved_refs)])
  /\ UNCHANGED <<active_pos, lr_active_seeds>>

\* Another round follows a match that is longer than the seed it grew from.
\* Mutants: one that is as long; any match.
GrewOrEqual(m, f) == m >= f.seed.len
GrewAny(m, f) == m # Fail
Grew(m, f) == m > f.seed.len

\* A mutant of Deactivated: the rule stays marked as growing.
DeactivatedNever(f) == lr_active_seeds
Deactivated(f) == lr_active_seeds \ {InRule(f)}

Growing == Resuming("rule") /\ rule_of(top).is_left_recursive

\* The first parse of the body is back: k = 0.
SeedReturn ==
  /\ Growing /\ top.k = 0
  /\ LET cycle_rules == IF lr_refs_hit = {} THEN {} ELSE lr_refs_hit \cup {name_of(top)} IN
     /\ lr_refs_hit' = top.seed.saved_refs \cup cycle_rules
     /\ IF len # Fail THEN Grow(top, cycle_rules)
        ELSE /\ Finished(Fail, NoVal)
             /\ lr_active_seeds' = Deactivated(top)
             /\ UNCHANGED <<memo, active_pos, lr_memo>>

GrowReturn ==
  /\ Growing /\ top.k = 1
  /\ IF Grew(len, top) THEN Grow(top, top.seed.cycle_rules)
     ELSE /\ Finished(top.seed.len, top.seed.val)
          /\ memo' = write_packrat_cache(name_of(top), top.pos, top.seed.len, top.seed.val)
          /\ lr_active_seeds' = Deactivated(top)
          /\ UNCHANGED <<active_pos, lr_memo>>
  /\ UNCHANGED lr_refs_hit

RuleCall ==
  \/ MemoHit \/ MemoMiss \/ MemoReturn
  \/ GuardHit \/ GuardMiss \/ GuardReturn
  \/ PlainHit \/ PlainMiss \/ PlainReturn
  \/ SeedHit \/ SeedStart \/ SeedReturn \/ GrowReturn
  \/ BodySkips \/ BodyReturns
=============================================================================
