----------------------------- MODULE ParseSafety ----------------------------
(***************************************************************************)
(* What a parse must satisfy of its own state: whatever the grammar and    *)
(* the input, but for what it records (ExpectedIsAbsent, FailureReported), *)
(* for which ParseErrorProofs says what they ask of the grammar.           *)
(***************************************************************************)
EXTENDS ParseEngine

(* The variables have their types; every frame belongs to an operator of   *)
(* the kind its resuming action expects.                                   *)
FrameOps == {"top", "skip", "rule", "body", "seq", "cho", "rep", "and", "not",
             "csc", "cap", "tok", "ign", "wsp", "rec"}
Lengths == Places \cup {Fail}

TypeOK ==
  /\ job \in Jobs
  /\ \A k \in DOMAIN frames : /\ frames[k].op \in FrameOps
                              /\ frames[k].pos \in Places /\ frames[k].i \in Places
                              /\ frames[k].save \in Places \cup {NoPos}
  /\ ctl.do \in {"call", "return"} /\ ctl.pos \in Places /\ ctl.len \in Lengths
  /\ result.ret \in BOOLEAN /\ result.i \in Lengths
  /\ \A k \in DOMAIN cut_stack : cut_stack[k] \in BOOLEAN
  /\ in_token_boundary_count \in Nat /\ in_whitespace \in BOOLEAN /\ recovered \in BOOLEAN
  /\ \A q \in Names \X Places : {memo[q].len, lr_memo[q].len} \subseteq Lengths \cup {NoMemo.len}
  /\ active_pos \in [Names -> Places \cup {NoPos}]
  /\ lr_refs_hit \subseteq Names /\ lr_active_seeds \subseteq Names \X Places

(* Nothing is read or matched beyond the end of the input: each frame has  *)
(* consumed a part of what lies after its start, an operator is called     *)
(* where its caller stands, and what is returned or memoized for a         *)
(* position fits after that position.  The C++ works with s + i and n - i  *)
(* unchecked, n - i unsigned.                                              *)
Fits(p, m) == m >= 0 => p + m <= Len(input)

Standing(f) == f.pos + f.i

InsideInput ==
  /\ \A k \in DOMAIN frames : Fits(frames[k].pos, frames[k].i)
  /\ \A k \in 2 .. Len(frames) : frames[k].pos = Standing(frames[k - 1])
  /\ ctl.do = "call" => ctl.pos = Standing(top)
  /\ ctl.do = "return" /\ ~Done => Fits(Standing(top), ctl.len)
  /\ \A r \in Names, p \in Places : Fits(p, memo[<<r, p>>].len) /\ Fits(p, lr_memo[<<r, p>>].len)

(* Every operator that returns has undone what it did to the context: the  *)
(* flags, counts and stacks are those of the frames in progress, so that   *)
(* each is back to its initial value at the end (~Context asserts two).    *)
Owes(f, what) ==
  \/ what = "flag" /\ f.op = "cho" /\ tracks_cut(f.node)
  \/ what = "boundary" /\ f.op = "tok"
  \/ what = "boundary" /\ f.op = "body" /\ f.k = 0 /\ rule_of(f).no_whitespace
  \/ what = "whitespace" /\ f.op = "wsp"
  \/ what = "scope" /\ f.op \in {"ign", "rec"}
  \/ what = "scope" /\ f.op = "body" /\ HasScope(rule_of(f))

Owed(s, what) == Cardinality({k \in DOMAIN s : Owes(s[k], what)})

Balances(s) ==
  /\ Len(cut_stack) = Owed(s, "flag")
  /\ in_token_boundary_count = Owed(s, "boundary")
  /\ Owed(s, "whitespace") = IF in_whitespace THEN 1 ELSE 0
  /\ Len(scopes) = 1 + Owed(s, "scope")

Balanced ==
  /\ Balances(frames)
  /\ lr_active_seeds = {InRule(frames[k]) : k \in {l \in DOMAIN frames :
                          frames[l].op = "rule" /\ rule_of(frames[l]).is_left_recursive}}
  /\ Done => /\ \A r \in Names : active_pos[r] = NoPos
             /\ \A q \in Names \X Places :
                  ~rules[q[1]].is_left_recursive => lr_memo[q] = NoMemo

(* No rule is parsed again at a position where it is being parsed: the     *)
(* guards (a registered failure, active_pos, lr_memo) end every left       *)
(* recursion, and growing one seed never forgets that another is growing.  *)
(* Otherwise the parser's own stack overflows.                             *)
NoReentry ==
  \A k, l \in DOMAIN frames :
    frames[k].op = "rule" /\ frames[l].op = "rule" /\ InRule(frames[k]) = InRule(frames[l])
      => k = l

(* A rule with a cache slot is parsed at most once at each position, which *)
(* is what makes packrat parsing linear: once its first parse there is     *)
(* over, no later attempt replaces or forgets what it memoized.  Only the  *)
(* growing of a left-recursive rule clears its own entry.                  *)
MemoFinal ==
  {q \in DOMAIN memo :
     /\ memo[q] # NoMemo /\ ~rules[q[1]].is_left_recursive
     /\ \A k \in DOMAIN frames : frames[k].op = "rule" => InRule(frames[k]) # q}
KeepsFinished == \A q \in MemoFinal : memo'[q] = memo[q]

ParsedOnce == [][KeepsFinished]_vars

(* A seed only grows while its rule is growing: each round's match is      *)
(* longer than the last, which is what ends the rounds.                    *)
GrowsSeeds ==
  \A q \in lr_active_seeds \cap lr_active_seeds' :
    lr_memo'[q] # lr_memo[q] => lr_memo'[q].len > lr_memo[q].len

SeedsGrow == [][GrowsSeeds]_vars

(* What an error says was expected does not match where it says: the list  *)
(* is never kept when the position moves on.                               *)
ExpectedIsAbsent ==
  \A t \in ToSet(error_info.expected_tokens) :
    t[1] # NoText => ~StandsAt(t[1], error_info.error_pos, input, g.word)

(* A parse that fails or recovers tells its log why.                       *)
FailureReported ==
  Done /\ job.log /\ (~result.ret \/ recovered) => reports # <<>>

(* Every parse returns.                                                    *)
Returns == <>Done
=============================================================================
