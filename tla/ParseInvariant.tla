--------------------------- MODULE ParseInvariant ---------------------------
(***************************************************************************)
(* What holds at every step of a parse and makes TypeOK, InsideInput,      *)
(* NoReentry and Balanced hold: the shape of the stack of frames, what is  *)
(* memoized for the rules in progress, and the chain of active positions.  *)
(***************************************************************************)
EXTENDS ParseSafety

IsSeq(s) == s \in Seq(ToSet(s))

Own     == Nodes[g]
Growers == {r \in Names : rules[r].is_left_recursive}

(* A frame stands inside the input, and its operator is one of the         *)
(* grammar's.  Only some operators have consumed anything by the time they *)
(* call an operand again.                                                  *)
IsFrame(f) ==
  f = [op |-> f.op, node |-> f.node, pos |-> f.pos, i |-> f.i, k |-> f.k,
       snap |-> f.snap, save |-> f.save, seed |-> f.seed]

IsSeed(s, p) ==
  /\ s.len \in Lengths /\ Fits(p, s.len)
  /\ s.cycle_rules \subseteq Growers /\ s.saved_refs \subseteq Growers

HasOperator(f) ==
  /\ f.node \in Own
  /\ f.node.op = IF f.op \in {"rule", "body"} THEN "ref" ELSE f.op
  /\ f.op = "seq" => f.k \in 1 .. Len(f.node.kids)

FrameOK(f) ==
  /\ IsFrame(f) /\ f.op \in FrameOps
  /\ f.pos \in Places /\ f.i \in Nat /\ Fits(f.pos, f.i)
  /\ f.k \in Nat /\ f.save \in Places \cup {NoPos} /\ IsSeed(f.seed, f.pos)
  /\ f.op \notin {"top", "skip"} => HasOperator(f)
  /\ f.op \notin {"top", "skip", "seq", "rep", "body"} => f.i = 0
  /\ f.op = "top" => f.pos = 0

(* Each frame was called where the one below it stands, never before where *)
(* any below it was; so is the next operator, and what is returned fits    *)
(* there.                                                                  *)
ControlOK(s, c) ==
  /\ c.do \in {"call", "return"} /\ c.pos \in Places /\ c.len \in Lengths
  /\ c.do = "call" => s # <<>> /\ c.node \in Own /\ c.pos = Standing(Last(s))
  /\ c.do = "return" /\ s # <<>> => Fits(Standing(Last(s)), c.len)

StackOK(s, c) ==
  /\ IsSeq(s)
  /\ \A k \in DOMAIN s : FrameOK(s[k]) /\ (s[k].op = "top" <=> k = 1)
  /\ \A k \in 2 .. Len(s) : s[k].pos = Standing(s[k - 1])
  /\ \A k, l \in DOMAIN s : k <= l => s[k].pos <= s[l].pos
  /\ ControlOK(s, c)

EntryOK(entry, p) == entry = NoMemo \/ (entry.len \in Lengths /\ Fits(p, entry.len))

EntriesOK(m) ==
  /\ DOMAIN m = Names \X Places
  /\ \A r \in Names, p \in Places : EntryOK(m[<<r, p>>], p)

MemosOK ==
  /\ EntriesOK(memo) /\ EntriesOK(lr_memo) /\ lr_refs_hit \subseteq Growers
  /\ active_pos \in [Names -> Places \cup {NoPos}]
  /\ lr_active_seeds \subseteq Names \X Places

ResultOK == result.ret \in BOOLEAN /\ result.i \in Lengths

FramesOK == job \in Jobs /\ ResultOK /\ StackOK(frames, ctl) /\ MemosOK

(* The rules being parsed, each with its depth in the stack.               *)
InProgress(s) ==
  {[depth |-> k, name |-> s[k].node.name, pos |-> s[k].pos, save |-> s[k].save] :
     k \in {l \in DOMAIN s : s[l].op = "rule"}}

(* v is the position of the latest of the calls in C of rule r, if r is    *)
(* one that only active_pos guards.                                        *)
ByPosition(r) == job.packrat /\ ~rules[r].cached /\ ~rules[r].is_left_recursive
Latest(C, r, v) ==
  /\ \A x \in C : x.name = r /\ ByPosition(r) => x.pos <= v
  /\ v # NoPos => \E x \in C : x.name = r /\ ByPosition(r) /\ x.pos = v

(* A rule that is being parsed is not parsed again at that position: what  *)
(* would refuse it is in place.                                            *)
Refused(C, x) ==
  IF rules[x.name].is_left_recursive
  THEN lr_memo[<<x.name, x.pos>>] # NoMemo /\ <<x.name, x.pos>> \in lr_active_seeds
  ELSE IF ~job.packrat THEN lr_memo[<<x.name, x.pos>>] # NoMemo
  ELSE IF rules[x.name].cached THEN memo[<<x.name, x.pos>>] # NoMemo
  ELSE Latest({y \in C : y.depth < x.depth}, x.name, x.save)

CallsOK(C) ==
  /\ \A x, y \in C : x.name = y.name /\ x.pos = y.pos => x = y
  /\ \A x \in C : Refused(C, x)
  /\ \A r \in Names : Latest(C, r, active_pos[r])
  /\ \A q \in lr_active_seeds :
       rules[q[1]].is_left_recursive /\ \E x \in C : x.name = q[1] /\ x.pos = q[2]
  /\ \A r \in Names, p \in Places :
       ~rules[r].is_left_recursive /\ lr_memo[<<r, p>>] # NoMemo
         => ~job.packrat /\ \E x \in C : x.name = r /\ x.pos = p

RulesOK == CallsOK(InProgress(frames))

(* The stacks and counts are what the frames owe.                          *)
ContextOK ==
  /\ Balances(frames)
  /\ cut_stack \in Seq(BOOLEAN) /\ IsSeq(scopes)
  /\ in_token_boundary_count \in Nat /\ in_whitespace \in BOOLEAN /\ recovered \in BOOLEAN

(* What a reference to a growing rule is answered with is the seed of its   *)
(* frame, which has matched nothing until its first round.                 *)
Seeded(f) ==
  /\ lr_memo[InRule(f)] = Entry(f.seed.len, f.seed.val)
  /\ f.k \in {0, 1} /\ (f.k = 0 => f.seed.len = Fail)

SeedsOK ==
  \A k \in DOMAIN frames :
    frames[k].op = "rule" /\ rule_of(frames[k]).is_left_recursive => Seeded(frames[k])

IInv == FramesOK /\ RulesOK /\ ContextOK
=============================================================================
