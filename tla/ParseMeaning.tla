---------------------------- MODULE ParseMeaning ----------------------------
(***************************************************************************)
(* A parse of a grammar without left recursion returns what the inference  *)
(* rules of PegDerivation derive, and what holds at every step of the      *)
(* parse that makes it so: what each frame has established of its operator *)
(* and what it waits for.                                                  *)
(***************************************************************************)
EXTENDS ParseInvariant, PegAnalysis

Here     == [grammar |-> g, own |-> Own, input |-> input]
HasSpace == g.whitespace # NoNode

Gets(e, p, env, m)        == Derives(Here, e, p, env, m)
ComesFar(e, p, env, k, i) == Reaches(Here, e, p, env, k, i)

----------------------------------------------------------------------------
(* The grammars and modes that the theorems are about.                     *)

Classical   == ClassicalIn(Here)
Spreads(at) == SpreadsIn(Here, at)

(* An alternative that its first set filters out does not match there.     *)
FilterSound(at) ==
  \A e \in Own, p \in Places : e.op = "cho" =>
    \A env \in at[e], k \in 1 .. Len(e.kids) : ~MayStart(e, p, k) => Gets(e.kids[k], p, env, Fail)

(* A rule with a cache slot matches the same wherever it may be called,    *)
(* inside a token boundary or outside, inside whitespace or outside.       *)
MemoSound(at) ==
  job.packrat =>
    \A e \in Own, p \in Places, m \in Lengths : e.op = "ref" /\ rules[e.name].cached =>
      \A env, other \in at[e] : Gets(e, p, env, m) => Gets(e, p, other, m)

(* No left recursion: an operator has a rank that is not below that of any *)
(* operand it may call where it was called itself, and a rule is above its *)
(* body.                                                                   *)
MayBeEmpty(e, at) ==
  \/ e.op = "lit" /\ e.text = <<>>
  \/ e.op = "tok" /\ \E p \in Places, env \in at[e] : Gets(e.kid, p, InToken(Here, env), 0)

Descends(rank, at) ==
  /\ rank \in [Own -> Nat]
  /\ \A e \in Own :
       /\ e.op \in Unary => rank[e.kid] <= rank[e]
       /\ e.op = "cho" => \A k \in 1 .. Len(e.kids) : rank[e.kids[k]] <= rank[e]
       /\ e.op = "seq" => \A k \in 1 .. Len(e.kids), p \in Places, env \in at[e] :
                            ComesFar(e, p, env, k - 1, 0) => rank[e.kids[k]] <= rank[e]
       /\ HasSpace /\ MayBeEmpty(e, at) => rank[g.whitespace] <= rank[e]
       /\ e.op = "ref" =>
            LET r == rules[e.name] IN
            /\ rank[r.body] < rank[e]
            /\ HasSpace /\ r.no_whitespace
                 /\ (\E p \in Places, env \in at[e] : Gets(r.body, p, InToken(Here, env), 0))
               => rank[g.whitespace] < rank[e]

Covers(at, rank) ==
  Classical /\ Spreads(at) /\ FilterSound(at) /\ MemoSound(at) /\ Descends(rank, at)
Covered == \E at, rank : Covers(at, rank)

(* All of which an analysis of the operators establishes, but for a memo   *)
(* taken from one environment to another.                                  *)
Analysed ==
  /\ Classical /\ \E N, F, rank : Analysis(Here, N, F, rank)
  /\ \E at : Spreads(at) /\ (job.packrat => OneEnvironment(Here, at))

----------------------------------------------------------------------------
(* What a parse may return: what the start rule gives after the whitespace *)
(* before it.                                                              *)
LeadingSpace(w) == IF HasSpace THEN Gets(g.whitespace, 0, Outermost, w) ELSE w = 0

Verdict(w, m) ==
  IF w = Fail THEN [ret |-> FALSE, i |-> 0]
  ELSE IF m = Fail THEN [ret |-> FALSE, i |-> w]
  ELSE [ret |-> w + m = Len(input), i |-> w + m]

Derivable(v) ==
  \E w, m \in Lengths : /\ LeadingSpace(w)
                        /\ w # Fail => Gets(Ref(g.start), w, Outermost, m)
                        /\ v = Verdict(w, m)

ReturnsDerived == \A v : Derivable(v) <=> v = result

(* A rule that is being parsed is called again where it is: what the       *)
(* guards of RuleCalls refuse.                                             *)
Reenters ==
  Entering("ref") /\ \E x \in InProgress(frames) : x.name = node.name /\ x.pos = here

----------------------------------------------------------------------------
(* The operator that a frame waits for.                                    *)
Awaited(f) ==
  CASE f.op = "top"  -> IF f.k = 0 /\ HasSpace THEN g.whitespace ELSE Ref(g.start)
    [] f.op = "skip" -> g.whitespace
    [] f.op = "rule" -> f.node
    [] f.op = "body" -> IF f.k = 0 THEN rule_of(f).body ELSE g.whitespace
    [] f.op \in {"seq", "cho"} -> f.node.kids[f.k]
    [] OTHER -> f.node.kid

(* Where what the k-th frame calls is.                                     *)
Around(s, k) ==
  IF ~HasSpace THEN Outermost
  ELSE Env(\E j \in 1 .. k - 1 : Owes(s[j], "boundary"),
           \E j \in 1 .. k - 1 : Owes(s[j], "whitespace"))

(* What a frame called for the operator e in env has established.          *)
SkipMeans(f, e, env) ==
  /\ HasSpace /\ ~env.token
  /\ \/ e.op = "lit" /\ StandsAt(e.text, f.pos, input, g.word) /\ f.i = Len(e.text)
     \/ e.op = "tok" /\ Gets(e.kid, f.pos, InToken(Here, env), f.i)

BodyMeans(f, env) ==
  IF f.k = 0 THEN f.i = 0
  ELSE /\ HasSpace /\ ~env.token /\ rule_of(f).no_whitespace
       /\ Gets(rule_of(f).body, f.pos, InToken(Here, env), f.i)

OperatorMeans(f, e, env) ==
  /\ f.node = e
  /\ f.op = "seq" => ComesFar(e, f.pos, env, f.k - 1, f.i)
  /\ f.op = "rep" => ComesFar(e, f.pos, env, f.k, f.i) /\ GoesOn(e, f.k)
  /\ f.op = "cho" => /\ f.k \in 1 .. Len(e.kids)
                     /\ \A j \in 1 .. f.k - 1 : Gets(e.kids[j], f.pos, env, Fail)
  /\ f.op = "wsp" => ~env.space
  /\ f.op = "body" => BodyMeans(f, env)

FrameMeans(f, e, env) ==
  IF f.op = "skip" THEN SkipMeans(f, e, env) ELSE OperatorMeans(f, e, env)

TopMeans(f) == IF f.k = 0 THEN f.i = 0 ELSE HasSpace /\ Gets(g.whitespace, 0, Outermost, f.i)

StackMeans(s) ==
  \A k \in DOMAIN s :
    IF k = 1 THEN TopMeans(s[k])
    ELSE /\ FrameMeans(s[k], Awaited(s[k - 1]), Around(s, k))
         /\ s[k].op = "body" <=> s[k - 1].op = "rule"

(* The innermost frame calls what it waits for, and that is what returns.  *)
ControlMeans(s, c) ==
  s # <<>> =>
    /\ c.do = "call" => c.node = Awaited(Last(s)) /\ Last(s).op # "rule"
    /\ c.do = "return" => Gets(Awaited(Last(s)), Standing(Last(s)), Around(s, Len(s) + 1), c.len)

(* An entry is that of a rule with a slot: of one in progress, or what is  *)
(* derived wherever it may be used.                                        *)
EntryMeans(at, e, p, entry, C) ==
  entry # NoMemo =>
    /\ job.packrat /\ rules[e.name].cached
    /\ \/ entry = Failed /\ \E x \in C : x.name = e.name /\ x.pos = p
       \/ \A env \in at[e] : Gets(e, p, env, entry.len)

MemosMean(at) ==
  \A e \in Own, p \in Places : e.op = "ref" =>
    EntryMeans(at, e, p, memo[<<e.name, p>>], InProgress(frames))

CutsClear == \A k \in DOMAIN cut_stack : ~cut_stack[k]

Meaning(at) ==
  /\ StackMeans(frames) /\ ControlMeans(frames, ctl) /\ MemosMean(at) /\ CutsClear
  /\ Done => Derivable(result)
=============================================================================
