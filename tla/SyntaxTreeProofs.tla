-------------------------- MODULE SyntaxTreeProofs --------------------------
(***************************************************************************)
(* Proofs about the syntax tree: what a parse and an optimization keep at  *)
(* every step, and the properties of SyntaxTree that follow, for every     *)
(* grammar, input and number of optimizations.                             *)
(***************************************************************************)
EXTENDS SyntaxTree, SequenceTheorems, TLAPS

----------------------------------------------------------------------------
(* The inductive invariant.  Its parts are of a heap h, a stack s and the  *)
(* next call or return c.                                                  *)
IsSeq(s) == s \in Seq(ToSet(s))

\* The nodes, each with its text and the nodes it holds.
IsNode(n) ==
  /\ n = [name |-> n.name, original_name |-> n.original_name, position |-> n.position, length |-> n.length,
          is_token |-> n.is_token, nodes |-> n.nodes, parent |-> n.parent, token |-> n.token,
          preserve_position |-> n.preserve_position]
  /\ n.position \in Nat /\ n.length \in Nat /\ IsSeq(n.nodes)
HeapOK(h) ==
  /\ IsSeq(h) /\ \A i \in DOMAIN h : IsNode(h[i]) /\ ToSet(h[i].nodes) \subseteq DOMAIN h
  /\ Nested(h)

\* What an operator gave at p: nothing, or nodes of the text it matched.
IsResult(h, r, p) ==
  /\ r = Return(r.len, r.vals, r.toks)
  /\ r.len \in Nat \cup {Fail} /\ IsSeq(r.vals) /\ ToSet(r.vals) \subseteq DOMAIN h
  /\ r.len = Fail => r.vals = <<>>
  /\ r.len # Fail => Holds(h, p, p + r.len, r.vals)

\* A frame has what its operands gave, of what it has consumed.
IsFrame(h, f) ==
  /\ f = [node |-> f.node, pos |-> f.pos, i |-> f.i, k |-> f.k, vals |-> f.vals, toks |-> f.toks]
  /\ f.pos \in Nat /\ f.i \in Nat /\ f.k \in Nat
  /\ IsSeq(f.vals) /\ ToSet(f.vals) \subseteq DOMAIN h /\ Holds(h, f.pos, Standing(f), f.vals)
  /\ f.node.op \notin {"seq", "rep"} => f.i = 0

Base(s) == IF s = <<>> THEN 0 ELSE Standing(Last(s))
IsControl(h, s, c) ==
  \/ c.do = "call" /\ c = Call(c.node, c.pos) /\ c.pos = Base(s)
  \/ c.do = "return" /\ IsResult(h, c, Base(s))
StackOK(h, s, c) ==
  /\ IsSeq(s) /\ \A k \in DOMAIN s : IsFrame(h, s[k])
  /\ s # <<>> => s[1].pos = 0
  /\ \A k \in 2 .. Len(s) : s[k].pos = Standing(s[k - 1])
  /\ IsControl(h, s, c)

MemoOK(h, m) == \A q \in DOMAIN m : q[2] \in Nat /\ IsResult(h, m[q], q[2])

\* Without packrat parsing: the nodes of the frames and of what is returned
\* have no parent yet, and no two have the same.
Pending(s, c, l) == IF l <= Len(s) THEN ToSet(s[l].vals) ELSE ToSet(c.vals)
Loose(h, s, c) ==
  \A l \in 1 .. Len(s) + 1 : \A v \in Pending(s, c, l) :
    /\ h[v].parent = Nobody
    /\ \A m \in 1 .. Len(s) + 1 : m # l => v \notin Pending(s, c, m)
LinkedFrom(h, given) ==
  \A i \in given + 1 .. Len(h) : \A k \in ToSet(h[i].nodes) : k > given /\ h[k].parent = i

Parsing ==
  /\ StackOK(heap, frames, ctl) /\ MemoOK(heap, memo)
  /\ doing.do = "rest" /\ asked.given = 0
  /\ ~job.packrat => DOMAIN memo = {} /\ Loose(heap, frames, ctl) /\ LinkedFrom(heap, 0)
ParseOK == IF held = {} THEN Parsing ELSE ctl.do = "return" /\ frames = <<>>

----------------------------------------------------------------------------
(* Optimizing.  The nodes after the first given are the call's.            *)
\* The node of the original tree that a call has its kid optimize, and the
\* parent that is to have.
NextKid(h, f) == h[f.id].nodes[IF f.ast = NoNodeYet THEN 1 ELSE Len(h[f.ast].nodes) + 1]
Into(f) == IF f.ast = NoNodeYet THEN f.parent ELSE f.ast
Root(s) == IF s = <<>> THEN Nobody ELSE Into(Last(s))
Within(h, i, j) == h[j].position <= h[i].position /\ End(h, i) <= End(h, j)

IsCall(h, f) ==
  /\ f = [id |-> f.id, parent |-> f.parent, ast |-> f.ast]
  /\ f.id \in 1 .. asked.given
  /\ f.ast = NoNodeYet => Len(h[f.id].nodes) = 1
  /\ f.ast # NoNodeYet =>
       /\ f.ast \in asked.given + 1 .. Len(h)
       /\ h[f.ast].parent = f.parent /\ h[f.ast].name = h[f.id].name
       /\ h[f.ast].position = h[f.id].position /\ h[f.ast].length = h[f.id].length
       /\ IsSeq(h[f.ast].nodes) /\ Len(h[f.ast].nodes) < Len(h[f.id].nodes)
       /\ \A j \in DOMAIN h[f.ast].nodes : Within(h, h[f.ast].nodes[j], h[f.id].nodes[j])
       /\ ~Collapses(h[f.id], asked.mode)

CallsOK(h, s) ==
  /\ IsSeq(s) /\ \A k \in DOMAIN s : IsCall(h, s[k])
  /\ \A k \in DOMAIN s :
       /\ s[k].parent = IF k = 1 THEN Nobody ELSE Into(s[k - 1])
       /\ s[k].id = IF k = 1 THEN asked.root ELSE NextKid(h, s[k - 1])
  /\ \A k, l \in DOMAIN s : k < l /\ s[l].ast # NoNodeYet => s[k].ast < s[l].ast

\* The node that is asked for, which is next to be optimized.
Wanted(h, s) == IF s = <<>> THEN asked.root ELSE NextKid(h, Last(s))
DoingOK(h, s, d) ==
  \/ d.do = "optimize" /\ d.id = Wanted(h, s) /\ d.parent = Root(s)
  \/ /\ d.do = "optimized" /\ d.id \in asked.given + 1 .. Len(h)
     /\ Within(h, d.id, Wanted(h, s)) /\ h[d.id].parent = Root(s)
     /\ \A k \in DOMAIN s : s[k].ast < d.id

\* A node that is to be given to its parent is not held yet.
Unheld(s, d) == {s[k].ast : k \in DOMAIN s} \cup (IF d.do = "optimized" THEN {d.id} ELSE {})
FreshOK(h, s, d) ==
  /\ LinkedFrom(h, asked.given)
  /\ \A i \in asked.given + 1 .. Len(h) :
       /\ \A k \in ToSet(h[i].nodes) : k \notin Unheld(s, d)
       /\ (\A k \in DOMAIN s : s[k].ast # i) => ~Collapses(h[i], asked.mode)

Working(h, s, d) ==
  /\ HeapOK(h) /\ asked.given <= Len(h)
  /\ asked.root \in 1 .. asked.given
  /\ \A i \in 1 .. asked.given : ToSet(h[i].nodes) \subseteq 1 .. asked.given
  /\ CallsOK(h, s) /\ DoingOK(h, s, d) /\ FreshOK(h, s, d)

IsTree(t) ==
  /\ t.made \subseteq DOMAIN heap /\ t.root # NoTree
  /\ doing.do # "rest" => t.made \subseteq 1 .. asked.given
OptimizeOK ==
  /\ asked.given \in Nat /\ asked.given <= Len(heap)
  /\ IF doing.do = "rest" THEN calls = <<>> ELSE Working(heap, calls, doing)
  /\ \A t \in held : IsTree(t)

IInv == HeapOK(heap) /\ ParseOK /\ OptimizeOK /\ TreesLinked /\ ChainsGone

----------------------------------------------------------------------------
(* Sequences.                                                              *)

(* A member of Seq(S) is a sequence of its own elements.                   *)
LEMMA SeqIsSeq ==
  ASSUME NEW S, NEW s \in Seq(S)
  PROVE  /\ IsSeq(s) /\ Len(s) \in Nat /\ DOMAIN s = 1 .. Len(s)
         /\ (s = <<>> <=> Len(s) = 0)
<1>1. Len(s) \in Nat /\ s \in [1 .. Len(s) -> S] /\ DOMAIN s = 1 .. Len(s)
  BY LenProperties
<1>2. s \in [1 .. Len(s) -> ToSet(s)]
  BY <1>1 DEF ToSet
<1>3. s \in Seq(ToSet(s))
  BY <1>1, <1>2, SeqDef
<1>4. s = <<>> <=> Len(s) = 0
  BY <1>1, EmptySeq
<1> QED BY <1>1, <1>3, <1>4 DEF IsSeq

(* A sequence has a length and is empty only at length 0.                  *)
LEMMA SeqFacts ==
  ASSUME NEW s, IsSeq(s)
  PROVE  /\ Len(s) \in Nat /\ DOMAIN s = 1 .. Len(s)
         /\ (s = <<>> <=> Len(s) = 0)
         /\ ToSet(s) = {s[k] : k \in 1 .. Len(s)}
BY SeqIsSeq DEF IsSeq, ToSet

(* A function on 1 .. n is a sequence.                                     *)
LEMMA FunctionIsSeq ==
  ASSUME NEW s, NEW n \in Nat, s = [k \in 1 .. n |-> s[k]]
  PROVE  IsSeq(s) /\ Len(s) = n
<1>1. s \in [1 .. n -> ToSet(s)]
  BY DEF ToSet
<1>2. s \in Seq(ToSet(s))
  BY <1>1, SeqDef
<1> QED BY <1>1, <1>2, SeqFacts DEF IsSeq

(* The empty sequence and those of one element.                            *)
LEMMA ShortSeqs ==
  /\ IsSeq(<<>>) /\ Len(<<>>) = 0 /\ DOMAIN <<>> = {} /\ ToSet(<<>>) = {}
  /\ \A e : IsSeq(<<e>>) /\ Len(<<e>>) = 1 /\ DOMAIN <<e>> = {1} /\ <<e>>[1] = e /\ ToSet(<<e>>) = {e}
<1>1. IsSeq(<<>>) /\ Len(<<>>) = 0
  BY EmptySeq, SeqIsSeq
<1>2. ASSUME NEW e PROVE IsSeq(<<e>>) /\ Len(<<e>>) = 1 /\ <<e>>[1] = e
  <2>1. <<e>> \in Seq({e})
    OBVIOUS
  <2> QED BY <2>1, SeqIsSeq
<1> QED BY <1>1, <1>2, SeqFacts DEF ToSet

(* Appending adds one last element and keeps the others.                   *)
LEMMA AppendFacts ==
  ASSUME NEW s, IsSeq(s), NEW e
  PROVE  /\ IsSeq(Append(s, e)) /\ Append(s, e) # <<>>
         /\ Len(Append(s, e)) = Len(s) + 1
         /\ DOMAIN Append(s, e) = 1 .. Len(s) + 1
         /\ Last(Append(s, e)) = e
         /\ Append(s, e)[Len(s) + 1] = e
         /\ \A k \in 1 .. Len(s) : Append(s, e)[k] = s[k]
<1> DEFINE S == ToSet(s) \cup {e}
<1>1. s \in Seq(S)
  BY SeqMonotonic DEF IsSeq
<1>2. /\ Append(s, e) \in Seq(S) /\ Len(Append(s, e)) = Len(s) + 1
      /\ Append(s, e)[Len(s) + 1] = e
      /\ \A k \in 1 .. Len(s) : Append(s, e)[k] = s[k]
  BY <1>1, SeqFacts
<1>3. IsSeq(Append(s, e)) /\ DOMAIN Append(s, e) = 1 .. Len(s) + 1
  BY <1>2, SeqIsSeq
<1>4. Append(s, e) # <<>>
  BY <1>2, <1>3, SeqFacts
<1> QED BY <1>2, <1>3, <1>4, SeqFacts DEF Last

(* Front drops the last element and keeps the others.                      *)
LEMMA FrontFacts ==
  ASSUME NEW s, IsSeq(s), s # <<>>
  PROVE  /\ IsSeq(Front(s)) /\ Len(s) >= 1
         /\ Len(Front(s)) = Len(s) - 1
         /\ DOMAIN Front(s) = 1 .. Len(s) - 1
         /\ \A k \in 1 .. Len(s) - 1 : Front(s)[k] = s[k]
         /\ Last(s) = s[Len(s)] /\ Len(s) \in DOMAIN s
<1>1. Len(s) \in Nat /\ Len(s) >= 1 /\ DOMAIN s = 1 .. Len(s)
  BY SeqFacts
<1>2. \A k \in 1 .. Len(s) - 1 : s[k] \in ToSet(s)
  BY <1>1 DEF ToSet
<1>3. /\ Front(s) \in Seq(ToSet(s)) /\ Len(Front(s)) = Len(s) - 1
      /\ \A k \in 1 .. Len(s) - 1 : Front(s)[k] = s[k]
  BY <1>1, <1>2, SubSeqProperties DEF Front
<1> QED BY <1>1, <1>3, SeqIsSeq DEF Last

(* Replacing the last element keeps the others.                            *)
LEMMA TopFacts ==
  ASSUME NEW s, IsSeq(s), s # <<>>, NEW e
  PROVE  /\ IsSeq(SetTop(s, e)) /\ SetTop(s, e) # <<>>
         /\ Len(SetTop(s, e)) = Len(s) /\ DOMAIN SetTop(s, e) = 1 .. Len(s)
         /\ Last(SetTop(s, e)) = e /\ SetTop(s, e)[Len(s)] = e
         /\ \A k \in 1 .. Len(s) - 1 : SetTop(s, e)[k] = s[k]
<1> DEFINE t == SetTop(s, e)
<1>1. Len(s) \in Nat /\ Len(s) >= 1 /\ DOMAIN s = 1 .. Len(s)
  BY SeqFacts
<1>2. t = [k \in 1 .. Len(s) |-> t[k]]
  BY <1>1 DEF SetTop
<1>3. IsSeq(t) /\ Len(t) = Len(s)
  BY <1>1, <1>2, FunctionIsSeq
<1> QED BY <1>1, <1>3, SeqFacts DEF Last, SetTop

(* What a concatenation consists of.                                       *)
LEMMA ConcatFacts ==
  ASSUME NEW a, IsSeq(a), NEW b, IsSeq(b)
  PROVE  /\ IsSeq(a \o b) /\ Len(a \o b) = Len(a) + Len(b)
         /\ ToSet(a \o b) = ToSet(a) \cup ToSet(b)
         /\ \A k \in 1 .. Len(a) + Len(b) :
              (a \o b)[k] = IF k <= Len(a) THEN a[k] ELSE b[k - Len(a)]
<1> DEFINE S == ToSet(a) \cup ToSet(b)
<1>1. a \in Seq(S) /\ b \in Seq(S) /\ Len(a) \in Nat /\ Len(b) \in Nat
  BY SeqMonotonic, SeqFacts DEF IsSeq
<1>2. /\ a \o b \in Seq(S) /\ Len(a \o b) = Len(a) + Len(b)
      /\ \A k \in 1 .. Len(a) + Len(b) : (a \o b)[k] = IF k <= Len(a) THEN a[k] ELSE b[k - Len(a)]
  BY <1>1, ConcatProperties
<1>3. IsSeq(a \o b) /\ DOMAIN (a \o b) = 1 .. Len(a) + Len(b)
  BY <1>2, SeqIsSeq
<1>4. ASSUME NEW x \in ToSet(a) PROVE x \in ToSet(a \o b)
  <2>1. PICK k \in 1 .. Len(a) : x = a[k]
    BY <1>4, SeqFacts
  <2>2. k \in 1 .. Len(a) + Len(b) /\ (a \o b)[k] = x
    BY <1>1, <1>2, <2>1
  <2> QED BY <1>3, <2>2 DEF ToSet
<1>5. ASSUME NEW x \in ToSet(b) PROVE x \in ToSet(a \o b)
  <2>1. PICK k \in 1 .. Len(b) : x = b[k]
    BY <1>5, SeqFacts
  <2>2. Len(a) + k \in 1 .. Len(a) + Len(b) /\ (a \o b)[Len(a) + k] = x
    BY <1>1, <1>2, <2>1
  <2> QED BY <1>3, <2>2 DEF ToSet
<1>6. ASSUME NEW x \in ToSet(a \o b) PROVE x \in S
  <2>1. PICK k \in 1 .. Len(a) + Len(b) : x = (a \o b)[k]
    BY <1>3, <1>6 DEF ToSet
  <2>2. CASE k <= Len(a)
    BY <1>1, <1>2, <2>1, <2>2, SeqFacts
  <2>3. CASE ~(k <= Len(a))
    <3>1. k - Len(a) \in 1 .. Len(b) /\ x = b[k - Len(a)]
      BY <1>1, <1>2, <2>1, <2>3
    <3> QED BY <3>1, SeqFacts
  <2> QED BY <2>2, <2>3
<1>7. ToSet(a \o b) = ToSet(a) \cup ToSet(b)
  BY <1>4, <1>5, <1>6
<1> QED BY <1>2, <1>3, <1>7

----------------------------------------------------------------------------
(* Texts and the heap.                                                     *)

\* The nodes of h are there in h2, with their texts.
SameTexts(h, h2) ==
  DOMAIN h \subseteq DOMAIN h2 /\ \A i \in DOMAIN h : h2[i].position = h[i].position /\ h2[i].length = h[i].length

(* A node of the heap.                                                     *)
LEMMA NodeFacts ==
  ASSUME NEW h, HeapOK(h), NEW i \in DOMAIN h
  PROVE  /\ Len(h) \in Nat /\ DOMAIN h = 1 .. Len(h) /\ i \in Nat
         /\ h[i].position \in Nat /\ h[i].length \in Nat /\ IsSeq(h[i].nodes)
         /\ End(h, i) \in Nat /\ h[i].position <= End(h, i)
         /\ \A k \in DOMAIN h[i].nodes : h[i].nodes[k] \in DOMAIN h
         /\ Holds(h, h[i].position, End(h, i), h[i].nodes)
<1>1. IsSeq(h) /\ IsNode(h[i]) /\ ToSet(h[i].nodes) \subseteq DOMAIN h /\ Nested(h)
  BY DEF HeapOK
<1>2. Len(h) \in Nat /\ DOMAIN h = 1 .. Len(h)
  BY <1>1, SeqFacts
<1>3. h[i].position \in Nat /\ h[i].length \in Nat /\ IsSeq(h[i].nodes)
  BY <1>1 DEF IsNode
<1>4. \A k \in DOMAIN h[i].nodes : h[i].nodes[k] \in ToSet(h[i].nodes)
  BY DEF ToSet
<1> QED BY <1>1, <1>2, <1>3, <1>4 DEF Nested, End

(* Holds is of the texts alone.                                            *)
LEMMA HoldsKept ==
  ASSUME NEW h, NEW h2, SameTexts(h, h2), NEW from, NEW to, NEW kids,
         IsSeq(kids), ToSet(kids) \subseteq DOMAIN h, Holds(h, from, to, kids)
  PROVE  Holds(h2, from, to, kids)
<1>1. \A k \in DOMAIN kids : kids[k] \in DOMAIN h
  BY DEF ToSet
<1>2. \A k \in DOMAIN kids : h2[kids[k]].position = h[kids[k]].position /\ End(h2, kids[k]) = End(h, kids[k])
  BY <1>1 DEF SameTexts, End
<1>3. ASSUME NEW k \in DOMAIN kids, NEW j \in 1 .. k - 1
      PROVE  End(h2, kids[j]) <= h2[kids[k]].position
  <2>1. Len(kids) \in Nat /\ DOMAIN kids = 1 .. Len(kids)
    BY SeqFacts
  <2>2. j \in DOMAIN kids
    BY <2>1
  <2> QED BY <1>2, <2>2 DEF Holds
<1> QED BY <1>2, <1>3 DEF Holds

(* No nodes fit anywhere, one where it lies.                               *)
LEMMA HoldsFew ==
  ASSUME NEW h, NEW from, NEW to
  PROVE  /\ Holds(h, from, to, <<>>)
         /\ \A v : from <= h[v].position /\ End(h, v) <= to => Holds(h, from, to, <<v>>)
<1>1. \A j \in 1 .. 1 - 1 : FALSE
  OBVIOUS
<1> QED BY <1>1, ShortSeqs DEF Holds

(* What fits side by side fits together.                                   *)
LEMMA HoldsBoth ==
  ASSUME NEW h, HeapOK(h), NEW from \in Nat, NEW mid \in Nat, NEW to \in Nat, from <= mid, mid <= to,
         NEW a, IsSeq(a), ToSet(a) \subseteq DOMAIN h, Holds(h, from, mid, a),
         NEW b, IsSeq(b), ToSet(b) \subseteq DOMAIN h, Holds(h, mid, to, b)
  PROVE  Holds(h, from, to, a \o b)
<1> DEFINE c == a \o b
<1>1. /\ Len(a) \in Nat /\ Len(b) \in Nat /\ DOMAIN a = 1 .. Len(a) /\ DOMAIN b = 1 .. Len(b)
      /\ DOMAIN c = 1 .. Len(a) + Len(b)
      /\ \A k \in 1 .. Len(a) + Len(b) : c[k] = IF k <= Len(a) THEN a[k] ELSE b[k - Len(a)]
  BY SeqFacts, ConcatFacts
<1>2. \A k \in DOMAIN a : a[k] \in DOMAIN h
  BY DEF ToSet
<1>3. \A k \in DOMAIN b : b[k] \in DOMAIN h
  BY DEF ToSet
<1>4. \A i \in DOMAIN h : h[i].position \in Nat /\ End(h, i) \in Nat /\ h[i].position <= End(h, i)
  BY NodeFacts
<1>5. ASSUME NEW k \in DOMAIN a
      PROVE  /\ from <= h[a[k]].position /\ End(h, a[k]) <= mid
             /\ \A j \in 1 .. k - 1 : End(h, a[j]) <= h[a[k]].position
  BY DEF Holds
<1>6. ASSUME NEW k \in DOMAIN b
      PROVE  /\ mid <= h[b[k]].position /\ End(h, b[k]) <= to
             /\ \A j \in 1 .. k - 1 : End(h, b[j]) <= h[b[k]].position
  BY DEF Holds
<1> HIDE DEF c
<1>7. ASSUME NEW k \in DOMAIN c
      PROVE  /\ from <= h[c[k]].position /\ End(h, c[k]) <= to
             /\ \A j \in 1 .. k - 1 : End(h, c[j]) <= h[c[k]].position
  <2>1. CASE k <= Len(a)
    <3>1. k \in DOMAIN a /\ c[k] = a[k] /\ a[k] \in DOMAIN h
      BY <1>1, <1>2, <1>7, <2>1
    <3>2. from <= h[c[k]].position /\ End(h, c[k]) <= mid
      BY <1>5, <3>1
    <3>3. End(h, c[k]) <= to
      BY <1>4, <3>1, <3>2
    <3>4. ASSUME NEW j \in 1 .. k - 1 PROVE End(h, c[j]) <= h[c[k]].position
      <4>1. c[j] = a[j]
        BY <1>1, <1>7, <2>1, <3>4
      <4> QED BY <1>5, <3>1, <3>4, <4>1
    <3> QED BY <3>2, <3>3, <3>4
  <2>2. CASE ~(k <= Len(a))
    <3>1. k - Len(a) \in DOMAIN b /\ c[k] = b[k - Len(a)] /\ b[k - Len(a)] \in DOMAIN h
      BY <1>1, <1>3, <1>7, <2>2
    <3>2. mid <= h[c[k]].position /\ End(h, c[k]) <= to
      BY <1>6, <3>1
    <3>3. from <= h[c[k]].position
      BY <1>4, <3>1, <3>2
    <3>4. ASSUME NEW j \in 1 .. k - 1 PROVE End(h, c[j]) <= h[c[k]].position
      <4>1. CASE j <= Len(a)
        <5>1. j \in DOMAIN a /\ c[j] = a[j] /\ a[j] \in DOMAIN h
          BY <1>1, <1>2, <1>7, <3>4, <4>1
        <5>2. End(h, c[j]) <= mid
          BY <1>5, <5>1
        <5> QED BY <1>4, <3>1, <3>2, <5>1, <5>2
      <4>2. CASE ~(j <= Len(a))
        <5>1. j - Len(a) \in 1 .. (k - Len(a)) - 1 /\ c[j] = b[j - Len(a)]
          BY <1>1, <1>7, <3>4, <4>2
        <5> QED BY <1>6, <3>1, <5>1
      <4> QED BY <4>1, <4>2
    <3> QED BY <3>2, <3>3, <3>4
  <2> QED BY <2>1, <2>2
<1>8. Holds(h, from, to, c)
  BY <1>7 DEF Holds
<1> QED BY <1>8 DEF c

\* h2 is h but for parents, and for nodes that hold nothing any more.
Relabelled(h, h2) ==
  /\ IsSeq(h2) /\ DOMAIN h2 = DOMAIN h
  /\ \A i \in DOMAIN h : /\ IsNode(h2[i]) /\ h2[i].position = h[i].position /\ h2[i].length = h[i].length
                         /\ h2[i].nodes \in {h[i].nodes, <<>>}

(* A new node whose kids fit in its text.                                  *)
LEMMA HeapGrows ==
  ASSUME NEW h, HeapOK(h), NEW h1, Relabelled(h, h1), NEW n, IsNode(n), ToSet(n.nodes) \subseteq DOMAIN h,
         Holds(h, n.position, n.position + n.length, n.nodes)
  PROVE  HeapOK(Append(h1, n)) /\ SameTexts(h, Append(h1, n))
<1> DEFINE h2 == Append(h1, n)  N == Len(h) + 1
<1>1. IsSeq(h) /\ Len(h) \in Nat /\ DOMAIN h = 1 .. Len(h)
  BY SeqFacts DEF HeapOK
<1>2. IsSeq(h1) /\ Len(h1) = Len(h)
  BY <1>1, SeqFacts DEF Relabelled
<1>3. /\ IsSeq(h2) /\ DOMAIN h2 = 1 .. N /\ h2[N] = n
      /\ \A i \in 1 .. Len(h) : h2[i] = h1[i]
  BY <1>2, AppendFacts
<1> HIDE DEF h2
<1>4. SameTexts(h, h2)
  BY <1>1, <1>3 DEF SameTexts, Relabelled
<1>5. \A i \in DOMAIN h2 : i \in DOMAIN h \/ i = N
  BY <1>1, <1>3
<1>6. ASSUME NEW i \in DOMAIN h
      PROVE  IsNode(h2[i]) /\ ToSet(h2[i].nodes) \subseteq DOMAIN h2 /\ Holds(h2, h2[i].position, End(h2, i), h2[i].nodes)
  <2>1. h2[i] = h1[i] /\ IsNode(h2[i]) /\ h2[i].position = h[i].position /\ End(h2, i) = End(h, i)
        /\ (h2[i].nodes = h[i].nodes \/ h2[i].nodes = <<>>)
    BY <1>1, <1>3 DEF Relabelled, End
  <2>2. ToSet(h[i].nodes) \subseteq DOMAIN h /\ IsSeq(h[i].nodes) /\ Holds(h, h[i].position, End(h, i), h[i].nodes)
    BY NodeFacts DEF HeapOK
  <2>3. Holds(h2, h[i].position, End(h, i), h[i].nodes)
    BY <1>4, <2>2, HoldsKept
  <2>4. DOMAIN h \subseteq DOMAIN h2
    BY <1>4 DEF SameTexts
  <2> QED BY <2>1, <2>2, <2>3, <2>4, HoldsFew, ShortSeqs
<1>7. IsNode(h2[N]) /\ ToSet(h2[N].nodes) \subseteq DOMAIN h2 /\ Holds(h2, h2[N].position, End(h2, N), h2[N].nodes)
  <2>1. IsSeq(n.nodes)
    BY DEF IsNode
  <2>2. Holds(h2, n.position, n.position + n.length, n.nodes)
    BY <1>4, <2>1, HoldsKept
  <2> QED BY <1>3, <1>4, <2>2 DEF SameTexts, End
<1>8. HeapOK(h2)
  BY <1>3, <1>5, <1>6, <1>7 DEF HeapOK, Nested
<1> QED BY <1>4, <1>8 DEF h2

(* Setting a parent keeps a node.                                          *)
LEMMA ParentSet ==
  ASSUME NEW n, IsNode(n), NEW p, NEW m, m = [n EXCEPT !.parent = p]
  PROVE  /\ IsNode(m) /\ m.parent = p /\ m.position = n.position /\ m.length = n.length
         /\ m.nodes = n.nodes /\ m.name = n.name
BY DEF IsNode

(* Adoption sets the parents of the kids.                                  *)
LEMMA AdoptFacts ==
  ASSUME NEW h, HeapOK(h), NEW kids, NEW id
  PROVE  /\ Relabelled(h, Adopt(h, kids, id))
         /\ \A i \in DOMAIN h :
              /\ Adopt(h, kids, id)[i].nodes = h[i].nodes /\ Adopt(h, kids, id)[i].name = h[i].name
              /\ Adopt(h, kids, id)[i].parent = IF i \in ToSet(kids) THEN id ELSE h[i].parent
              /\ i \notin ToSet(kids) => Adopt(h, kids, id)[i] = h[i]
<1> DEFINE a == Adopt(h, kids, id)
<1>1. Len(h) \in Nat /\ DOMAIN h = 1 .. Len(h)
  BY SeqFacts DEF HeapOK
<1>2. a = [i \in 1 .. Len(h) |-> IF i \in ToSet(kids) THEN [h[i] EXCEPT !.parent = id] ELSE h[i]]
  BY <1>1 DEF Adopt
<1>3. IsSeq(a) /\ DOMAIN a = DOMAIN h
  <2>1. a = [i \in 1 .. Len(h) |-> a[i]]
    BY <1>2
  <2>2. IsSeq(a)
    BY <1>1, <2>1, FunctionIsSeq
  <2> QED BY <1>1, <2>1, <2>2
<1>4. ASSUME NEW i \in DOMAIN h
      PROVE  /\ IsNode(a[i]) /\ a[i].position = h[i].position /\ a[i].length = h[i].length
             /\ a[i].nodes = h[i].nodes /\ a[i].name = h[i].name
             /\ a[i].parent = IF i \in ToSet(kids) THEN id ELSE h[i].parent
             /\ i \notin ToSet(kids) => a[i] = h[i]
  <2>1. IsNode(h[i])
    BY DEF HeapOK
  <2>2. a[i] = IF i \in ToSet(kids) THEN [h[i] EXCEPT !.parent = id] ELSE h[i]
    BY <1>1, <1>2
  <2> QED BY <2>1, <2>2, ParentSet
<1>5. Relabelled(h, a)
  BY <1>3, <1>4 DEF Relabelled
<1> HIDE DEF a
<1>6. a = Adopt(h, kids, id)
  BY DEF a
<1> QED BY <1>4, <1>5, <1>6

----------------------------------------------------------------------------
(* The stack of a parse.                                                   *)

(* Where the innermost call stands.                                        *)
LEMMA BaseFacts ==
  ASSUME NEW h, NEW s, NEW c, StackOK(h, s, c)
  PROVE  /\ IsSeq(s) /\ Len(s) \in Nat /\ DOMAIN s = 1 .. Len(s) /\ Base(s) \in Nat
         /\ c.do = "call" => c = Call(c.node, c.pos) /\ c.pos = Base(s)
         /\ c.do = "return" => IsResult(h, c, Base(s))
         /\ s # <<>> => /\ Last(s) = s[Len(s)] /\ Len(s) >= 1 /\ IsFrame(h, Last(s))
                        /\ Base(s) = Last(s).pos + Last(s).i
<1>1. IsSeq(s) /\ Len(s) \in Nat /\ DOMAIN s = 1 .. Len(s) /\ (s = <<>> <=> Len(s) = 0)
  BY SeqFacts DEF StackOK
<1>2. ASSUME s # <<>>
      PROVE  /\ Last(s) = s[Len(s)] /\ Len(s) >= 1 /\ IsFrame(h, Last(s))
             /\ Base(s) = Last(s).pos + Last(s).i
  BY <1>1, <1>2 DEF StackOK, Last, Base, Standing
<1>3. Base(s) \in Nat
  <2>1. CASE s = <<>>
    BY <2>1 DEF Base
  <2>2. CASE s # <<>>
    BY <1>2, <2>2 DEF IsFrame
  <2> QED BY <2>1, <2>2
<1>4. /\ c.do = "call" => c = Call(c.node, c.pos) /\ c.pos = Base(s)
      /\ c.do = "return" => IsResult(h, c, Base(s))
  BY DEF StackOK, IsControl
<1> QED BY <1>1, <1>2, <1>3, <1>4

(* An operator without a frame answers.                                    *)
LEMMA AnswerOK ==
  ASSUME NEW h, NEW s, NEW c, StackOK(h, s, c), c.do = "call", NEW r, IsResult(h, r, c.pos)
  PROVE  StackOK(h, s, r)
<1>1. r.do = "return"
  BY DEF IsResult, Return
<1>2. IsControl(h, s, r)
  BY <1>1, BaseFacts DEF IsControl
<1> QED BY <1>2 DEF StackOK

(* An operator calls its first operand.                                    *)
LEMMA EnterOK ==
  ASSUME NEW h, NEW s, NEW c, StackOK(h, s, c), c.do = "call", NEW e
  PROVE  StackOK(h, Append(s, Frame(c.node, c.pos)), Call(e, c.pos))
<1> DEFINE f == Frame(c.node, c.pos)  t == Append(s, f)  d == Call(e, c.pos)
<1>1. IsSeq(s) /\ Len(s) \in Nat /\ DOMAIN s = 1 .. Len(s) /\ c.pos \in Nat /\ c.pos = Base(s)
  BY BaseFacts
<1>2. /\ IsSeq(t) /\ t # <<>> /\ Len(t) = Len(s) + 1 /\ DOMAIN t = 1 .. Len(s) + 1
      /\ Last(t) = f /\ t[Len(s) + 1] = f /\ \A k \in 1 .. Len(s) : t[k] = s[k]
  BY <1>1, AppendFacts
<1>3. /\ f.pos = c.pos /\ f.i = 0 /\ f.k = 1 /\ f.vals = <<>>
      /\ f = [node |-> f.node, pos |-> f.pos, i |-> f.i, k |-> f.k, vals |-> f.vals, toks |-> f.toks]
  BY DEF Frame
<1>4. IsFrame(h, f)
  <2>1. IsSeq(f.vals) /\ ToSet(f.vals) \subseteq DOMAIN h /\ Holds(h, f.pos, Standing(f), f.vals)
    BY <1>3, ShortSeqs, HoldsFew
  <2> HIDE DEF f
  <2> QED BY <1>1, <1>3, <2>1 DEF IsFrame
<1>5. d.do = "call" /\ d = Call(d.node, d.pos) /\ d.pos = c.pos
  BY DEF Call
<1> HIDE DEF f, t, d
<1>6. Base(t) = c.pos
  BY <1>1, <1>2, <1>3 DEF Base, Standing
<1>7. IsControl(h, t, d)
  BY <1>5, <1>6 DEF IsControl
<1>8. \A k \in DOMAIN t : IsFrame(h, t[k])
  <2>1. \A k \in 1 .. Len(s) : IsFrame(h, s[k])
    BY <1>1 DEF StackOK
  <2> QED BY <1>1, <1>2, <1>4, <2>1
<1>9. ASSUME NEW k \in 2 .. Len(t) PROVE t[k].pos = Standing(t[k - 1])
  <2>1. CASE k = Len(s) + 1
    <3>1. t[k - 1] = s[Len(s)] /\ s # <<>> /\ t[k] = f
      BY <1>1, <1>2, <1>9, <2>1, SeqFacts
    <3>2. Base(s) = Standing(s[Len(s)])
      BY <3>1, BaseFacts DEF Base
    <3> QED BY <1>1, <1>3, <3>1, <3>2
  <2>2. CASE k # Len(s) + 1
    <3>1. k \in 2 .. Len(s) /\ t[k] = s[k] /\ t[k - 1] = s[k - 1]
      BY <1>1, <1>2, <1>9, <2>2
    <3> QED BY <3>1 DEF StackOK
  <2> QED BY <2>1, <2>2
<1>10. t[1].pos = 0
  <2>1. CASE s = <<>>
    BY <1>1, <1>2, <1>3, <2>1, SeqFacts DEF Base
  <2>2. CASE s # <<>>
    <3>1. 1 \in 1 .. Len(s) /\ s[1].pos = 0
      BY <1>1, <2>2, SeqFacts DEF StackOK
    <3> QED BY <1>2, <3>1
  <2> QED BY <2>1, <2>2
<1>11. StackOK(h, t, d)
  BY <1>2, <1>7, <1>8, <1>9, <1>10 DEF StackOK
<1> QED BY <1>11 DEF f, t, d

(* A frame goes on to another operand.                                     *)
LEMMA ResumeOK ==
  ASSUME NEW h, NEW s, NEW c, StackOK(h, s, c), s # <<>>, NEW f, IsFrame(h, f), f.pos = Last(s).pos, NEW e
  PROVE  StackOK(h, SetTop(s, f), Call(e, Standing(f)))
<1> DEFINE t == SetTop(s, f)  d == Call(e, Standing(f))
<1>1. IsSeq(s) /\ Len(s) \in Nat /\ DOMAIN s = 1 .. Len(s) /\ Len(s) >= 1 /\ Last(s) = s[Len(s)]
  BY BaseFacts
<1>2. d.do = "call" /\ d = Call(d.node, d.pos) /\ d.pos = Standing(f)
  BY DEF Call
<1> HIDE DEF t, d
<1>3. /\ IsSeq(t) /\ t # <<>> /\ Len(t) = Len(s) /\ DOMAIN t = 1 .. Len(s) /\ Last(t) = f
      /\ t[Len(s)] = f /\ \A k \in 1 .. Len(s) - 1 : t[k] = s[k]
  BY <1>1, TopFacts DEF t
<1>4. IsControl(h, t, d)
  BY <1>3, <1>2 DEF IsControl, Base
<1>5. ASSUME NEW k \in DOMAIN t PROVE IsFrame(h, t[k])
  <2>1. k = Len(s) \/ (k \in 1 .. Len(s) - 1 /\ k \in DOMAIN s)
    BY <1>1, <1>3, <1>5
  <2> QED BY <1>3, <2>1 DEF StackOK
<1>6. ASSUME NEW k \in 2 .. Len(t) PROVE t[k].pos = Standing(t[k - 1])
  <2>1. t[k].pos = s[k].pos /\ t[k - 1] = s[k - 1] /\ k \in 2 .. Len(s)
    <3> Len(t) = Len(s) /\ Len(s) \in Nat
      BY <1>1, <1>3
    <3>1. k = Len(s) \/ k \in 1 .. Len(s) - 1
      OBVIOUS
    <3>2. k - 1 \in 1 .. Len(s) - 1
      BY <1>1, <1>3, <1>6
    <3> QED BY <1>1, <1>3, <1>6, <3>1, <3>2
  <2> QED BY <2>1 DEF StackOK
<1>7. t[1].pos = 0
  <2>1. s[1].pos = 0 /\ (Len(s) = 1 \/ 1 \in 1 .. Len(s) - 1)
    BY <1>1 DEF StackOK
  <2> QED BY <1>1, <1>3, <2>1
<1>8. StackOK(h, t, d)
  BY <1>3, <1>4, <1>5, <1>6, <1>7 DEF StackOK
<1> QED BY <1>8 DEF t, d

(* A frame returns.                                                        *)
LEMMA LeaveOK ==
  ASSUME NEW h, NEW s, NEW c, StackOK(h, s, c), s # <<>>, NEW r, IsResult(h, r, Last(s).pos)
  PROVE  StackOK(h, Front(s), r)
<1> DEFINE t == Front(s)
<1>1. IsSeq(s) /\ Len(s) \in Nat /\ DOMAIN s = 1 .. Len(s) /\ Len(s) >= 1 /\ Last(s) = s[Len(s)]
  BY BaseFacts
<1>2. /\ IsSeq(t) /\ Len(t) = Len(s) - 1 /\ DOMAIN t = 1 .. Len(s) - 1
      /\ \A k \in 1 .. Len(s) - 1 : t[k] = s[k]
  BY <1>1, FrontFacts
<1> HIDE DEF t
<1>3. Base(t) = Last(s).pos
  <2>1. CASE t = <<>>
    <3>1. Len(t) = 0 /\ Len(s) = 1
      BY <1>1, <1>2, <2>1, ShortSeqs
    <3>2. Last(s).pos = 0
      BY <1>1, <3>1 DEF StackOK
    <3> QED BY <2>1, <3>2 DEF Base
  <2>2. CASE t # <<>>
    <3>1. Len(s) - 1 >= 1
      BY <1>1, <1>2, <2>2, SeqFacts
    <3>2. Last(t) = s[Len(s) - 1]
      BY <1>1, <1>2, <3>1 DEF Last
    <3>3. s[Len(s)].pos = Standing(s[Len(s) - 1])
      BY <1>1, <3>1 DEF StackOK
    <3> QED BY <1>1, <2>2, <3>2, <3>3 DEF Base
  <2> QED BY <2>1, <2>2
<1>4. IsControl(h, t, r)
  BY <1>3 DEF IsControl, IsResult, Return
<1>5. \A k \in DOMAIN t : IsFrame(h, t[k])
  BY <1>1, <1>2 DEF StackOK
<1>6. ASSUME NEW k \in 2 .. Len(t) PROVE t[k].pos = Standing(t[k - 1])
  <2>1. t[k] = s[k] /\ t[k - 1] = s[k - 1] /\ k \in 2 .. Len(s)
    BY <1>1, <1>2, <1>6
  <2> QED BY <2>1 DEF StackOK
<1>7. t # <<>> => t[1].pos = 0
  <2>1. t # <<>> => 1 \in 1 .. Len(s) - 1
    BY <1>1, <1>2, SeqFacts
  <2> QED BY <1>1, <1>2, <2>1 DEF StackOK
<1>8. StackOK(h, t, r)
  BY <1>2, <1>4, <1>5, <1>6, <1>7 DEF StackOK
<1> QED BY <1>8 DEF t

(* What an operator gave and what a frame keeps stay in a heap that grows. *)
LEMMA ResultGrows ==
  ASSUME NEW h, NEW h2, SameTexts(h, h2), NEW r, NEW p, IsResult(h, r, p)
  PROVE  IsResult(h2, r, p)
<1>1. /\ r = Return(r.len, r.vals, r.toks) /\ r.len \in Nat \cup {Fail} /\ IsSeq(r.vals)
      /\ ToSet(r.vals) \subseteq DOMAIN h2 /\ (r.len = Fail => r.vals = <<>>)
  BY DEF IsResult, SameTexts
<1>2. ASSUME r.len # Fail PROVE Holds(h2, p, p + r.len, r.vals)
  BY <1>2, HoldsKept DEF IsResult
<1> QED BY <1>1, <1>2 DEF IsResult

(* A stack of frames stays one when nodes and parents are added to the    *)
(* heap.                                                                   *)
LEMMA StackGrows ==
  ASSUME NEW h, NEW h2, SameTexts(h, h2), NEW s, NEW c, StackOK(h, s, c)
  PROVE  StackOK(h2, s, c)
<1>1. ASSUME NEW k \in DOMAIN s PROVE IsFrame(h2, s[k])
  <2>1. IsFrame(h, s[k])
    BY DEF StackOK
  <2>2. Holds(h2, s[k].pos, Standing(s[k]), s[k].vals)
    BY <2>1, HoldsKept DEF IsFrame
  <2>3. ToSet(s[k].vals) \subseteq DOMAIN h2
    BY <2>1 DEF IsFrame, SameTexts
  <2> QED BY <2>1, <2>2, <2>3 DEF IsFrame
<1>2. IsControl(h2, s, c)
  BY ResultGrows DEF StackOK, IsControl
<1> QED BY <1>1, <1>2 DEF StackOK

(* An operator that gave no nodes.                                         *)
LEMMA NothingIs ==
  ASSUME NEW h, NEW p
  PROVE  /\ \A m \in Nat \cup {Fail} : IsResult(h, Nothing(m), p) /\ ToSet(Nothing(m).vals) = {}
         /\ IsResult(h, Failure, p) /\ ToSet(Failure.vals) = {}
<1>1. ASSUME NEW m \in Nat \cup {Fail} PROVE IsResult(h, Nothing(m), p) /\ ToSet(Nothing(m).vals) = {}
  <2>1. Nothing(m) = Return(Nothing(m).len, Nothing(m).vals, Nothing(m).toks) /\ Nothing(m).len = m /\ Nothing(m).vals = <<>>
    BY DEF Nothing, Return
  <2> QED BY <2>1, ShortSeqs, HoldsFew DEF IsResult
<1>2. Failure = Nothing(Fail)
  BY DEF Failure, Nothing
<1> QED BY <1>1, <1>2

(* A frame that returns what it has.                                       *)
LEMMA GaveIs ==
  ASSUME NEW h, NEW f, IsFrame(h, f)
  PROVE  IsResult(h, Gave(f), f.pos) /\ Gave(f).vals = f.vals
<1>1. Gave(f) = Return(Gave(f).len, Gave(f).vals, Gave(f).toks) /\ Gave(f).len = f.i /\ Gave(f).vals = f.vals
  BY DEF Gave, Return
<1>2. f.i \in Nat /\ f.i # Fail
  BY DEF IsFrame, Fail
<1> QED BY <1>1, <1>2 DEF IsResult, IsFrame, Standing

(* A frame whose operand has matched has what that gave, too.              *)
LEMMA AfterIs ==
  ASSUME NEW h, HeapOK(h), StackOK(h, frames, ctl), frames # <<>>, ctl.do = "return", ctl.len # Fail,
         top.node.op \in {"seq", "rep"}
  PROVE  /\ IsFrame(h, After) /\ After.pos = top.pos
         /\ ToSet(After.vals) = ToSet(top.vals) \cup ToSet(ctl.vals)
<1> DEFINE f == top  a == After
<1>1. IsFrame(h, f) /\ IsResult(h, ctl, f.pos + f.i)
  BY BaseFacts DEF top
<1>2. /\ f = [node |-> f.node, pos |-> f.pos, i |-> f.i, k |-> f.k, vals |-> f.vals, toks |-> f.toks]
      /\ f.pos \in Nat /\ f.i \in Nat /\ f.k \in Nat /\ IsSeq(f.vals) /\ ToSet(f.vals) \subseteq DOMAIN h
      /\ Holds(h, f.pos, f.pos + f.i, f.vals)
  BY <1>1 DEF IsFrame, Standing
<1>3. /\ ctl.len \in Nat /\ IsSeq(ctl.vals) /\ ToSet(ctl.vals) \subseteq DOMAIN h
      /\ Holds(h, f.pos + f.i, (f.pos + f.i) + ctl.len, ctl.vals)
  BY <1>1 DEF IsResult
<1>4. a = [f EXCEPT !.i = @ + ctl.len, !.k = @ + 1, !.vals = @ \o ctl.vals, !.toks = @ \o ctl.toks]
  BY DEF After
<1> HIDE DEF f, a
<1>5. /\ a = [node |-> f.node, pos |-> f.pos, i |-> f.i + ctl.len, k |-> f.k + 1,
              vals |-> f.vals \o ctl.vals, toks |-> f.toks \o ctl.toks]
  BY <1>2, <1>4
<1>6. /\ a.node = f.node /\ a.pos = f.pos /\ a.i = f.i + ctl.len /\ a.k = f.k + 1 /\ a.vals = f.vals \o ctl.vals
      /\ a = [node |-> a.node, pos |-> a.pos, i |-> a.i, k |-> a.k, vals |-> a.vals, toks |-> a.toks]
  BY <1>5
<1>7. IsSeq(a.vals) /\ ToSet(a.vals) = ToSet(f.vals) \cup ToSet(ctl.vals)
  BY <1>2, <1>3, <1>6, ConcatFacts
<1>8. Holds(h, f.pos, (f.pos + f.i) + ctl.len, f.vals \o ctl.vals)
  <2> DEFINE mid == f.pos + f.i  to == mid + ctl.len
  <2>1. f.pos \in Nat /\ mid \in Nat /\ to \in Nat /\ f.pos <= mid /\ mid <= to
    BY <1>2, <1>3
  <2>2. Holds(h, f.pos, mid, f.vals) /\ Holds(h, mid, to, ctl.vals)
    BY <1>2, <1>3
  <2> HIDE DEF mid, to
  <2>3. Holds(h, f.pos, to, f.vals \o ctl.vals)
    BY <1>2, <1>3, <2>1, <2>2, HoldsBoth
  <2> QED BY <2>3 DEF mid, to
<1>9. Holds(h, a.pos, Standing(a), a.vals)
  <2>1. (f.pos + f.i) + ctl.len = Standing(a)
    BY <1>2, <1>3, <1>6 DEF Standing
  <2> QED BY <1>6, <1>8, <2>1
<1>10. a.pos \in Nat /\ a.i \in Nat /\ a.k \in Nat /\ ToSet(a.vals) \subseteq DOMAIN h
  BY <1>2, <1>3, <1>6, <1>7
<1>11. f.node.op \in {"seq", "rep"}
  BY DEF f
<1>12. IsFrame(h, a)
  BY <1>6, <1>7, <1>9, <1>10, <1>11 DEF IsFrame
<1> QED BY <1>6, <1>7, <1>12 DEF f, a

----------------------------------------------------------------------------
(* A step of a parse that makes no node: an operator answers or calls its  *)
(* operand, and a frame goes on or returns, with what it was given.        *)
Brings(vals) == ToSet(vals) \subseteq ToSet(top.vals) \cup ToSet(ctl.vals)
Answers(h) ==
  /\ ctl.do = "call" /\ frames' = frames /\ IsResult(h, ctl', ctl.pos)
  /\ ~job.packrat => ToSet(ctl'.vals) = {}
Enters == ctl.do = "call" /\ \E e : Enter(e)
Resumes(h) ==
  /\ ctl.do = "return" /\ frames # <<>>
  /\ \E f, e : IsFrame(h, f) /\ f.pos = top.pos /\ Brings(f.vals) /\ Resume(f, e)
Leaves(h) ==
  /\ ctl.do = "return" /\ frames # <<>>
  /\ frames' = Front(frames) /\ IsResult(h, ctl', top.pos) /\ Brings(ctl'.vals)
Moves(h) == Answers(h) \/ Enters \/ Resumes(h) \/ Leaves(h)

(* The operators' steps are such steps.                                    *)
LEMMA ResumingFacts ==
  ASSUME NEW h, StackOK(h, frames, ctl), NEW op, Resuming(op)
  PROVE  /\ ctl.do = "return" /\ frames # <<>> /\ top.node.op = op /\ IsFrame(h, top)
         /\ IsResult(h, ctl, Standing(top))
         /\ op \notin {"seq", "rep"} => IsResult(h, ctl, top.pos)
<1>1. ctl.do = "return" /\ frames # <<>> /\ top.node.op = op
  BY DEF Resuming, top
<1>2. IsFrame(h, top) /\ IsResult(h, ctl, top.pos + top.i)
  BY <1>1, BaseFacts DEF top
<1>3. op \notin {"seq", "rep"} => top.pos + top.i = top.pos
  BY <1>1, <1>2 DEF IsFrame
<1> QED BY <1>1, <1>2, <1>3 DEF Standing

(* An operator that yields no node, however it ends, leaves as an operator *)
(* may.                                                                    *)
LEMMA NothingLeaves ==
  ASSUME NEW h, ctl.do = "return", frames # <<>>, NEW m \in Nat \cup {Fail}
  PROVE  Leave(Nothing(m)) => Leaves(h)
BY NothingIs DEF Leave, Leaves, Brings

(* So does one that fails.                                                 *)
LEMMA FailureLeaves ==
  ASSUME NEW h, ctl.do = "return", frames # <<>>
  PROVE  Leave(Failure) => Leaves(h)
BY NothingIs DEF Leave, Leaves, Brings

(* A step of any operator moves as an operator may.                        *)
LEMMA CombinatorMoves ==
  ASSUME NEW h, HeapOK(h), StackOK(h, frames, ctl), Combinator
  PROVE  Moves(h)
<1>1. CASE Match
  <2>1. ctl.do = "call"
    BY <1>1 DEF Match, Entering
  <2>2. \A m \in Matches(node, ctl.pos) : m \in Nat
    BY DEF Matches
  <2>3. frames' = frames /\ \E m \in Nat \cup {Fail} : ctl' = Nothing(m)
    BY <1>1, <2>2 DEF Match, Answer, Failure, Nothing
  <2> QED BY <2>1, <2>3, NothingIs DEF Moves, Answers
<1>2. CASE SequenceEnter
  <2>1. ctl.do = "call"
    BY <1>2 DEF SequenceEnter, Entering
  <2>2. CASE node.kids = <<>>
    <3>1. frames' = frames /\ ctl' = Nothing(0)
      BY <1>2, <2>2 DEF SequenceEnter, Answer
    <3> QED BY <2>1, <3>1, NothingIs DEF Moves, Answers
  <2>3. CASE node.kids # <<>>
    BY <1>2, <2>1, <2>3 DEF SequenceEnter, Moves, Enters
  <2> QED BY <2>2, <2>3
<1>3. CASE SequenceResume
  <2>1. ctl.do = "return" /\ frames # <<>> /\ top.node.op = "seq"
    BY <1>3, ResumingFacts DEF SequenceResume
  <2>2. CASE ctl.len = Fail
    BY <1>3, <2>1, <2>2, FailureLeaves DEF SequenceResume, Moves
  <2>3. CASE ctl.len # Fail
    <3>1. IsFrame(h, After) /\ After.pos = top.pos /\ Brings(After.vals)
      BY <2>1, <2>3, AfterIs DEF Brings
    <3>2. IsResult(h, Gave(After), top.pos) /\ Brings(Gave(After).vals)
      BY <3>1, GaveIs
    <3>3. CASE top.k = Len(top.node.kids)
      BY <1>3, <2>1, <2>3, <3>2, <3>3 DEF SequenceResume, Leave, Moves, Leaves
    <3>4. CASE top.k # Len(top.node.kids)
      BY <1>3, <2>1, <2>3, <3>1, <3>4 DEF SequenceResume, Moves, Resumes
    <3> QED BY <3>3, <3>4
  <2> QED BY <2>2, <2>3
<1>4. CASE ChoiceEnter
  BY <1>4 DEF ChoiceEnter, Entering, Moves, Enters
<1>5. CASE ChoiceResume
  <2>1. /\ ctl.do = "return" /\ frames # <<>> /\ top.node.op = "cho" /\ IsFrame(h, top)
        /\ IsResult(h, ctl, top.pos)
    BY <1>5, ResumingFacts DEF ChoiceResume
  <2>2. CASE ctl.len # Fail
    BY <1>5, <2>1, <2>2 DEF ChoiceResume, Leave, Moves, Leaves, Brings
  <2>3. CASE ctl.len = Fail /\ top.k = Len(top.node.kids)
    BY <1>5, <2>1, <2>3, FailureLeaves DEF ChoiceResume, Moves
  <2>4. CASE ctl.len = Fail /\ top.k # Len(top.node.kids)
    <3> DEFINE f == [top EXCEPT !.k = @ + 1]
    <3>1. /\ f = [node |-> f.node, pos |-> f.pos, i |-> f.i, k |-> f.k, vals |-> f.vals, toks |-> f.toks]
          /\ f.node = top.node /\ f.pos = top.pos /\ f.i = top.i /\ f.k = top.k + 1 /\ f.vals = top.vals
      BY <2>1 DEF IsFrame
    <3>2. \E e : Resume(f, e)
      BY <1>5, <2>4 DEF ChoiceResume
    <3> HIDE DEF f
    <3>3. IsFrame(h, f) /\ Brings(f.vals)
      BY <2>1, <3>1 DEF IsFrame, Brings, Standing
    <3> QED BY <2>1, <3>1, <3>2, <3>3 DEF Moves, Resumes
  <2> QED BY <2>2, <2>3, <2>4
<1>6. CASE RepetitionEnter
  <2>1. ctl.do = "call"
    BY <1>6 DEF RepetitionEnter, Entering
  <2>2. CASE Saturated(node, 0)
    <3>1. frames' = frames /\ ctl' = Nothing(0)
      BY <1>6, <2>2 DEF RepetitionEnter, Answer
    <3> QED BY <2>1, <3>1, NothingIs DEF Moves, Answers
  <2>3. CASE ~Saturated(node, 0)
    BY <1>6, <2>1, <2>3 DEF RepetitionEnter, Moves, Enters
  <2> QED BY <2>2, <2>3
<1>7. CASE RepetitionResume
  <2>1. ctl.do = "return" /\ frames # <<>> /\ top.node.op = "rep" /\ IsFrame(h, top)
    BY <1>7, ResumingFacts DEF RepetitionResume
  <2>2. CASE ctl.len = Fail
    <3>1. IsResult(h, Gave(top), top.pos) /\ Brings(Gave(top).vals)
      BY <2>1, GaveIs DEF Brings
    <3>2. CASE top.k - 1 < top.node.min
      BY <1>7, <2>1, <2>2, <3>2, FailureLeaves DEF RepetitionResume, Moves
    <3>3. CASE ~(top.k - 1 < top.node.min)
      BY <1>7, <2>1, <2>2, <3>1, <3>3 DEF RepetitionResume, Leave, Moves, Leaves
    <3> QED BY <3>2, <3>3
  <2>3. CASE ctl.len # Fail
    <3>1. IsFrame(h, After) /\ After.pos = top.pos /\ Brings(After.vals)
      BY <2>1, <2>3, AfterIs DEF Brings
    <3>2. IsResult(h, Gave(After), top.pos) /\ Brings(Gave(After).vals)
      BY <3>1, GaveIs
    <3>3. CASE Saturated(top.node, top.k)
      BY <1>7, <2>1, <2>3, <3>2, <3>3 DEF RepetitionResume, Leave, Moves, Leaves
    <3>4. CASE ~Saturated(top.node, top.k)
      BY <1>7, <2>1, <2>3, <3>1, <3>4 DEF RepetitionResume, Moves, Resumes
    <3> QED BY <3>3, <3>4
  <2> QED BY <2>2, <2>3
<1>8. CASE UnaryEnter
  BY <1>8 DEF UnaryEnter, Entering, Moves, Enters
<1>9. CASE AndResume
  <2>1. ctl.do = "return" /\ frames # <<>>
    BY <1>9, ResumingFacts DEF AndResume
  <2>2. Leave(Failure) \/ Leave(Nothing(0))
    BY <1>9 DEF AndResume
  <2> QED BY <2>1, <2>2, NothingLeaves, FailureLeaves DEF Moves
<1>10. CASE NotResume
  <2>1. ctl.do = "return" /\ frames # <<>>
    BY <1>10, ResumingFacts DEF NotResume
  <2>2. Leave(Failure) \/ Leave(Nothing(0))
    BY <1>10 DEF NotResume
  <2> QED BY <2>1, <2>2, NothingLeaves, FailureLeaves DEF Moves
<1>11. CASE IgnoreResume
  <2>1. ctl.do = "return" /\ frames # <<>> /\ IsResult(h, ctl, Standing(top))
    BY <1>11, ResumingFacts DEF IgnoreResume
  <2>2. ctl.len \in Nat \cup {Fail}
    BY <2>1 DEF IsResult
  <2> QED BY <1>11, <2>1, <2>2, NothingLeaves DEF IgnoreResume, Moves
<1>12. CASE TokenResume
  <2>1. ctl.do = "return" /\ frames # <<>> /\ IsResult(h, ctl, top.pos)
    BY <1>12, ResumingFacts DEF TokenResume
  <2>2. CASE ctl.len = Fail
    BY <1>12, <2>1, <2>2, FailureLeaves DEF TokenResume, Moves
  <2>3. CASE ctl.len # Fail
    <3> DEFINE r == [ctl EXCEPT !.toks = Append(@, <<top.pos, ctl.len>>)]
    <3>1. ctl = Return(ctl.len, ctl.vals, ctl.toks)
      BY <2>1 DEF IsResult
    <3>2. r = Return(r.len, r.vals, r.toks) /\ r.len = ctl.len /\ r.vals = ctl.vals
      <4>1. \A m, v, t, x : /\ Return(m, v, t).len = m /\ Return(m, v, t).vals = v /\ Return(m, v, t).toks = t
                            /\ [Return(m, v, t) EXCEPT !.toks = x] = Return(m, v, x)
        BY DEF Return
      <4> DEFINE x == Append(ctl.toks, <<top.pos, ctl.len>>)  m == ctl.len  v == ctl.vals  t == ctl.toks
      <4>2. r = [ctl EXCEPT !.toks = x] /\ ctl = Return(m, v, t)
        BY <3>1
      <4> HIDE DEF r, x, m, v, t
      <4>3. r = Return(m, v, x)
        BY <4>1, <4>2
      <4>4. r.len = m /\ r.vals = v /\ r.toks = x
        BY <4>1, <4>3
      <4> QED BY <4>3, <4>4 DEF m, v
    <3>3. Leave(r)
      BY <1>12, <2>3 DEF TokenResume
    <3> HIDE DEF r
    <3>4. IsResult(h, r, top.pos) /\ Brings(r.vals)
      BY <2>1, <3>2 DEF IsResult, Brings
    <3> QED BY <2>1, <3>3, <3>4 DEF Leave, Moves, Leaves
  <2> QED BY <2>2, <2>3
<1> QED
  BY <1>1, <1>2, <1>3, <1>4, <1>5, <1>6, <1>7, <1>8, <1>9, <1>10, <1>11, <1>12 DEF Combinator

(* Such a step keeps the shape of the stack.                               *)
LEMMA MovesStack ==
  ASSUME NEW h, StackOK(h, frames, ctl), Moves(h)
  PROVE  StackOK(h, frames', ctl')
<1>1. CASE Answers(h)
  BY <1>1, AnswerOK DEF Answers
<1>2. CASE Enters
  BY <1>2, EnterOK DEF Enters, Enter, node
<1>3. CASE Resumes(h)
  <2>1. PICK f, e : IsFrame(h, f) /\ f.pos = top.pos /\ frames' = SetTop(frames, f) /\ ctl' = Call(e, Standing(f))
    BY <1>3 DEF Resumes, Resume
  <2> QED BY <1>3, <2>1, ResumeOK DEF Resumes, top
<1>4. CASE Leaves(h)
  BY <1>4, LeaveOK DEF Leaves, top
<1> QED BY <1>1, <1>2, <1>3, <1>4 DEF Moves

(* Nodes without a parent stay so when the frames pass them on: F says to  *)
(* which level the nodes of each level go.                                 *)
LEMMA LooseFrom ==
  ASSUME NEW h, NEW s, NEW c, Loose(h, s, c), NEW t, NEW d, NEW F,
         \A l \in 1 .. Len(t) + 1 : \A v \in Pending(t, d, l) :
           \E m \in 1 .. Len(s) + 1 : F[m] = l /\ v \in Pending(s, c, m)
  PROVE  Loose(h, t, d)
<1>1. ASSUME NEW l \in 1 .. Len(t) + 1, NEW v \in Pending(t, d, l)
      PROVE  /\ h[v].parent = Nobody
             /\ \A m \in 1 .. Len(t) + 1 : m # l => v \notin Pending(t, d, m)
  <2>1. PICK i \in 1 .. Len(s) + 1 : F[i] = l /\ v \in Pending(s, c, i)
    OBVIOUS
  <2>2. ASSUME NEW m \in 1 .. Len(t) + 1, m # l, v \in Pending(t, d, m) PROVE FALSE
    <3>1. PICK j \in 1 .. Len(s) + 1 : F[j] = m /\ v \in Pending(s, c, j)
      BY <2>2
    <3> QED BY <2>1, <2>2, <3>1 DEF Loose
  <2> QED BY <2>1, <2>2 DEF Loose
<1> QED BY <1>1 DEF Loose

(* A step that makes no node leaves them without a parent.                 *)
LEMMA MovesLoose ==
  ASSUME NEW h, StackOK(h, frames, ctl), Moves(h), ~job.packrat, Loose(h, frames, ctl)
  PROVE  Loose(h, frames', ctl')
<1> DEFINE n == Len(frames)
           F == [m \in 1 .. n + 1 |-> m]
           Merged == [m \in 1 .. n + 1 |-> IF m = n + 1 THEN n ELSE m]
<1>1. IsSeq(frames) /\ n \in Nat /\ DOMAIN frames = 1 .. n /\ (frames # <<>> => n >= 1)
  BY BaseFacts
<1>2. CASE Answers(h)
  <2>1. frames' = frames /\ ToSet(ctl'.vals) = {}
    BY <1>2 DEF Answers
  <2>2. ASSUME NEW l \in 1 .. n + 1, NEW v \in Pending(frames', ctl', l)
        PROVE  \E m \in 1 .. n + 1 : F[m] = l /\ v \in Pending(frames, ctl, m)
    <3>1. l <= n /\ Pending(frames', ctl', l) = Pending(frames, ctl, l)
      BY <1>1, <2>1 DEF Pending
    <3> QED BY <3>1
  <2> HIDE DEF F
  <2> QED BY <2>1, <2>2, LooseFrom
<1>3. CASE Enters
  <2>1. PICK e : frames' = Append(frames, Frame(node, ctl.pos)) /\ ctl' = Call(e, ctl.pos)
    BY <1>3 DEF Enters, Enter
  <2>2. /\ Len(frames') = n + 1 /\ frames'[n + 1].vals = <<>> /\ ctl'.vals = <<>>
        /\ \A k \in 1 .. n : frames'[k] = frames[k]
    BY <1>1, <2>1, AppendFacts DEF Frame, Call
  <2>3. ASSUME NEW l \in 1 .. n + 2, NEW v \in Pending(frames', ctl', l)
        PROVE  \E m \in 1 .. n + 1 : F[m] = l /\ v \in Pending(frames, ctl, m)
    <3>1. CASE l <= n
      <4>1. l \in 1 .. n + 1 /\ Pending(frames', ctl', l) = Pending(frames, ctl, l)
        BY <1>1, <2>2, <3>1 DEF Pending
      <4> QED BY <4>1
    <3>2. CASE ~(l <= n)
      <4>1. Pending(frames', ctl', l) = {}
        BY <1>1, <2>2, <3>2, ShortSeqs DEF Pending
      <4> QED BY <4>1
    <3> QED BY <3>1, <3>2
  <2>4. Len(frames') + 1 = n + 2
    BY <1>1, <2>2
  <2> HIDE DEF F
  <2> QED BY <2>3, <2>4, LooseFrom
<1>4. ASSUME frames # <<>>
      PROVE  /\ Pending(frames, ctl, n) = ToSet(top.vals) /\ Pending(frames, ctl, n + 1) = ToSet(ctl.vals)
             /\ n \in 1 .. n + 1 /\ n + 1 \in 1 .. n + 1 /\ Merged[n] = n /\ Merged[n + 1] = n
  BY <1>1, <1>4 DEF Pending, top, Last
<1>5. ASSUME NEW l, NEW v, frames # <<>>, l = n, NEW vals, Brings(vals), v \in ToSet(vals)
      PROVE  \E m \in 1 .. n + 1 : Merged[m] = l /\ v \in Pending(frames, ctl, m)
  <2>1. v \in ToSet(top.vals) \/ v \in ToSet(ctl.vals)
    BY <1>5 DEF Brings
  <2> HIDE DEF Merged
  <2> QED BY <1>4, <1>5, <2>1
<1>6. ASSUME NEW l \in 1 .. n - 1 PROVE l \in 1 .. n + 1 /\ Merged[l] = l
  <2>1. n \in Nat
    BY <1>1
  <2> HIDE DEF n
  <2>2. l \in 1 .. n + 1 /\ l # n + 1
    BY <1>6, <2>1
  <2> QED BY <2>2
<1>7. CASE Resumes(h)
  <2>1. PICK f, e : Brings(f.vals) /\ frames' = SetTop(frames, f) /\ ctl' = Call(e, Standing(f))
    BY <1>7 DEF Resumes, Resume
  <2>2. /\ Len(frames') = n /\ frames'[n] = f /\ ctl'.vals = <<>> /\ n >= 1 /\ frames # <<>>
        /\ \A k \in 1 .. n - 1 : frames'[k] = frames[k]
    BY <1>1, <1>7, <2>1, TopFacts DEF Resumes, Call
  <2>3. ASSUME NEW l \in 1 .. n + 1, NEW v \in Pending(frames', ctl', l)
        PROVE  \E m \in 1 .. n + 1 : Merged[m] = l /\ v \in Pending(frames, ctl, m)
    <3>1. CASE l \in 1 .. n - 1
      <4>1. v \in Pending(frames, ctl, l)
        BY <1>1, <2>2, <2>3, <3>1 DEF Pending
      <4> QED BY <1>6, <3>1, <4>1
    <3>2. CASE l = n
      <4>1. v \in ToSet(f.vals)
        BY <1>1, <2>2, <2>3, <3>2 DEF Pending
      <4> HIDE DEF Merged
      <4> QED BY <1>5, <2>1, <2>2, <3>2, <4>1
    <3>3. CASE l = n + 1
      <4>1. Pending(frames', ctl', l) = {}
        BY <1>1, <2>2, <3>3, ShortSeqs DEF Pending
      <4> QED BY <4>1
    <3>4. l \in 1 .. n - 1 \/ l = n \/ l = n + 1
      <4>1. n \in Nat
        BY <1>1
      <4> HIDE DEF n
      <4> QED BY <4>1
    <3> QED BY <3>1, <3>2, <3>3, <3>4
  <2> HIDE DEF Merged
  <2> QED BY <2>2, <2>3, LooseFrom
<1>8. CASE Leaves(h)
  <2>1. frames' = Front(frames) /\ frames # <<>> /\ Brings(ctl'.vals)
    BY <1>8 DEF Leaves
  <2>2. /\ Len(frames') = n - 1 /\ n >= 1 /\ \A k \in 1 .. n - 1 : frames'[k] = frames[k]
    BY <1>1, <2>1, FrontFacts
  <2>3. ASSUME NEW l \in 1 .. n, NEW v \in Pending(frames', ctl', l)
        PROVE  \E m \in 1 .. n + 1 : Merged[m] = l /\ v \in Pending(frames, ctl, m)
    <3>1. CASE l \in 1 .. n - 1
      <4>1. v \in Pending(frames, ctl, l)
        BY <1>1, <2>2, <2>3, <3>1 DEF Pending
      <4> QED BY <1>6, <3>1, <4>1
    <3>2. CASE l = n
      <4>1. v \in ToSet(ctl'.vals)
        BY <1>1, <2>2, <2>3, <3>2 DEF Pending
      <4> HIDE DEF Merged
      <4> QED BY <1>5, <2>1, <3>2, <4>1
    <3>3. l \in 1 .. n - 1 \/ l = n
      <4>1. n \in Nat
        BY <1>1
      <4> HIDE DEF n
      <4> QED BY <4>1
    <3> QED BY <3>1, <3>2, <3>3
  <2>4. Len(frames') + 1 = n
    BY <1>1, <2>2
  <2> HIDE DEF Merged
  <2> QED BY <2>3, <2>4, LooseFrom
<1> QED BY <1>2, <1>3, <1>7, <1>8 DEF Moves

----------------------------------------------------------------------------
(* Rules.                                                                  *)

(* What a rule gives its caller is what it gave, or no node of it.         *)
LEMMA EmplacedIs ==
  ASSUME NEW h, NEW name, NEW r, NEW p, IsResult(h, r, p)
  PROVE  IsResult(h, Emplaced(name, r), p) /\ ToSet(Emplaced(name, r).vals) \subseteq ToSet(r.vals)
<1>1. CASE rules[name].ignoreSemanticValue
  <2> DEFINE e == [r EXCEPT !.vals = <<>>]
  <2>1. Emplaced(name, r) = e
    BY <1>1 DEF Emplaced
  <2>2. r = Return(r.len, r.vals, r.toks)
    BY DEF IsResult
  <2>3. e = Return(e.len, e.vals, e.toks) /\ e.len = r.len /\ e.vals = <<>>
    <3>1. \A m, v, t, x : /\ Return(m, v, t).len = m /\ Return(m, v, t).vals = v /\ Return(m, v, t).toks = t
                          /\ [Return(m, v, t) EXCEPT !.vals = x] = Return(m, x, t)
      BY DEF Return
    <3> DEFINE m == r.len  v == r.vals  t == r.toks
    <3>2. r = Return(m, v, t)
      BY <2>2
    <3> HIDE DEF m, v, t
    <3>3. e = Return(m, <<>>, t)
      BY <3>1, <3>2
    <3> HIDE DEF e
    <3>4. e.len = m /\ e.vals = <<>> /\ e.toks = t
      BY <3>1, <3>3
    <3> QED BY <3>3, <3>4 DEF m
  <2> HIDE DEF e
  <2> QED BY <2>1, <2>3, ShortSeqs, HoldsFew DEF IsResult
<1>2. CASE ~rules[name].ignoreSemanticValue
  BY <1>2 DEF Emplaced
<1> QED BY <1>1, <1>2

(* What is memoized is what a rule gave there.                             *)
LEMMA MemoizeIs ==
  ASSUME NEW h, MemoOK(h, memo), NEW q, q[2] \in Nat, NEW r, IsResult(h, r, q[2])
  PROVE  MemoOK(h, Memoize(q, r)) /\ (~job.packrat => Memoize(q, r) = memo)
BY DEF MemoOK, Memoize

(* A rule that starts, or is answered from the memo.                       *)
LEMMA RuleEnterMoves ==
  ASSUME NEW h, StackOK(h, frames, ctl), MemoOK(h, memo), ~job.packrat => DOMAIN memo = {}, RuleEnter
  PROVE  Moves(h) /\ MemoOK(h, memo') /\ (~job.packrat => memo' = memo)
<1>1. ctl.do = "call" /\ ctl.pos \in Nat
  BY BaseFacts DEF RuleEnter, Entering
<1>2. key[2] = ctl.pos
  BY DEF key
<1>3. CASE key \in DOMAIN memo
  <2>1. memo' = memo /\ frames' = frames /\ ctl' = Emplaced(node.name, memo[key])
    BY <1>3 DEF RuleEnter, Answer
  <2>2. IsResult(h, memo[key], ctl.pos) /\ job.packrat
    BY <1>2, <1>3 DEF MemoOK
  <2> QED BY <1>1, <2>1, <2>2, EmplacedIs DEF Moves, Answers
<1>4. CASE key \notin DOMAIN memo
  <2>1. Enter(rules[node.name].body) /\ memo' = Memoize(key, Failure)
    BY <1>4 DEF RuleEnter
  <2> QED BY <1>1, <1>2, <2>1, NothingIs, MemoizeIs DEF Moves, Enters
<1> QED BY <1>3, <1>4

(* add_ast_action: the node that the matched rule makes.                   *)
LEMMA NodeMade ==
  ASSUME HeapOK(heap), NEW name, NEW p \in Nat, NEW b, IsResult(heap, b, p), b.len # Fail
  PROVE  /\ HeapOK(add_ast_action(name, p, b)) /\ SameTexts(heap, add_ast_action(name, p, b))
         /\ Len(heap) \in Nat /\ DOMAIN heap = 1 .. Len(heap)
         /\ DOMAIN add_ast_action(name, p, b) = 1 .. Len(heap) + 1
         /\ Len(add_ast_action(name, p, b)) = Len(heap) + 1
         /\ add_ast_action(name, p, b)[Len(heap) + 1] = NewNode(name, p, b)
         /\ NewNode(name, p, b).position = p /\ NewNode(name, p, b).length = b.len
         /\ NewNode(name, p, b).parent = Nobody
         /\ NewNode(name, p, b).nodes \in {b.vals, <<>>}
         /\ \A i \in DOMAIN heap :
              /\ add_ast_action(name, p, b)[i].nodes = heap[i].nodes
              /\ add_ast_action(name, p, b)[i].parent =
                   IF i \in ToSet(NewNode(name, p, b).nodes) THEN Len(heap) + 1 ELSE heap[i].parent
<1> DEFINE n == NewNode(name, p, b)  h1 == Adopt(heap, n.nodes, Len(heap) + 1)
<1>1. b.len \in Nat /\ IsSeq(b.vals) /\ ToSet(b.vals) \subseteq DOMAIN heap /\ Holds(heap, p, p + b.len, b.vals)
  BY DEF IsResult
<1>2. /\ n = [name |-> n.name, original_name |-> n.original_name, position |-> n.position, length |-> n.length,
              is_token |-> n.is_token, nodes |-> n.nodes, parent |-> n.parent, token |-> n.token,
              preserve_position |-> n.preserve_position]
      /\ n.position = p /\ n.length = b.len /\ n.parent = Nobody /\ n.nodes \in {b.vals, <<>>}
  BY DEF NewNode
<1>3. add_ast_action(name, p, b) = Append(h1, n)
  BY DEF add_ast_action
<1> HIDE DEF n
<1>4. IsNode(n) /\ ToSet(n.nodes) \subseteq DOMAIN heap /\ Holds(heap, n.position, n.position + n.length, n.nodes)
  BY <1>1, <1>2, ShortSeqs, HoldsFew DEF IsNode
<1>5. /\ Relabelled(heap, h1)
      /\ \A i \in DOMAIN heap : /\ h1[i].nodes = heap[i].nodes
                                /\ h1[i].parent = IF i \in ToSet(n.nodes) THEN Len(heap) + 1 ELSE heap[i].parent
  BY AdoptFacts
<1>6. Len(heap) \in Nat /\ DOMAIN heap = 1 .. Len(heap)
  BY SeqFacts DEF HeapOK
<1> HIDE DEF h1
<1>7. IsSeq(h1) /\ Len(h1) = Len(heap)
  BY <1>5, <1>6, SeqFacts DEF Relabelled
<1>8. HeapOK(Append(h1, n)) /\ SameTexts(heap, Append(h1, n))
  BY <1>4, <1>5, HeapGrows
<1>9. /\ DOMAIN Append(h1, n) = 1 .. Len(heap) + 1 /\ Append(h1, n)[Len(heap) + 1] = n
      /\ Len(Append(h1, n)) = Len(heap) + 1
      /\ \A i \in 1 .. Len(heap) : Append(h1, n)[i] = h1[i]
  BY <1>6, <1>7, AppendFacts
<1> QED BY <1>2, <1>3, <1>5, <1>6, <1>8, <1>9 DEF n

(* The kids had no parent: the node's adoption of them takes them from     *)
(* nobody, and the node itself has no parent yet.                          *)
LEMMA NodeIsLoose ==
  ASSUME HeapOK(heap), StackOK(heap, frames, ctl), frames # <<>>, ctl.do = "return", ctl.len # Fail,
         Loose(heap, frames, ctl), LinkedFrom(heap, 0), NEW h, NEW kids,
         kids \subseteq ToSet(ctl.vals), Len(h) = Len(heap) + 1,
         h[Len(heap) + 1].parent = Nobody, ToSet(h[Len(heap) + 1].nodes) = kids,
         \A i \in DOMAIN heap : h[i].nodes = heap[i].nodes /\
                                h[i].parent = IF i \in kids THEN Len(heap) + 1 ELSE heap[i].parent,
         NEW r, ToSet(r.vals) \subseteq {Len(heap) + 1}
  PROVE  Loose(h, Front(frames), r) /\ LinkedFrom(h, 0)
<1> DEFINE n == Len(frames)  N == Len(heap) + 1  s == Front(frames)
<1>1. IsSeq(frames) /\ n \in Nat /\ n >= 1 /\ DOMAIN frames = 1 .. n
  BY BaseFacts
<1>2. Len(s) = n - 1 /\ \A k \in 1 .. n - 1 : s[k] = frames[k]
  BY <1>1, FrontFacts
<1>3. Len(heap) \in Nat /\ DOMAIN heap = 1 .. Len(heap)
  BY SeqFacts DEF HeapOK
<1>4. IsResult(heap, ctl, Base(frames))
  BY BaseFacts
<1>5. ToSet(ctl.vals) \subseteq DOMAIN heap
  BY <1>4 DEF IsResult
<1>6. n + 1 \in 1 .. n + 1 /\ Pending(frames, ctl, n + 1) = ToSet(ctl.vals)
  BY <1>1 DEF Pending
<1>7. \A v \in kids : heap[v].parent = Nobody
  BY <1>6 DEF Loose
<1>8. ASSUME NEW l \in 1 .. n - 1
      PROVE  /\ Pending(s, r, l) = Pending(frames, ctl, l) /\ Pending(s, r, l) \subseteq DOMAIN heap
             /\ l \in 1 .. n + 1 /\ l # n + 1
  <2>1. l <= n - 1 /\ l <= n /\ l \in 1 .. n /\ l \in 1 .. n + 1 /\ l # n + 1
    <3> n \in Nat
      BY <1>1
    <3> HIDE DEF n
    <3> QED OBVIOUS
  <2>2. Pending(s, r, l) = ToSet(frames[l].vals) /\ Pending(frames, ctl, l) = ToSet(frames[l].vals)
    BY <1>2, <2>1 DEF Pending
  <2>3. IsFrame(heap, frames[l])
    BY <1>1, <2>1 DEF StackOK
  <2> QED BY <2>1, <2>2, <2>3 DEF IsFrame
<1>9. Pending(s, r, n) \subseteq {N} /\ N \notin DOMAIN heap
  <2>1. ~(n <= Len(s))
    BY <1>1, <1>2
  <2>2. Pending(s, r, n) = ToSet(r.vals)
    BY <2>1 DEF Pending
  <2> QED BY <1>3, <2>2
<1>10. \A l \in 1 .. n : l \in 1 .. n - 1 \/ l = n
  <2>1. n \in Nat
    BY <1>1
  <2> HIDE DEF n
  <2> QED BY <2>1
<1>11. Len(s) + 1 = n
  BY <1>1, <1>2
<1> HIDE DEF n, N, s
<1>12. ASSUME NEW l \in 1 .. n, NEW v \in Pending(s, r, l)
       PROVE  h[v].parent = Nobody /\ \A m \in 1 .. n : m # l => v \notin Pending(s, r, m)
  <2>1. CASE l \in 1 .. n - 1
    <3>1. v \in Pending(frames, ctl, l) /\ v \in DOMAIN heap /\ l \in 1 .. n + 1 /\ l # n + 1
      BY <1>8, <1>12, <2>1
    <3>2. heap[v].parent = Nobody /\ \A m \in 1 .. n + 1 : m # l => v \notin Pending(frames, ctl, m)
      BY <3>1 DEF Loose, n
    <3>3. v \notin kids
      BY <1>6, <3>1, <3>2
    <3>4. h[v].parent = Nobody
      BY <3>1, <3>2, <3>3
    <3>5. ASSUME NEW m \in 1 .. n, m # l PROVE v \notin Pending(s, r, m)
      BY <1>8, <1>9, <1>10, <3>1, <3>2, <3>5
    <3> QED BY <3>4, <3>5
  <2>2. CASE l = n
    <3>1. v = N /\ h[v].parent = Nobody
      BY <1>9, <1>12, <2>2 DEF N
    <3>2. ASSUME NEW m \in 1 .. n, m # l PROVE v \notin Pending(s, r, m)
      BY <1>8, <1>9, <1>10, <2>2, <3>1, <3>2
    <3> QED BY <3>1, <3>2
  <2> QED BY <1>10, <2>1, <2>2
<1>13. Loose(h, s, r)
  BY <1>11, <1>12 DEF Loose
<1>14. ASSUME NEW i \in 0 + 1 .. Len(h), NEW k \in ToSet(h[i].nodes) PROVE k > 0 /\ h[k].parent = i
  <2>1. i \in DOMAIN heap \/ i = N
    BY <1>3, <1>14 DEF N
  <2>2. CASE i \in DOMAIN heap
    <3>1. k \in ToSet(heap[i].nodes) /\ k \in DOMAIN heap /\ i \in 0 + 1 .. Len(heap)
      BY <1>3, <1>14, <2>2 DEF HeapOK
    <3>2. k > 0 /\ heap[k].parent = i /\ i # Nobody
      BY <3>1, <1>3 DEF LinkedFrom, Nobody
    <3>3. k \notin kids
      BY <1>7, <3>2
    <3> QED BY <3>1, <3>2, <3>3
  <2>3. CASE i = N
    <3>1. k \in kids /\ k \in DOMAIN heap
      BY <1>5, <1>14, <2>3 DEF N
    <3> QED BY <1>3, <2>3, <3>1 DEF N
  <2> QED BY <2>1, <2>2, <2>3
<1>15. LinkedFrom(h, 0)
  BY <1>14 DEF LinkedFrom
<1> QED BY <1>13, <1>15 DEF s

(* A rule that returns: what was parsed so far is kept.                    *)
LEMMA RuleReturnKeeps ==
  ASSUME HeapOK(heap), Parsing, RuleReturn, UNCHANGED <<held, optimizing>>
  PROVE  HeapOK(heap') /\ Parsing'
<1> USE DEF Parsing
<1>1. /\ ctl.do = "return" /\ frames # <<>> /\ IsFrame(heap, top) /\ IsResult(heap, ctl, top.pos)
      /\ job' = job
  BY ResumingFacts DEF RuleReturn
<1>2. doing' = doing /\ asked' = asked
  BY DEF optimizing
<1>3. CASE ctl.len = Fail
  <2>1. Leave(Failure) /\ heap' = heap /\ memo' = memo
    BY <1>3 DEF RuleReturn
  <2>2. Moves(heap)
    BY <1>1, <2>1, FailureLeaves DEF Moves
  <2>3. StackOK(heap, frames', ctl') /\ (~job.packrat => Loose(heap, frames', ctl'))
    BY <2>2, MovesStack, MovesLoose
  <2> QED BY <1>1, <1>2, <2>1, <2>3
<1>4. CASE ctl.len # Fail
  <2> DEFINE name == top.node.name  p == top.pos  N == Len(heap) + 1
             reduced == Return(ctl.len, <<N>>, <<>>)  h == add_ast_action(name, p, ctl)
             q == <<name, p>>  r == Emplaced(name, reduced)  new == NewNode(name, p, ctl)
  <2>1. heap' = h /\ memo' = Memoize(q, reduced) /\ frames' = Front(frames) /\ ctl' = r
    BY <1>4 DEF RuleReturn, Leave
  <2>2. p \in Nat
    BY <1>1 DEF IsFrame
  <2>3. /\ HeapOK(h) /\ SameTexts(heap, h) /\ Len(heap) \in Nat /\ DOMAIN h = 1 .. N /\ Len(h) = N
        /\ h[N] = new /\ new.position = p /\ new.length = ctl.len
        /\ new.parent = Nobody /\ new.nodes \in {ctl.vals, <<>>}
        /\ \A i \in DOMAIN heap : /\ h[i].nodes = heap[i].nodes
                                  /\ h[i].parent = IF i \in ToSet(new.nodes) THEN N ELSE heap[i].parent
    <3>1. ctl.len # Fail /\ IsResult(heap, ctl, p) /\ HeapOK(heap)
      BY <1>1, <1>4
    <3> DEFINE b == ctl
    <3>2. p \in Nat /\ IsResult(heap, b, p) /\ b.len # Fail /\ h = add_ast_action(name, p, b) /\ new = NewNode(name, p, b)
      BY <2>2, <3>1
    <3> HIDE DEF h, new, name, p, b
    <3>3. /\ HeapOK(h) /\ SameTexts(heap, h) /\ Len(heap) \in Nat /\ DOMAIN h = 1 .. N /\ Len(h) = N
          /\ h[N] = new /\ new.position = p /\ new.length = b.len
          /\ new.parent = Nobody /\ new.nodes \in {b.vals, <<>>}
      <4> DEFINE h2 == add_ast_action(name, p, b)  n2 == NewNode(name, p, b)
      <4>1. /\ HeapOK(h2) /\ SameTexts(heap, h2) /\ Len(heap) \in Nat /\ DOMAIN h2 = 1 .. N /\ Len(h2) = N
            /\ h2[N] = n2
        BY <3>1, <3>2, NodeMade
      <4>2. n2.position = p /\ n2.length = b.len /\ n2.parent = Nobody /\ n2.nodes \in {b.vals, <<>>}
        BY DEF NewNode
      <4> HIDE DEF h2, n2
      <4> QED BY <3>2, <4>1, <4>2 DEF h2, n2
    <3>4. ASSUME NEW i \in DOMAIN heap
          PROVE  /\ add_ast_action(name, p, b)[i].nodes = heap[i].nodes
                 /\ add_ast_action(name, p, b)[i].parent =
                      IF i \in ToSet(NewNode(name, p, b).nodes) THEN N ELSE heap[i].parent
      BY <3>1, <3>2, <3>4, NodeMade
    <3> QED BY <3>2, <3>3, <3>4 DEF b
  <2>4. q[2] = p
    OBVIOUS
  <2>5. reduced = Return(reduced.len, reduced.vals, reduced.toks) /\ reduced.len = ctl.len /\ reduced.vals = <<N>>
    BY DEF Return
  <2>6. ctl.len \in Nat
    BY <1>1, <1>4 DEF IsResult
  <2> HIDE DEF h, reduced, new, q, r, name, p
  <2>7. IsResult(h, reduced, p)
    <3>1. N \in DOMAIN h /\ h[N].position = p /\ End(h, N) = p + ctl.len
      BY <2>3 DEF End
    <3>2. IsSeq(<<N>>) /\ ToSet(<<N>>) = {N}
      BY ShortSeqs
    <3>3. p <= h[N].position /\ End(h, N) <= p + ctl.len
      BY <2>2, <2>6, <3>1
    <3> HIDE DEF N
    <3>4. Holds(h, p, p + ctl.len, <<N>>)
      BY <3>3, HoldsFew
    <3> QED BY <1>4, <2>5, <2>6, <3>1, <3>2, <3>4 DEF IsResult
  <2>8. IsResult(h, r, p) /\ ToSet(r.vals) \subseteq {N}
    <3>1. ToSet(reduced.vals) = {N}
      BY <2>5, ShortSeqs
    <3> QED BY <2>7, <3>1, EmplacedIs DEF r
  <2>9. StackOK(h, Front(frames), r)
    <3>1. StackOK(h, frames, ctl)
      BY <2>3, StackGrows
    <3> QED BY <1>1, <2>8, <3>1, LeaveOK DEF top, p
  <2>10. MemoOK(h, memo)
    BY <2>3, ResultGrows DEF MemoOK
  <2>11. MemoOK(h, memo') /\ (~job.packrat => memo' = memo)
    BY <2>1, <2>4, <2>2, <2>7, <2>10, MemoizeIs
  <2>12. ASSUME ~job.packrat PROVE Loose(h, frames', ctl') /\ LinkedFrom(h, 0)
    <3> DEFINE kids == ToSet(new.nodes)
    <3>1. kids \subseteq ToSet(ctl.vals) /\ ToSet(h[N].nodes) = kids /\ h[N].parent = Nobody
      BY <2>3, ShortSeqs
    <3>2. Loose(h, Front(frames), r) /\ LinkedFrom(h, 0)
      BY <1>1, <1>4, <2>3, <2>8, <2>12, <3>1, NodeIsLoose
    <3> QED BY <2>1, <3>2
  <2> QED BY <1>1, <1>2, <2>1, <2>3, <2>9, <2>11, <2>12
<1> QED BY <1>3, <1>4

(* A step of the parse keeps what was parsed so far.                       *)
LEMMA ParseStepKeeps ==
  ASSUME HeapOK(heap), Parsing, ParseStep, UNCHANGED <<held, optimizing>>
  PROVE  HeapOK(heap') /\ Parsing'
<1>1. doing' = doing /\ asked' = asked
  BY DEF optimizing
<1>2. ASSUME Moves(heap), heap' = heap, job' = job, MemoOK(heap, memo'), ~job.packrat => memo' = memo
      PROVE  HeapOK(heap') /\ Parsing'
  <2>1. StackOK(heap, frames', ctl') /\ (~job.packrat => Loose(heap, frames', ctl'))
    BY <1>2, MovesStack, MovesLoose DEF Parsing
  <2> QED BY <1>1, <1>2, <2>1 DEF Parsing
<1>3. CASE Combinator
  <2>1. heap' = heap /\ job' = job /\ memo' = memo
    BY <1>3 DEF Combinator
  <2>2. Moves(heap)
    BY <1>3, CombinatorMoves DEF Parsing
  <2> QED BY <1>2, <2>1, <2>2 DEF Parsing
<1>4. CASE RuleEnter
  <2>1. heap' = heap /\ job' = job
    BY <1>4 DEF RuleEnter
  <2>2. Moves(heap) /\ MemoOK(heap, memo') /\ (~job.packrat => memo' = memo)
    BY <1>4, RuleEnterMoves DEF Parsing
  <2> QED BY <1>2, <2>1, <2>2
<1>5. CASE RuleReturn
  BY <1>5, RuleReturnKeeps
<1> QED BY <1>3, <1>4, <1>5 DEF ParseStep

----------------------------------------------------------------------------
(* The calls of optimize.                                                  *)

(* The node asked for is one of the tree that is optimized.                *)
LEMMA WantedIs ==
  ASSUME NEW h, NEW s, CallsOK(h, s), asked.root \in 1 .. asked.given,
         \A i \in 1 .. asked.given : IsSeq(h[i].nodes) /\ ToSet(h[i].nodes) \subseteq 1 .. asked.given
  PROVE  /\ Wanted(h, s) \in 1 .. asked.given
         /\ s # <<>> => /\ IsCall(h, Last(s)) /\ Last(s) = s[Len(s)] /\ Len(s) \in DOMAIN s /\ Len(s) >= 1
                        /\ Wanted(h, s) = NextKid(h, Last(s))
<1>1. IsSeq(s) /\ Len(s) \in Nat /\ DOMAIN s = 1 .. Len(s) /\ (s = <<>> <=> Len(s) = 0)
  BY SeqFacts DEF CallsOK
<1>2. CASE s = <<>>
  BY <1>2 DEF Wanted
<1>3. CASE s # <<>>
  <2> DEFINE f == Last(s)
  <2>1. f = s[Len(s)] /\ Len(s) \in DOMAIN s /\ Len(s) >= 1
    BY <1>1, <1>3 DEF Last
  <2>2. IsCall(h, f) /\ Wanted(h, s) = NextKid(h, f)
    BY <1>3, <2>1 DEF CallsOK, Wanted
  <2> HIDE DEF f
  <2>3. IsSeq(h[f.id].nodes) /\ ToSet(h[f.id].nodes) \subseteq 1 .. asked.given
    BY <2>2 DEF IsCall
  <2> DEFINE kids == h[f.id].nodes  j == IF f.ast = NoNodeYet THEN 1 ELSE Len(h[f.ast].nodes) + 1
  <2>4. j \in DOMAIN kids
    <3>1. CASE f.ast = NoNodeYet
      <4>1. j = 1 /\ Len(kids) = 1 /\ DOMAIN kids = 1 .. Len(kids)
        BY <2>2, <2>3, <3>1, SeqFacts DEF IsCall
      <4> QED BY <4>1
    <3>2. CASE f.ast # NoNodeYet
      <4>1. Len(h[f.ast].nodes) < Len(kids) /\ Len(kids) \in Nat /\ DOMAIN kids = 1 .. Len(kids)
        BY <2>2, <2>3, <3>2, SeqFacts DEF IsCall
      <4>2. Len(h[f.ast].nodes) \in Nat
        BY <2>2, <3>2, SeqFacts DEF IsCall
      <4>3. j = Len(h[f.ast].nodes) + 1
        BY <3>2
      <4> HIDE DEF j, kids
      <4> QED BY <4>1, <4>2, <4>3
    <3> QED BY <3>1, <3>2
  <2>5. NextKid(h, f) = kids[j] /\ kids[j] \in ToSet(kids)
    BY <2>4 DEF NextKid, ToSet
  <2> QED BY <2>1, <2>2, <2>3, <2>5 DEF f
<1> QED BY <1>2, <1>3

(* The innermost call, and those around it.                                *)
LEMMA CallsFront ==
  ASSUME NEW h, NEW s, CallsOK(h, s), s # <<>>
  PROVE  /\ CallsOK(h, Front(s))
         /\ Last(s).parent = Root(Front(s)) /\ Last(s).id = Wanted(h, Front(s))
         /\ \A k \in DOMAIN Front(s) :
              k \in DOMAIN s /\ Front(s)[k] = s[k] /\ (Last(s).ast # NoNodeYet => s[k].ast < Last(s).ast)
         /\ \A k \in DOMAIN s : s[k] = Last(s) \/ k \in DOMAIN Front(s)
<1> DEFINE n == Len(s)  t == Front(s)  f == Last(s)
<1>1. IsSeq(s) /\ n \in Nat /\ n >= 1 /\ DOMAIN s = 1 .. n /\ f = s[n]
  BY SeqFacts DEF CallsOK, Last
<1>2. IsSeq(t) /\ Len(t) = n - 1 /\ DOMAIN t = 1 .. n - 1 /\ \A k \in 1 .. n - 1 : t[k] = s[k]
  BY <1>1, FrontFacts
<1> HIDE DEF n, t, f
<1>3. \A k \in DOMAIN t : k \in DOMAIN s /\ k < n /\ t[k] = s[k] /\ (k # 1 => k - 1 \in DOMAIN t /\ t[k - 1] = s[k - 1])
  BY <1>1, <1>2
<1>4. n \in DOMAIN s
  BY <1>1
<1>5. CallsOK(h, t)
  <2>1. \A k \in DOMAIN t : IsCall(h, t[k])
    BY <1>3 DEF CallsOK
  <2>2. \A k \in DOMAIN t : /\ t[k].parent = IF k = 1 THEN Nobody ELSE Into(t[k - 1])
                            /\ t[k].id = IF k = 1 THEN asked.root ELSE NextKid(h, t[k - 1])
    BY <1>3 DEF CallsOK
  <2>3. \A k, l \in DOMAIN t : k < l /\ t[l].ast # NoNodeYet => t[k].ast < t[l].ast
    BY <1>3 DEF CallsOK
  <2> QED BY <1>2, <2>1, <2>2, <2>3 DEF CallsOK
<1>6. \A k \in DOMAIN t : f.ast # NoNodeYet => s[k].ast < f.ast
  BY <1>1, <1>3, <1>4 DEF CallsOK
<1>7. f.parent = Root(t) /\ f.id = Wanted(h, t)
  <2>1. CASE t = <<>>
    <3>1. n = 1
      BY <1>1, <1>2, <2>1, SeqFacts
    <3> QED BY <1>1, <1>4, <2>1, <3>1 DEF CallsOK, Root, Wanted
  <2>2. CASE t # <<>>
    <3>1. n # 1 /\ Last(t) = s[n - 1]
      BY <1>1, <1>2, <2>2, SeqFacts DEF Last
    <3> QED BY <1>1, <1>4, <2>2, <3>1 DEF CallsOK, Root, Wanted
  <2> QED BY <2>1, <2>2
<1>8. \A k \in DOMAIN s : k = n \/ k \in DOMAIN t
  BY <1>1, <1>2
<1> QED BY <1>1, <1>3, <1>5, <1>6, <1>7, <1>8 DEF t, f

(* A call that is made for the node asked for.                             *)
LEMMA CallsAppend ==
  ASSUME NEW h, NEW s, CallsOK(h, s), NEW f, IsCall(h, f), f.parent = Root(s), f.id = Wanted(h, s),
         f.ast # NoNodeYet => \A k \in DOMAIN s : s[k].ast < f.ast
  PROVE  /\ CallsOK(h, Append(s, f)) /\ Append(s, f) # <<>>
         /\ Wanted(h, Append(s, f)) = NextKid(h, f) /\ Root(Append(s, f)) = Into(f)
         /\ \A k \in DOMAIN Append(s, f) : Append(s, f)[k] = f \/ (k \in DOMAIN s /\ Append(s, f)[k] = s[k])
         /\ \A k \in DOMAIN s : k \in DOMAIN Append(s, f) /\ Append(s, f)[k] = s[k]
         /\ Len(s) + 1 \in DOMAIN Append(s, f) /\ Append(s, f)[Len(s) + 1] = f
<1> DEFINE n == Len(s)  t == Append(s, f)
<1>1. IsSeq(s) /\ n \in Nat /\ DOMAIN s = 1 .. n /\ (s = <<>> <=> n = 0)
  BY SeqFacts DEF CallsOK
<1>2. /\ IsSeq(t) /\ t # <<>> /\ DOMAIN t = 1 .. n + 1 /\ Last(t) = f /\ t[n + 1] = f
      /\ \A k \in 1 .. n : t[k] = s[k]
  BY <1>1, AppendFacts
<1> HIDE DEF n, t
<1>3. /\ \A k \in DOMAIN t : k = n + 1 \/ (k \in DOMAIN s /\ k # n + 1)
      /\ \A k \in DOMAIN s : k \in DOMAIN t /\ t[k] = s[k] /\ (k # 1 => k - 1 \in DOMAIN s /\ t[k - 1] = s[k - 1])
      /\ n + 1 \in DOMAIN t
  BY <1>1, <1>2
<1>4. \A k \in DOMAIN t : IsCall(h, t[k])
  BY <1>2, <1>3 DEF CallsOK
<1>5. ASSUME NEW k \in DOMAIN t
      PROVE  /\ t[k].parent = IF k = 1 THEN Nobody ELSE Into(t[k - 1])
             /\ t[k].id = IF k = 1 THEN asked.root ELSE NextKid(h, t[k - 1])
  <2>1. CASE k \in DOMAIN s
    BY <1>3, <2>1 DEF CallsOK
  <2>2. CASE k = n + 1 /\ s = <<>>
    BY <1>1, <1>2, <2>2 DEF Root, Wanted
  <2>3. CASE k = n + 1 /\ s # <<>>
    <3>1. k # 1 /\ t[k] = f /\ t[k - 1] = Last(s)
      BY <1>1, <1>2, <2>3 DEF Last, n
    <3> QED BY <2>3, <3>1 DEF Root, Wanted
  <2> QED BY <1>3, <2>1, <2>2, <2>3
<1>6. ASSUME NEW k \in DOMAIN t, NEW l \in DOMAIN t, k < l, t[l].ast # NoNodeYet PROVE t[k].ast < t[l].ast
  <2>1. k \in DOMAIN s
    BY <1>1, <1>2, <1>6
  <2>2. CASE l \in DOMAIN s
    BY <1>3, <1>6, <2>1, <2>2 DEF CallsOK
  <2>3. CASE l = n + 1
    BY <1>2, <1>3, <1>6, <2>1, <2>3
  <2> QED BY <1>3, <2>2, <2>3
<1>7. CallsOK(h, t)
  BY <1>2, <1>4, <1>5, <1>6 DEF CallsOK
<1>8. Wanted(h, t) = NextKid(h, f) /\ Root(t) = Into(f)
  BY <1>2 DEF Wanted, Root
<1> QED BY <1>2, <1>3, <1>7, <1>8 DEF t, n

(* The calls' nodes stay theirs in a heap that grows beside them.          *)
LEMMA CallsKept ==
  ASSUME NEW h, NEW s, CallsOK(h, s), asked.root \in 1 .. asked.given,
         \A i \in 1 .. asked.given : IsSeq(h[i].nodes) /\ ToSet(h[i].nodes) \subseteq 1 .. asked.given,
         asked.given <= Len(h), asked.given \in Nat, Len(h) \in Nat, DOMAIN h = 1 .. Len(h),
         NEW h2, Len(h2) \in Nat, Len(h) <= Len(h2), SameTexts(h, h2),
         \A i \in DOMAIN h : ToSet(h[i].nodes) \subseteq DOMAIN h,
         \A i \in 1 .. asked.given : h2[i] = h[i],
         \A k \in DOMAIN s : s[k].ast # NoNodeYet => h2[s[k].ast] = h[s[k].ast]
  PROVE  CallsOK(h2, s) /\ Wanted(h2, s) = Wanted(h, s)
<1>1. ASSUME NEW k \in DOMAIN s PROVE IsCall(h2, s[k]) /\ NextKid(h2, s[k]) = NextKid(h, s[k])
  <2> DEFINE f == s[k]
  <2>1. IsCall(h, f) /\ (f.ast # NoNodeYet => h2[f.ast] = h[f.ast])
    BY DEF CallsOK
  <2> HIDE DEF f
  <2>2. f.id \in 1 .. asked.given /\ h2[f.id] = h[f.id]
    BY <2>1 DEF IsCall
  <2>3. NextKid(h2, f) = NextKid(h, f)
    BY <2>1, <2>2 DEF NextKid
  <2>4. ASSUME f.ast # NoNodeYet
        PROVE  /\ f.ast \in asked.given + 1 .. Len(h2) /\ h2[f.ast] = h[f.ast]
               /\ \A j \in DOMAIN h2[f.ast].nodes : Within(h2, h2[f.ast].nodes[j], h2[f.id].nodes[j])
    <3> DEFINE a == h[f.ast].nodes  b == h[f.id].nodes
    <3>1. /\ f.ast \in asked.given + 1 .. Len(h) /\ IsSeq(a) /\ Len(a) < Len(b)
          /\ \A j \in DOMAIN a : Within(h, a[j], b[j])
      BY <2>1, <2>4 DEF IsCall
    <3>2. f.ast \in DOMAIN h /\ f.ast \in asked.given + 1 .. Len(h2) /\ f.id \in DOMAIN h
      BY <2>2, <3>1
    <3>3. IsSeq(b) /\ ToSet(b) \subseteq DOMAIN h /\ ToSet(a) \subseteq DOMAIN h
      BY <2>2, <3>2
    <3> HIDE DEF a, b
    <3>4. ASSUME NEW j \in DOMAIN a PROVE Within(h2, a[j], b[j])
      <4>1. j \in DOMAIN b
        BY <3>1, <3>3, SeqFacts
      <4>2. a[j] \in DOMAIN h /\ b[j] \in DOMAIN h
        BY <3>3, <4>1 DEF ToSet
      <4>3. Within(h, a[j], b[j])
        BY <3>1
      <4> QED BY <4>2, <4>3 DEF SameTexts, Within, End
    <3> QED BY <2>1, <2>2, <2>4, <3>2, <3>4 DEF a, b
  <2>5. IsCall(h2, f)
    BY <2>1, <2>2, <2>4 DEF IsCall
  <2> QED BY <2>3, <2>5 DEF f
<1>2. IsSeq(s) /\ DOMAIN s = 1 .. Len(s) /\ Len(s) \in Nat
  BY SeqFacts DEF CallsOK
<1>3. ASSUME NEW k \in DOMAIN s, k # 1 PROVE k - 1 \in DOMAIN s
  BY <1>2, <1>3
<1>4. CallsOK(h2, s)
  BY <1>1, <1>2, <1>3 DEF CallsOK
<1>5. Wanted(h2, s) = Wanted(h, s)
  BY <1>1, WantedIs DEF Wanted
<1> QED BY <1>4, <1>5

(* The nodes and the calls while a tree is optimized.                      *)
LEMMA WorkingFacts ==
  ASSUME asked.given \in Nat, NEW h, NEW s, NEW d, Working(h, s, d)
  PROVE  /\ IsSeq(h) /\ Len(h) \in Nat /\ DOMAIN h = 1 .. Len(h)
         /\ \A i \in DOMAIN h : IsNode(h[i]) /\ IsSeq(h[i].nodes) /\ ToSet(h[i].nodes) \subseteq DOMAIN h
         /\ \A i \in 1 .. asked.given :
              i \in DOMAIN h /\ IsSeq(h[i].nodes) /\ ToSet(h[i].nodes) \subseteq 1 .. asked.given
         /\ Wanted(h, s) \in 1 .. asked.given
         /\ \A k \in DOMAIN s : s[k].ast = NoNodeYet \/ s[k].ast \in asked.given + 1 .. Len(h)
         /\ \A k \in DOMAIN s : s[k].ast \in Nat /\ s[k].ast < Len(h) + 1
         /\ NoNodeYet \notin DOMAIN h /\ NoNodeYet = 0
<1>1. IsSeq(h) /\ Len(h) \in Nat /\ DOMAIN h = 1 .. Len(h)
  BY SeqFacts DEF Working, HeapOK
<1>2. \A i \in DOMAIN h : IsNode(h[i]) /\ IsSeq(h[i].nodes) /\ ToSet(h[i].nodes) \subseteq DOMAIN h
  BY DEF Working, HeapOK, IsNode
<1>3. \A i \in 1 .. asked.given :
        i \in DOMAIN h /\ IsSeq(h[i].nodes) /\ ToSet(h[i].nodes) \subseteq 1 .. asked.given
  BY <1>1, <1>2 DEF Working
<1>4. Wanted(h, s) \in 1 .. asked.given
  BY <1>3, WantedIs DEF Working
<1>5. \A k \in DOMAIN s : s[k].ast = NoNodeYet \/ s[k].ast \in asked.given + 1 .. Len(h)
  BY DEF Working, CallsOK, IsCall
<1>6. \A k \in DOMAIN s : s[k].ast \in Nat /\ s[k].ast < Len(h) + 1
  BY <1>1, <1>5 DEF NoNodeYet
<1>7. NoNodeYet \notin DOMAIN h /\ NoNodeYet = 0
  BY <1>1 DEF NoNodeYet
<1> QED BY <1>1, <1>2, <1>3, <1>4, <1>5, <1>6, <1>7

\* A step of the optimization, which changes no node that was given.
Advances ==
  /\ Working(heap', calls', doing') /\ doing'.do # "rest"
  /\ \A i \in 1 .. asked.given : heap'[i] = heap[i]

(* A call awaits the only kid of its node.                                 *)
LEMMA AwaitAdvances ==
  ASSUME asked.given \in Nat, Working(heap, calls, doing), Await
  PROVE  Advances
<1> DEFINE h == heap  s == calls  id == doing.id  f == Awaiting(id, doing.parent)  t == Append(s, f)
           d == Optimize(h[id].nodes[1], doing.parent)
<1>1. heap' = h /\ calls' = t /\ doing' = d /\ Len(h[id].nodes) = 1 /\ doing.do = "optimize"
  BY DEF Await, Collapses
<1>2. id = Wanted(h, s) /\ doing.parent = Root(s)
  BY <1>1 DEF Working, DoingOK
<1>3. /\ f = [id |-> f.id, parent |-> f.parent, ast |-> f.ast] /\ f.id = id /\ f.parent = doing.parent
      /\ f.ast = NoNodeYet
  BY DEF Awaiting
<1>4. d.do = "optimize" /\ d.id = h[id].nodes[1] /\ d.parent = doing.parent
  BY DEF Optimize
<1> HIDE DEF id, f, t, d, h, s
<1>5. Working(h, s, doing)
  BY DEF h, s
<1>6. id \in 1 .. asked.given
  BY <1>2, <1>5, WorkingFacts
<1>7. IsCall(h, f)
  BY <1>1, <1>3, <1>6 DEF IsCall
<1>8. /\ CallsOK(h, t) /\ Wanted(h, t) = NextKid(h, f) /\ Root(t) = Into(f)
      /\ \A k \in DOMAIN t : t[k] = f \/ (k \in DOMAIN s /\ t[k] = s[k])
      /\ \A k \in DOMAIN s : k \in DOMAIN t /\ t[k] = s[k]
  BY <1>2, <1>3, <1>5, <1>7, CallsAppend DEF Working, t
<1>9. DoingOK(h, t, d)
  BY <1>3, <1>4, <1>8 DEF DoingOK, NextKid, Into
<1>10. FreshOK(h, t, d)
  <2>1. ASSUME NEW i \in asked.given + 1 .. Len(h), NEW k \in ToSet(h[i].nodes) PROVE k \notin Unheld(t, d)
    <3>1. i \in DOMAIN h
      BY <1>5, WorkingFacts
    <3>2. k # NoNodeYet
      <4>1. k \in DOMAIN h /\ NoNodeYet \notin DOMAIN h
        BY <1>5, <2>1, <3>1, WorkingFacts
      <4> QED BY <4>1
    <3>3. k \notin Unheld(s, doing)
      BY <1>5, <2>1 DEF Working, FreshOK
    <3> QED BY <1>3, <1>4, <1>8, <3>2, <3>3 DEF Unheld
  <2>2. ASSUME NEW i \in asked.given + 1 .. Len(h), \A k \in DOMAIN t : t[k].ast # i
        PROVE  ~Collapses(h[i], asked.mode)
    <3>1. \A k \in DOMAIN s : s[k].ast # i
      BY <1>8, <2>2
    <3> QED BY <1>5, <3>1 DEF Working, FreshOK
  <2> QED BY <1>5, <2>1, <2>2 DEF Working, FreshOK
<1>11. Working(h, t, d)
  BY <1>5, <1>8, <1>9, <1>10 DEF Working
<1> QED BY <1>1, <1>4, <1>11 DEF Advances, h

(* A node is copied, without its kids as yet.                              *)
LEMMA CopyAdvances ==
  ASSUME asked.given \in Nat, Working(heap, calls, doing), Copy
  PROVE  Advances
<1> DEFINE h == heap  s == calls  id == doing.id  G == asked.given  N == Len(h) + 1  p == doing.parent
           n == [h[id] EXCEPT !.parent = p, !.nodes = <<>>]  h2 == Append(h, n)
<1>1. heap' = h2 /\ ~Collapses(h[id], asked.mode) /\ doing.do = "optimize"
  BY DEF Copy
<1>2. /\ h[id].nodes = <<>> => doing' = Optimized(N) /\ calls' = s
      /\ h[id].nodes # <<>> => doing' = Optimize(h[id].nodes[1], N) /\ calls' = Append(s, Filling(id, p, N))
  BY DEF Copy
<1>3. id = Wanted(h, s) /\ p = Root(s)
  BY <1>1 DEF Working, DoingOK
<1>4. n = [h[id] EXCEPT !.parent = p, !.nodes = <<>>] /\ h2 = Append(h, n) /\ Working(h, s, doing)
  OBVIOUS
<1>5. h = heap /\ N = Len(h) + 1 /\ G = asked.given
  OBVIOUS
<1> HIDE DEF n, h2, id, p, h, s, N, G
<1>6. /\ Len(h) \in Nat /\ DOMAIN h = 1 .. Len(h) /\ IsSeq(h) /\ HeapOK(h) /\ G \in Nat /\ G <= Len(h)
      /\ id \in 1 .. G /\ id \in DOMAIN h /\ N \notin DOMAIN h /\ \A i \in 1 .. G : i \in DOMAIN h
  BY <1>3, <1>4, <1>5, WorkingFacts DEF Working
<1>7. /\ IsNode(n) /\ n.parent = p /\ n.nodes = <<>> /\ n.name = h[id].name
      /\ n.position = h[id].position /\ n.length = h[id].length
  <2> DEFINE o == h[id]
  <2>1. IsNode(o) /\ n = [o EXCEPT !.parent = p, !.nodes = <<>>]
    BY <1>4, <1>6 DEF HeapOK
  <2> HIDE DEF o
  <2>2. IsNode(n) /\ n.parent = p /\ n.nodes = <<>> /\ n.name = o.name /\ n.position = o.position /\ n.length = o.length
    BY <2>1, ShortSeqs DEF IsNode
  <2> QED BY <2>2 DEF o
<1>8. Relabelled(h, h)
  BY <1>6 DEF Relabelled, HeapOK
<1>9. HeapOK(h2) /\ SameTexts(h, h2)
  <2>1. ToSet(n.nodes) = {} /\ Holds(h, n.position, n.position + n.length, n.nodes)
    BY <1>7, ShortSeqs, HoldsFew
  <2> QED BY <1>4, <1>6, <1>7, <1>8, <2>1, HeapGrows
<1>10. Len(h2) = N /\ DOMAIN h2 = 1 .. N /\ h2[N] = n /\ \A i \in DOMAIN h : h2[i] = h[i]
  BY <1>4, <1>5, <1>6, AppendFacts
<1>11. CallsOK(h2, s) /\ Wanted(h2, s) = id
  <2>1. \A i \in 1 .. asked.given : h2[i] = h[i]
    BY <1>5, <1>6, <1>10
  <2>2. \A k \in DOMAIN s : s[k].ast # NoNodeYet => h2[s[k].ast] = h[s[k].ast]
    <3>1. \A k \in DOMAIN s : s[k].ast # NoNodeYet => s[k].ast \in asked.given + 1 .. Len(h)
      BY <1>4, WorkingFacts
    <3> QED BY <1>5, <1>6, <1>10, <3>1
  <2>3. Len(h2) \in Nat /\ Len(h) <= Len(h2)
    BY <1>5, <1>6, <1>10
  <2>4. CallsOK(h, s) /\ asked.root \in 1 .. asked.given /\ asked.given <= Len(h)
    BY <1>4 DEF Working
  <2>5. \A i \in DOMAIN h : ToSet(h[i].nodes) \subseteq DOMAIN h
    BY <1>4, WorkingFacts
  <2>6. \A i \in 1 .. asked.given : IsSeq(h[i].nodes) /\ ToSet(h[i].nodes) \subseteq 1 .. asked.given
    BY <1>4, WorkingFacts
  <2> QED BY <1>3, <1>6, <1>9, <2>1, <2>2, <2>3, <2>4, <2>5, <2>6, CallsKept
<1>12. \A i \in 1 .. G : h2[i] = h[i] /\ ToSet(h2[i].nodes) \subseteq 1 .. G
  BY <1>4, <1>5, <1>6, <1>10, WorkingFacts
<1>13. LinkedFrom(h2, G) /\ \A i \in DOMAIN h : \A k \in ToSet(h[i].nodes) : k \in DOMAIN h /\ k # N
  <2>1. \A i \in DOMAIN h : \A k \in ToSet(h[i].nodes) : k \in DOMAIN h /\ k # N
    BY <1>4, <1>6, WorkingFacts
  <2>2. ASSUME NEW i \in G + 1 .. Len(h2), NEW k \in ToSet(h2[i].nodes) PROVE k > G /\ h2[k].parent = i
    <3>1. i \in G + 1 .. Len(h) \/ i = N
      BY <1>5, <1>6, <1>10
    <3>2. i # N
      BY <1>7, <1>10, <2>2, ShortSeqs
    <3>3. i \in DOMAIN h /\ h2[i] = h[i]
      BY <1>6, <1>10, <3>1, <3>2
    <3>4. k > G /\ h[k].parent = i
      BY <1>4, <1>5, <2>2, <3>1, <3>2, <3>3 DEF Working, FreshOK, LinkedFrom
    <3> QED BY <1>10, <2>1, <2>2, <3>3, <3>4
  <2> QED BY <2>1, <2>2 DEF LinkedFrom
<1>14. ASSUME NEW t, NEW d, \A x \in Unheld(t, d) : x \in Unheld(s, doing) \/ x = N,
              \A k \in DOMAIN s : k \in DOMAIN t /\ t[k] = s[k]
       PROVE  FreshOK(h2, t, d)
  <2>1. ASSUME NEW i \in G + 1 .. Len(h2), i # N
        PROVE  /\ \A k \in ToSet(h2[i].nodes) : k \notin Unheld(t, d)
               /\ (\A k \in DOMAIN t : t[k].ast # i) => ~Collapses(h2[i], asked.mode)
    <3>1. i \in G + 1 .. Len(h) /\ i \in DOMAIN h
      BY <1>5, <1>6, <1>10, <2>1
    <3>2. /\ \A k \in ToSet(h[i].nodes) : k \notin Unheld(s, doing)
          /\ (\A k \in DOMAIN s : s[k].ast # i) => ~Collapses(h[i], asked.mode)
      BY <1>4, <1>5, <3>1 DEF Working, FreshOK
    <3> QED BY <1>10, <1>13, <1>14, <3>1, <3>2
  <2>2. ToSet(h2[N].nodes) = {} /\ ~Collapses(h2[N], asked.mode)
    <3>1. ToSet(h2[N].nodes) = {} /\ Len(h2[N].nodes) = 0
      BY <1>7, <1>10, ShortSeqs
    <3> QED BY <3>1 DEF Collapses
  <2> QED BY <1>5, <1>13, <2>1, <2>2 DEF FreshOK
<1>15. Unheld(s, doing) = {s[k].ast : k \in DOMAIN s}
  BY <1>1 DEF Unheld
<1>16. asked.given <= Len(h2) /\ asked.root \in 1 .. asked.given
  BY <1>4, <1>5, <1>6, <1>10 DEF Working
<1>17. CASE h[id].nodes = <<>>
  <2> DEFINE d == Optimized(N)
  <2>1. d.do = "optimized" /\ d.id = N
    BY DEF Optimized
  <2> HIDE DEF d
  <2>2. DoingOK(h2, s, d)
    <3>1. N \in asked.given + 1 .. Len(h2)
      BY <1>5, <1>6, <1>10
    <3>2. Within(h2, N, id)
      <4>1. h2[N].position = h2[id].position /\ h2[N].length = h2[id].length
        BY <1>6, <1>7, <1>10
      <4>2. h2[id].position \in Nat /\ End(h2, id) \in Nat
        BY <1>6, <1>9, NodeFacts DEF SameTexts
      <4> QED BY <4>1, <4>2 DEF Within, End
    <3>3. \A k \in DOMAIN s : s[k].ast < N
      BY <1>4, <1>5, WorkingFacts
    <3>4. h2[N].parent = Root(s)
      BY <1>3, <1>7, <1>10
    <3> QED BY <1>11, <2>1, <3>1, <3>2, <3>3, <3>4 DEF DoingOK
  <2>3. FreshOK(h2, s, d)
    BY <1>14, <1>15, <2>1 DEF Unheld
  <2>4. Working(h2, s, d)
    BY <1>5, <1>9, <1>11, <1>12, <1>16, <2>2, <2>3 DEF Working
  <2> QED BY <1>1, <1>2, <1>5, <1>12, <1>17, <2>1, <2>4 DEF Advances, d
<1>18. CASE h[id].nodes # <<>>
  <2> DEFINE d == Optimize(h[id].nodes[1], N)  f == Filling(id, p, N)  t == Append(s, f)
  <2>1. d.do = "optimize" /\ d.id = h[id].nodes[1] /\ d.parent = N
    BY DEF Optimize
  <2>2. f = [id |-> f.id, parent |-> f.parent, ast |-> f.ast] /\ f.id = id /\ f.parent = p /\ f.ast = N
    BY DEF Filling
  <2>3. t = Append(s, f) /\ calls' = t /\ doing' = d
    BY <1>2, <1>18
  <2> HIDE DEF d, f, t
  <2>4. N # NoNodeYet /\ N \in asked.given + 1 .. Len(h2)
    BY <1>5, <1>6, <1>10 DEF NoNodeYet
  <2>5. IsCall(h2, f)
    <3>1. IsSeq(h[id].nodes)
      BY <1>4, <1>6, WorkingFacts
    <3>2. Len(h[id].nodes) \in Nat /\ Len(h[id].nodes) # 0
      BY <1>18, <3>1, SeqFacts
    <3>3. Len(h2[N].nodes) < Len(h2[id].nodes) /\ IsSeq(h2[N].nodes) /\ DOMAIN h2[N].nodes = {}
      BY <1>6, <1>7, <1>10, <3>2, ShortSeqs
    <3>4. /\ h2[N].parent = f.parent /\ h2[N].name = h2[id].name
          /\ h2[N].position = h2[id].position /\ h2[N].length = h2[id].length
          /\ ~Collapses(h2[id], asked.mode)
      BY <1>1, <1>6, <1>7, <1>10, <2>2
    <3> QED BY <1>5, <1>6, <2>2, <2>4, <3>3, <3>4 DEF IsCall
  <2>6. \A k \in DOMAIN s : s[k].ast < f.ast
    BY <1>4, <1>5, <2>2, WorkingFacts
  <2>7. /\ CallsOK(h2, t) /\ t # <<>> /\ Wanted(h2, t) = NextKid(h2, f) /\ Root(t) = Into(f)
        /\ \A k \in DOMAIN t : t[k] = f \/ (k \in DOMAIN s /\ t[k] = s[k])
        /\ \A k \in DOMAIN s : k \in DOMAIN t /\ t[k] = s[k]
    BY <1>3, <1>11, <2>2, <2>3, <2>5, <2>6, CallsAppend
  <2>8. DoingOK(h2, t, d)
    <3>1. NextKid(h2, f) = h[id].nodes[1]
      BY <1>6, <1>7, <1>10, <2>2, <2>4, ShortSeqs DEF NextKid
    <3>2. Into(f) = N
      BY <2>2, <2>4 DEF Into
    <3> QED BY <2>1, <2>7, <3>1, <3>2 DEF DoingOK
  <2>9. FreshOK(h2, t, d)
    <3>1. \A x \in Unheld(t, d) : x \in Unheld(s, doing) \/ x = N
      BY <1>15, <2>1, <2>2, <2>7 DEF Unheld
    <3> QED BY <1>14, <2>7, <3>1
  <2>10. Working(h2, t, d)
    BY <1>5, <1>9, <1>12, <1>16, <2>7, <2>8, <2>9 DEF Working
  <2> QED BY <1>1, <1>5, <1>12, <2>1, <2>3, <2>10 DEF Advances
<1> QED BY <1>17, <1>18

(* A node takes one more kid, behind those it has.                         *)
LEMMA KidAppended ==
  ASSUME NEW h, HeapOK(h), NEW a \in DOMAIN h, NEW x \in DOMAIN h,
         h[a].position <= h[x].position, End(h, x) <= End(h, a),
         \A j \in DOMAIN h[a].nodes : End(h, h[a].nodes[j]) <= h[x].position,
         NEW h2, h2 = PushBack(h, a, x)
  PROVE  /\ HeapOK(h2) /\ SameTexts(h, h2) /\ Len(h2) = Len(h) /\ DOMAIN h2 = DOMAIN h
         /\ \A i \in DOMAIN h : i # a => h2[i] = h[i]
         /\ h2[a].parent = h[a].parent /\ h2[a].name = h[a].name
         /\ h2[a].position = h[a].position /\ h2[a].length = h[a].length
         /\ h2[a].nodes = Append(h[a].nodes, x)
<1> DEFINE kids == h[a].nodes  all == Append(kids, x)
<1>1. IsSeq(h) /\ Len(h) \in Nat /\ DOMAIN h = 1 .. Len(h)
  BY SeqFacts DEF HeapOK
<1>2. IsSeq(kids) /\ ToSet(kids) \subseteq DOMAIN h /\ Holds(h, h[a].position, End(h, a), kids)
  BY NodeFacts DEF HeapOK
<1>3. Len(kids) \in Nat /\ DOMAIN kids = 1 .. Len(kids) /\ \A j \in DOMAIN kids : kids[j] \in DOMAIN h
  BY <1>2, SeqFacts DEF ToSet
<1>4. /\ IsSeq(all) /\ DOMAIN all = 1 .. Len(kids) + 1 /\ all[Len(kids) + 1] = x
      /\ \A j \in 1 .. Len(kids) : all[j] = kids[j]
  BY <1>2, AppendFacts
<1>5. DOMAIN h2 = DOMAIN h /\ (\A i \in DOMAIN h : i # a => h2[i] = h[i]) /\ h2[a] = [h[a] EXCEPT !.nodes = all]
  BY DEF PushBack
<1>6. IsSeq(h2) /\ Len(h2) = Len(h)
  <2>1. h2 = [i \in 1 .. Len(h) |-> h2[i]]
    BY <1>1 DEF PushBack
  <2> QED BY <1>1, <2>1, FunctionIsSeq
<1>7. IsNode(h[a])
  BY DEF HeapOK
<1> HIDE DEF all
<1>8. /\ IsNode(h2[a]) /\ h2[a].nodes = all /\ h2[a].parent = h[a].parent /\ h2[a].name = h[a].name
      /\ h2[a].position = h[a].position /\ h2[a].length = h[a].length
  <2> DEFINE o == h[a]  n == h2[a]
  <2>1. IsNode(o) /\ n = [o EXCEPT !.nodes = all]
    BY <1>5, <1>7
  <2> HIDE DEF o, n
  <2>2. /\ IsNode(n) /\ n.nodes = all /\ n.parent = o.parent /\ n.name = o.name
        /\ n.position = o.position /\ n.length = o.length
    BY <1>4, <2>1 DEF IsNode
  <2> QED BY <2>2 DEF o, n
<1> HIDE DEF kids
<1>9. SameTexts(h, h2)
  BY <1>5, <1>8 DEF SameTexts
<1>10. ASSUME NEW j \in DOMAIN all
       PROVE  /\ all[j] \in DOMAIN h /\ h[a].position <= h[all[j]].position /\ End(h, all[j]) <= End(h, a)
              /\ \A l \in 1 .. j - 1 : End(h, all[l]) <= h[all[j]].position
  <2>1. CASE j \in DOMAIN kids
    <3>1. all[j] = kids[j] /\ \A l \in 1 .. j - 1 : all[l] = kids[l]
      BY <1>3, <1>4, <2>1
    <3> QED BY <1>2, <1>3, <2>1, <3>1 DEF Holds
  <2>2. CASE j = Len(kids) + 1
    <3>1. all[j] = x /\ \A l \in 1 .. j - 1 : l \in DOMAIN kids /\ all[l] = kids[l]
      BY <1>3, <1>4, <2>2
    <3> QED BY <3>1 DEF kids
  <2> QED BY <1>3, <1>4, <2>1, <2>2
<1>11. Holds(h, h[a].position, End(h, a), all)
  BY <1>10 DEF Holds
<1>12. ToSet(all) \subseteq DOMAIN h
  BY <1>10 DEF ToSet
<1>13. ASSUME NEW i \in DOMAIN h2
       PROVE  /\ IsNode(h2[i]) /\ ToSet(h2[i].nodes) \subseteq DOMAIN h2
              /\ Holds(h2, h2[i].position, End(h2, i), h2[i].nodes)
  <2> DEFINE k == h2[i].nodes
  <2>1. IsNode(h2[i]) /\ IsSeq(k) /\ ToSet(k) \subseteq DOMAIN h /\ Holds(h, h[i].position, End(h, i), k)
    <3>1. CASE i = a
      BY <1>4, <1>8, <1>11, <1>12, <3>1
    <3>2. CASE i # a
      BY <1>5, <3>2, NodeFacts DEF HeapOK
    <3> QED BY <3>1, <3>2
  <2>2. Holds(h2, h[i].position, End(h, i), k)
    BY <1>9, <2>1, HoldsKept
  <2>3. h2[i].position = h[i].position /\ End(h2, i) = End(h, i)
    BY <1>5, <1>9 DEF SameTexts, End
  <2> QED BY <1>5, <2>1, <2>2, <2>3
<1>14. HeapOK(h2)
  BY <1>6, <1>13 DEF HeapOK, Nested
<1> QED BY <1>5, <1>6, <1>8, <1>9, <1>14 DEF all, kids

(* A sequence is its front and its last element.                           *)
LEMMA FrontLast ==
  ASSUME NEW s, IsSeq(s), s # <<>>
  PROVE  Append(Front(s), Last(s)) = s
<1> DEFINE t == Append(Front(s), Last(s))
<1>1. /\ IsSeq(Front(s)) /\ Len(Front(s)) = Len(s) - 1 /\ Len(s) \in Nat /\ DOMAIN s = 1 .. Len(s)
      /\ \A k \in 1 .. Len(s) - 1 : Front(s)[k] = s[k]
      /\ Last(s) = s[Len(s)] /\ Len(s) >= 1
  BY FrontFacts, SeqFacts
<1>2. Len(t) = Len(s) /\ IsSeq(t) /\ \A k \in 1 .. Len(s) : t[k] = s[k]
  <2>1. /\ IsSeq(t) /\ Len(t) = (Len(s) - 1) + 1 /\ t[(Len(s) - 1) + 1] = Last(s)
        /\ \A k \in 1 .. Len(s) - 1 : t[k] = Front(s)[k]
    BY <1>1, AppendFacts
  <2> HIDE DEF t
  <2>2. ASSUME NEW k \in 1 .. Len(s) PROVE t[k] = s[k]
    <3>1. k \in 1 .. Len(s) - 1 \/ (k = Len(s) /\ (Len(s) - 1) + 1 = Len(s))
      BY <1>1
    <3> QED BY <1>1, <2>1, <3>1
  <2> QED BY <1>1, <2>1, <2>2
<1> HIDE DEF t
<1>3. DOMAIN t = 1 .. Len(s) /\ t \in Seq(ToSet(t)) /\ s \in Seq(ToSet(s))
  BY <1>2, SeqFacts DEF IsSeq
<1>4. ToSet(t) = ToSet(s)
  BY <1>1, <1>2, <1>3 DEF ToSet
<1>5. t = s
  BY <1>2, <1>3, <1>4, SeqEqual
<1> QED BY <1>5 DEF t

(* A call gives its copy the next kid, and returns when it has them all.   *)
LEMMA FillAdvances ==
  ASSUME asked.given \in Nat, Working(heap, calls, doing), Fill
  PROVE  Advances
<1> DEFINE h == heap  s == calls  x == doing.id  G == asked.given  f == Last(s)  a == f.ast  u == Front(s)
           kids == h[a].nodes  originals == h[f.id].nodes  m == Len(kids)  h2 == PushBack(h, a, x)
<1>1. heap' = h2 /\ doing.do = "optimized" /\ s # <<>> /\ a # NoNodeYet
  BY DEF Fill
<1>2. /\ m + 1 = Len(originals) => calls' = u /\ doing' = Optimized(a)
      /\ m + 1 # Len(originals) => calls' = s /\ doing' = Optimize(originals[(m + 1) + 1], a)
  BY DEF Fill
<1>3. Working(h, s, doing) /\ h = heap /\ G = asked.given /\ h2 = PushBack(h, a, x)
  OBVIOUS
<1>4. /\ Len(h) \in Nat /\ DOMAIN h = 1 .. Len(h) /\ HeapOK(h) /\ G \in Nat /\ G <= Len(h)
      /\ IsCall(h, f) /\ NextKid(h, f) = Wanted(h, s) /\ Wanted(h, s) \in 1 .. G
      /\ \A i \in 1 .. G : i \in DOMAIN h /\ IsSeq(h[i].nodes) /\ ToSet(h[i].nodes) \subseteq 1 .. G
  <2>1. \A i \in 1 .. G : i \in DOMAIN h /\ IsSeq(h[i].nodes) /\ ToSet(h[i].nodes) \subseteq 1 .. G
    BY <1>3, WorkingFacts
  <2>2. IsCall(h, f) /\ NextKid(h, f) = Wanted(h, s)
    BY <1>1, <2>1, WantedIs DEF Working
  <2> QED BY <2>1, <2>2, WorkingFacts DEF Working
<1>5. /\ x \in G + 1 .. Len(h) /\ Within(h, x, Wanted(h, s)) /\ h[x].parent = Root(s)
      /\ \A k \in DOMAIN s : s[k].ast < x
  BY <1>1, <1>3 DEF Working, DoingOK
<1>6. Root(s) = a
  BY <1>1 DEF Root, Into
<1> HIDE DEF h2, x, h, s, G, f, a, u, kids, originals, m
<1>7. /\ f.id \in 1 .. G /\ f.id \in DOMAIN h /\ a \in G + 1 .. Len(h) /\ a \in DOMAIN h /\ x \in DOMAIN h
      /\ h[a].parent = f.parent /\ h[a].name = h[f.id].name
      /\ h[a].position = h[f.id].position /\ h[a].length = h[f.id].length
      /\ IsSeq(kids) /\ m \in Nat /\ DOMAIN kids = 1 .. m /\ m < Len(originals)
      /\ IsSeq(originals) /\ Len(originals) \in Nat /\ DOMAIN originals = 1 .. Len(originals)
      /\ \A j \in DOMAIN kids : Within(h, kids[j], originals[j])
      /\ ~Collapses(h[f.id], asked.mode)
      /\ f = [id |-> f.id, parent |-> f.parent, ast |-> f.ast]
      /\ Wanted(h, s) = originals[m + 1]
  <2>1. a # NoNodeYet /\ a = f.ast
    BY <1>1 DEF a
  <2>2. /\ f.id \in 1 .. G /\ a \in G + 1 .. Len(h) /\ h[a].parent = f.parent /\ h[a].name = h[f.id].name
        /\ h[a].position = h[f.id].position /\ h[a].length = h[f.id].length
        /\ IsSeq(kids) /\ m < Len(originals)
        /\ \A j \in DOMAIN kids : Within(h, kids[j], originals[j])
        /\ ~Collapses(h[f.id], asked.mode)
        /\ f = [id |-> f.id, parent |-> f.parent, ast |-> f.ast]
    BY <1>4, <2>1 DEF IsCall, kids, originals, m, G
  <2>3. NextKid(h, f) = originals[m + 1]
    BY <2>1 DEF NextKid, m, kids, originals
  <2>4. IsSeq(originals)
    BY <1>4, <2>2 DEF originals
  <2>5. m \in Nat /\ DOMAIN kids = 1 .. m
    BY <2>2, SeqFacts DEF m
  <2> QED BY <1>4, <1>5, <2>2, <2>3, <2>4, <2>5, SeqFacts
<1>8. /\ h[a].position <= h[x].position /\ End(h, x) <= End(h, a)
      /\ \A j \in DOMAIN h[a].nodes : End(h, h[a].nodes[j]) <= h[x].position
      /\ Within(h, x, originals[m + 1])
  <2>1. Within(h, x, originals[m + 1])
    BY <1>5, <1>7
  <2>2. Holds(h, h[f.id].position, End(h, f.id), originals)
    BY <1>4, <1>7, NodeFacts DEF originals
  <2>3. End(h, a) = End(h, f.id)
    BY <1>7 DEF End
  <2> DEFINE o == originals[m + 1]
  <2>4. m + 1 \in DOMAIN originals
    BY <1>7
  <2>5. o \in DOMAIN h /\ \A j \in DOMAIN kids : originals[j] \in DOMAIN h /\ kids[j] \in DOMAIN h /\ j \in 1 .. (m + 1) - 1
    <3>1. \A j \in DOMAIN kids : j \in DOMAIN originals /\ j \in 1 .. (m + 1) - 1
      BY <1>7
    <3>2. \A j \in DOMAIN originals : originals[j] \in DOMAIN h
      BY <1>4, <1>7, NodeFacts DEF originals
    <3>3. \A j \in DOMAIN kids : kids[j] \in DOMAIN h
      BY <1>4, <1>7, NodeFacts DEF kids
    <3> QED BY <2>4, <3>1, <3>2, <3>3
  <2>6. /\ h[f.id].position <= h[o].position /\ End(h, o) <= End(h, f.id)
        /\ \A j \in DOMAIN kids : End(h, originals[j]) <= h[o].position
    BY <2>2, <2>4, <2>5 DEF Holds
  <2>7. \A i \in DOMAIN h : h[i].position \in Nat /\ End(h, i) \in Nat
    BY <1>4, NodeFacts
  <2> HIDE DEF o
  <2>8. h[o].position <= h[x].position /\ End(h, x) <= End(h, o)
    BY <2>1 DEF Within, o
  <2>9. h[a].position <= h[x].position /\ End(h, x) <= End(h, a)
    BY <1>7, <2>3, <2>5, <2>6, <2>7, <2>8
  <2>10. ASSUME NEW j \in DOMAIN kids PROVE End(h, kids[j]) <= h[x].position
    <3>1. End(h, kids[j]) <= End(h, originals[j])
      BY <1>7 DEF Within
    <3>2. End(h, originals[j]) <= h[o].position
      BY <2>6
    <3>3. End(h, kids[j]) \in Nat /\ End(h, originals[j]) \in Nat /\ h[o].position \in Nat /\ h[x].position \in Nat
      BY <1>7, <2>5, <2>7
    <3> QED BY <2>8, <3>1, <3>2, <3>3
  <2> QED BY <2>1, <2>9, <2>10 DEF kids
<1>9. /\ HeapOK(h2) /\ SameTexts(h, h2) /\ Len(h2) = Len(h) /\ DOMAIN h2 = DOMAIN h
      /\ \A i \in DOMAIN h : i # a => h2[i] = h[i]
      /\ h2[a].parent = h[a].parent /\ h2[a].name = h[a].name
      /\ h2[a].position = h[a].position /\ h2[a].length = h[a].length
      /\ h2[a].nodes = Append(kids, x)
  <2>1. a \in DOMAIN h /\ x \in DOMAIN h /\ HeapOK(h) /\ h2 = PushBack(h, a, x)
    BY <1>3, <1>4, <1>7
  <2> QED BY <1>8, <2>1, KidAppended DEF kids
<1>10. /\ ToSet(Append(kids, x)) = ToSet(kids) \cup {x} /\ Len(Append(kids, x)) = m + 1 /\ IsSeq(Append(kids, x))
       /\ DOMAIN Append(kids, x) = 1 .. m + 1
       /\ Append(kids, x)[m + 1] = x /\ \A j \in DOMAIN kids : Append(kids, x)[j] = kids[j]
  <2>1. /\ IsSeq(Append(kids, x)) /\ Len(Append(kids, x)) = m + 1 /\ DOMAIN Append(kids, x) = 1 .. m + 1
        /\ Append(kids, x)[m + 1] = x /\ \A j \in 1 .. m : Append(kids, x)[j] = kids[j]
    BY <1>7, AppendFacts DEF m
  <2> DEFINE all == Append(kids, x)
  <2> HIDE DEF all
  <2>2. m + 1 \in 1 .. m + 1 /\ \A j \in 1 .. m + 1 : j \in 1 .. m \/ j = m + 1
    BY <1>7
  <2>3. \A j \in 1 .. m : j \in 1 .. m + 1
    BY <1>7
  <2>4. ToSet(all) = ToSet(kids) \cup {x}
    BY <1>7, <2>1, <2>2, <2>3 DEF ToSet, all
  <2> QED BY <1>7, <2>1, <2>4 DEF all
<1>11. /\ \A i \in 1 .. G : i # a /\ h2[i] = h[i]
       /\ \A i \in DOMAIN h : \A k \in ToSet(h2[i].nodes) : k \in ToSet(h[i].nodes) \/ (i = a /\ k = x)
  <2>1. \A i \in 1 .. G : i # a /\ h2[i] = h[i]
    BY <1>4, <1>7, <1>9
  <2>2. ASSUME NEW i \in DOMAIN h, NEW k \in ToSet(h2[i].nodes) PROVE k \in ToSet(h[i].nodes) \/ (i = a /\ k = x)
    <3>1. CASE i = a
      <4>1. k \in ToSet(kids) \cup {x}
        BY <1>9, <1>10, <2>2, <3>1
      <4> QED BY <3>1, <4>1 DEF kids
    <3>2. CASE i # a
      BY <1>9, <2>2, <3>2
    <3> QED BY <3>1, <3>2
  <2> QED BY <2>1, <2>2
<1>12. /\ CallsOK(h, u) /\ f.parent = Root(u) /\ f.id = Wanted(h, u)
       /\ \A k \in DOMAIN u : k \in DOMAIN s /\ u[k] = s[k] /\ s[k].ast < a
       /\ \A k \in DOMAIN s : s[k] = f \/ k \in DOMAIN u
  BY <1>1, <1>3, CallsFront DEF Working, f, u, a
<1>13. CallsOK(h2, u) /\ Wanted(h2, u) = f.id
  <2>1. \A k \in DOMAIN u : u[k].ast # NoNodeYet => h2[u[k].ast] = h[u[k].ast]
    <3>1. \A k \in DOMAIN u : u[k].ast # NoNodeYet => u[k].ast \in G + 1 .. Len(h) /\ u[k].ast < a
      BY <1>3, <1>12, WorkingFacts
    <3>2. \A k \in DOMAIN u : u[k].ast # NoNodeYet => u[k].ast \in DOMAIN h /\ u[k].ast # a
      BY <1>4, <1>7, <3>1
    <3> QED BY <1>9, <3>2
  <2>2. \A i \in DOMAIN h : ToSet(h[i].nodes) \subseteq DOMAIN h
    BY <1>3, WorkingFacts
  <2>3. \A i \in 1 .. asked.given : IsSeq(h[i].nodes) /\ ToSet(h[i].nodes) \subseteq 1 .. asked.given
    BY <1>3, WorkingFacts
  <2>4. asked.root \in 1 .. asked.given /\ asked.given <= Len(h)
    BY <1>3 DEF Working
  <2>5. \A i \in 1 .. asked.given : h2[i] = h[i]
    BY <1>3, <1>11
  <2>6. asked.given \in Nat /\ Len(h) \in Nat /\ DOMAIN h = 1 .. Len(h) /\ Len(h2) \in Nat /\ Len(h) <= Len(h2)
    BY <1>4, <1>9
  <2>7. CallsOK(h, u) /\ SameTexts(h, h2)
    BY <1>9, <1>12
  <2>8. CallsOK(h2, u) /\ Wanted(h2, u) = Wanted(h, u)
    BY <2>1, <2>2, <2>3, <2>4, <2>5, <2>6, <2>7, CallsKept
  <2> QED BY <1>12, <2>8
<1>14. /\ LinkedFrom(h, G)
       /\ \A i \in G + 1 .. Len(h) : /\ \A k \in ToSet(h[i].nodes) : k \notin Unheld(s, doing)
                                     /\ (\A k \in DOMAIN s : s[k].ast # i) => ~Collapses(h[i], asked.mode)
  BY <1>3 DEF Working, FreshOK
<1>15. LinkedFrom(h2, G)
  <2>1. ASSUME NEW i \in G + 1 .. Len(h2), NEW k \in ToSet(h2[i].nodes) PROVE k > G /\ h2[k].parent = i
    <3>1. \A j \in DOMAIN h : h2[j].parent = h[j].parent
      BY <1>9
    <3>2. i \in G + 1 .. Len(h) /\ i \in DOMAIN h
      BY <1>4, <1>9, <2>1
    <3>3. CASE k \in ToSet(h[i].nodes)
      <4>1. k > G /\ h[k].parent = i /\ k \in DOMAIN h
        BY <1>4, <1>14, <3>2, <3>3 DEF LinkedFrom, HeapOK
      <4> QED BY <3>1, <4>1
    <3>4. CASE k \notin ToSet(h[i].nodes)
      <4>1. i = a /\ k = x
        BY <1>11, <2>1, <3>2, <3>4
      <4> QED BY <1>4, <1>5, <1>6, <1>7, <3>1, <4>1
    <3> QED BY <3>3, <3>4
  <2> QED BY <2>1 DEF LinkedFrom
<1>16. ASSUME NEW t, NEW d,
              \A y \in Unheld(t, d) : \E k \in DOMAIN s : y = s[k].ast,
              \A k \in DOMAIN u : k \in DOMAIN t /\ t[k] = s[k],
              (\A k \in DOMAIN t : t[k].ast # a) => m + 1 = Len(originals)
       PROVE  FreshOK(h2, t, d)
  <2>1. ASSUME NEW i \in G + 1 .. Len(h2)
        PROVE  /\ \A k \in ToSet(h2[i].nodes) : k \notin Unheld(t, d)
               /\ (\A k \in DOMAIN t : t[k].ast # i) => ~Collapses(h2[i], asked.mode)
    <3>1. i \in G + 1 .. Len(h) /\ i \in DOMAIN h
      BY <1>4, <1>9, <2>1
    <3>2. \A k \in ToSet(h[i].nodes) : k \notin Unheld(t, d)
      BY <1>14, <1>16, <3>1 DEF Unheld
    <3>3. x \notin Unheld(t, d)
      <4>1. ASSUME NEW k \in DOMAIN s PROVE x # s[k].ast
        <5>1. s[k].ast < x /\ s[k].ast \in Nat
          BY <1>3, <1>5, WorkingFacts
        <5> QED BY <5>1
      <4> QED BY <1>16, <4>1
    <3>4. \A k \in ToSet(h2[i].nodes) : k \in ToSet(h[i].nodes) \/ k = x
      BY <1>11, <3>1
    <3>5. ASSUME \A k \in DOMAIN t : t[k].ast # i PROVE ~Collapses(h2[i], asked.mode)
      <4>1. CASE i = a
        <5>1. Len(h2[a].nodes) = Len(originals) /\ h2[a].name = h[f.id].name
          BY <1>7, <1>9, <1>10, <1>16, <3>5, <4>1
        <5> QED BY <1>7, <4>1, <5>1 DEF Collapses, originals
      <4>2. CASE i # a
        <5>1. \A k \in DOMAIN s : s[k].ast # i
          BY <1>12, <1>16, <3>5, <4>2 DEF a
        <5> QED BY <1>9, <1>14, <3>1, <4>2, <5>1
      <4> QED BY <4>1, <4>2
    <3> QED BY <3>2, <3>3, <3>4, <3>5
  <2> QED BY <1>3, <1>15, <2>1 DEF FreshOK
<1>17. asked.given <= Len(h2) /\ asked.root \in 1 .. asked.given
       /\ \A i \in 1 .. asked.given : ToSet(h2[i].nodes) \subseteq 1 .. asked.given
  BY <1>3, <1>4, <1>9, <1>11 DEF Working
<1>18. \E k \in DOMAIN s : s[k].ast = a
  BY <1>1, <1>3, <1>4, WantedIs DEF Working, a, f
<1>19. CASE m + 1 = Len(originals)
  <2> DEFINE d == Optimized(a)
  <2>1. d.do = "optimized" /\ d.id = a /\ calls' = u /\ doing' = d
    BY <1>2, <1>19 DEF Optimized
  <2> HIDE DEF d
  <2>2. DoingOK(h2, u, d)
    <3>1. Within(h2, a, f.id)
      <4>1. h2[a].position = h2[f.id].position /\ h2[a].length = h2[f.id].length
        BY <1>7, <1>9, <1>11
      <4>2. h2[f.id].position \in Nat /\ End(h2, f.id) \in Nat
        BY <1>7, <1>9, NodeFacts
      <4> QED BY <4>1, <4>2 DEF Within, End
    <3>2. h2[a].parent = Root(u)
      BY <1>7, <1>9, <1>12
    <3>3. \A k \in DOMAIN u : u[k].ast < a
      BY <1>12
    <3>4. a \in asked.given + 1 .. Len(h2)
      BY <1>3, <1>7, <1>9
    <3> QED BY <1>13, <2>1, <3>1, <3>2, <3>3, <3>4 DEF DoingOK
  <2>3. FreshOK(h2, u, d)
    <3>1. \A y \in Unheld(u, d) : \E k \in DOMAIN s : y = s[k].ast
      BY <1>12, <1>18, <2>1 DEF Unheld
    <3> QED BY <1>12, <1>16, <1>19, <3>1
  <2>4. Working(h2, u, d)
    BY <1>9, <1>13, <1>17, <2>2, <2>3 DEF Working
  <2> QED BY <1>1, <1>3, <1>11, <2>1, <2>4 DEF Advances
<1>20. CASE m + 1 # Len(originals)
  <2> DEFINE d == Optimize(originals[(m + 1) + 1], a)
  <2>1. /\ d.do = "optimize" /\ d.id = originals[(m + 1) + 1] /\ d.parent = a
        /\ calls' = s /\ doing' = d
    BY <1>2, <1>20 DEF Optimize
  <2> HIDE DEF d
  <2>2. a # NoNodeYet /\ a = f.ast /\ Append(u, f) = s
    BY <1>1, <1>3, FrontLast DEF Working, CallsOK, a, u, f
  <2>3. IsCall(h2, f)
    <3>1. h2[f.id] = h[f.id] /\ Len(h2[a].nodes) < Len(h2[f.id].nodes) /\ IsSeq(h2[a].nodes)
      BY <1>7, <1>9, <1>10, <1>11, <1>20 DEF originals
    <3>2. ASSUME NEW j \in DOMAIN h2[a].nodes PROVE Within(h2, h2[a].nodes[j], h2[f.id].nodes[j])
      <4> DEFINE v == h2[a].nodes[j]  w == originals[j]
      <4>1. j \in DOMAIN kids \/ j = m + 1
        BY <1>7, <1>9, <1>10, <3>2
      <4>2. v \in DOMAIN h /\ w \in DOMAIN h /\ Within(h, v, w)
        <5>1. j \in DOMAIN originals
          BY <1>7, <4>1
        <5>2. w \in DOMAIN h
          BY <1>4, <1>7, <5>1, NodeFacts DEF originals
        <5>3. CASE j \in DOMAIN kids
          <6>1. v = kids[j]
            BY <1>9, <1>10, <5>3
          <6>2. kids[j] \in DOMAIN h
            BY <1>4, <1>7, <5>3, NodeFacts DEF kids
          <6>3. Within(h, kids[j], originals[j])
            BY <1>7, <5>3
          <6> QED BY <5>2, <6>1, <6>2, <6>3
        <5>4. CASE j = m + 1
          <6>1. v = x
            BY <1>9, <1>10, <5>4
          <6> QED BY <1>7, <1>8, <5>2, <5>4, <6>1
        <5> QED BY <4>1, <5>3, <5>4
      <4>3. h2[f.id].nodes[j] = w
        BY <3>1 DEF originals
      <4> HIDE DEF v, w
      <4>4. Within(h2, v, w)
        BY <1>9, <4>2 DEF Within, SameTexts, End
      <4> QED BY <4>3, <4>4 DEF v
    <3>3. a \in asked.given + 1 .. Len(h2) /\ f.id \in 1 .. asked.given
      BY <1>3, <1>7, <1>9
    <3> QED BY <1>7, <1>9, <2>2, <3>1, <3>2, <3>3 DEF IsCall
  <2>4. CallsOK(h2, s) /\ Wanted(h2, s) = NextKid(h2, f) /\ Root(s) = Into(f)
    <3>1. \A k \in DOMAIN u : u[k].ast < f.ast
      BY <1>12, <2>2
    <3>2. CallsOK(h2, u) /\ f.parent = Root(u) /\ f.id = Wanted(h2, u)
      BY <1>12, <1>13
    <3>3. CallsOK(h2, Append(u, f)) /\ Wanted(h2, Append(u, f)) = NextKid(h2, f) /\ Root(Append(u, f)) = Into(f)
      BY <2>3, <3>1, <3>2, CallsAppend
    <3> QED BY <2>2, <3>3
  <2>5. DoingOK(h2, s, d)
    <3>1. NextKid(h2, f) = originals[(m + 1) + 1]
      BY <1>7, <1>9, <1>10, <1>11, <2>2 DEF NextKid, originals
    <3> QED BY <1>6, <2>1, <2>4, <3>1 DEF DoingOK
  <2>6. FreshOK(h2, s, d)
    <3>1. \A y \in Unheld(s, d) : \E k \in DOMAIN s : y = s[k].ast
      BY <2>1 DEF Unheld
    <3> QED BY <1>12, <1>16, <1>18, <3>1
  <2>7. Working(h2, s, d)
    BY <1>9, <1>17, <2>4, <2>5, <2>6 DEF Working
  <2> QED BY <1>1, <1>3, <1>11, <2>1, <2>7 DEF Advances
<1> QED BY <1>19, <1>20

(* What fits in a text fits in a longer one.                               *)
LEMMA HoldsWider ==
  ASSUME NEW h, HeapOK(h), NEW kids, IsSeq(kids), ToSet(kids) \subseteq DOMAIN h,
         NEW from \in Nat, NEW to \in Nat, Holds(h, from, to, kids),
         NEW from2 \in Nat, NEW to2 \in Nat, from2 <= from, to <= to2
  PROVE  Holds(h, from2, to2, kids)
<1>1. \A k \in DOMAIN kids : kids[k] \in DOMAIN h
  BY DEF ToSet
<1>2. \A k \in DOMAIN kids : h[kids[k]].position \in Nat /\ End(h, kids[k]) \in Nat
  BY <1>1, NodeFacts
<1>3. ASSUME NEW k \in DOMAIN kids PROVE from2 <= h[kids[k]].position /\ End(h, kids[k]) <= to2
  <2>1. from <= h[kids[k]].position /\ End(h, kids[k]) <= to
    BY DEF Holds
  <2> QED BY <1>2, <2>1
<1> QED BY <1>3 DEF Holds

(* The copy that stands for a chain's end and for its only parent: it has  *)
(* the kids of the one, who go, and a text within that of the other.       *)
LEMMA ReplacedIs ==
  ASSUME HeapOK(heap), NEW id \in DOMAIN heap, NEW x \in DOMAIN heap, Within(heap, x, id)
  PROVE  /\ HeapOK(Replaced(id, x)) /\ SameTexts(heap, Replaced(id, x))
         /\ Len(Replaced(id, x)) = Len(heap) + 1 /\ DOMAIN Replaced(id, x) = 1 .. Len(heap) + 1
         /\ \A i \in DOMAIN heap :
              /\ i # x /\ i \notin ToSet(heap[x].nodes) => Replaced(id, x)[i] = heap[i]
              /\ i # x => /\ Replaced(id, x)[i].nodes = heap[i].nodes /\ Replaced(id, x)[i].name = heap[i].name
                          /\ Replaced(id, x)[i].parent =
                               IF i \in ToSet(heap[x].nodes) THEN Len(heap) + 1 ELSE heap[i].parent
         /\ Replaced(id, x)[x].nodes = <<>>
         /\ Replaced(id, x)[Len(heap) + 1].nodes = heap[x].nodes
         /\ Replaced(id, x)[Len(heap) + 1].name = heap[x].name
         /\ Replaced(id, x)[Len(heap) + 1].parent = heap[x].parent
         /\ Within(Replaced(id, x), Len(heap) + 1, id)
<1> DEFINE N == Len(heap) + 1  kids == heap[x].nodes  a == Adopt(heap, kids, N)  r == Released(a, x)
           n == Collapsed(heap[x], heap[id])  h2 == Append(r, n)
<1>1. Replaced(id, x) = h2
  BY DEF Replaced
<1>2. /\ Relabelled(heap, a)
      /\ \A i \in DOMAIN heap :
              /\ a[i].nodes = heap[i].nodes /\ a[i].name = heap[i].name
              /\ a[i].parent = IF i \in ToSet(kids) THEN N ELSE heap[i].parent
              /\ i \notin ToSet(kids) => a[i] = heap[i]
  BY AdoptFacts
<1>3. Len(heap) \in Nat /\ DOMAIN heap = 1 .. Len(heap)
  BY SeqFacts DEF HeapOK
<1> HIDE DEF a, r, n, h2, kids, N
<1>4. IsSeq(a) /\ DOMAIN a = 1 .. Len(heap) /\ Len(a) = Len(heap)
  BY <1>2, <1>3, SeqFacts DEF Relabelled
<1>5. /\ DOMAIN r = DOMAIN heap /\ r = [i \in 1 .. Len(heap) |-> r[i]]
      /\ (\A i \in DOMAIN heap : i # x => r[i] = a[i])
      /\ r[x] = [[a[x] EXCEPT !.nodes = <<>>] EXCEPT !.parent = Gone]
  BY <1>3, <1>4 DEF r, Released
<1>6. IsNode(r[x]) /\ r[x].nodes = <<>> /\ r[x].position = a[x].position /\ r[x].length = a[x].length
  <2> DEFINE o == a[x]  m == r[x]
  <2>1. IsNode(o) /\ m = [[o EXCEPT !.nodes = <<>>] EXCEPT !.parent = Gone]
    BY <1>2, <1>5 DEF Relabelled
  <2> HIDE DEF o, m
  <2>2. IsNode(m) /\ m.nodes = <<>> /\ m.position = o.position /\ m.length = o.length
    BY <2>1, ShortSeqs DEF IsNode
  <2> QED BY <2>2 DEF o, m
<1>7. IsSeq(r) /\ Len(r) = Len(heap)
  BY <1>3, <1>5, FunctionIsSeq
<1>8. Relabelled(heap, r)
  <2>1. ASSUME NEW i \in DOMAIN heap
        PROVE  /\ IsNode(r[i]) /\ r[i].position = heap[i].position /\ r[i].length = heap[i].length
               /\ r[i].nodes \in {heap[i].nodes, <<>>}
    BY <1>2, <1>5, <1>6 DEF Relabelled
  <2> QED BY <1>5, <1>7, <2>1 DEF Relabelled
<1>9. /\ IsNode(heap[x]) /\ IsNode(heap[id]) /\ IsSeq(kids) /\ ToSet(kids) \subseteq DOMAIN heap
      /\ heap[x].position \in Nat /\ heap[x].length \in Nat /\ heap[id].position \in Nat /\ heap[id].length \in Nat
      /\ heap[id].position <= heap[x].position /\ End(heap, x) <= End(heap, id)
      /\ End(heap, x) \in Nat /\ End(heap, id) \in Nat
      /\ heap[x].position <= End(heap, x)
      /\ Holds(heap, heap[x].position, End(heap, x), kids)
  BY NodeFacts DEF HeapOK, Within, kids
<1>10. /\ IsNode(n) /\ n.nodes = kids /\ n.name = heap[x].name /\ n.parent = heap[x].parent
       /\ \/ n.position = heap[x].position /\ n.length = heap[x].length
          \/ n.position = heap[id].position /\ n.length = heap[id].length
  <2> DEFINE o == heap[x]  b == heap[id]  kept == Kept(o, b)
  <2>1. /\ n = [o EXCEPT !.original_name = b.name, !.position = kept[1], !.length = kept[2]]
        /\ IsNode(o) /\ IsNode(b)
    BY <1>9 DEF n, Collapsed
  <2>2. \/ kept[1] = o.position /\ kept[2] = o.length
        \/ kept[1] = b.position /\ kept[2] = b.length
    BY DEF Kept
  <2>3. kept[1] \in Nat /\ kept[2] \in Nat
    BY <2>1, <2>2 DEF IsNode
  <2> DEFINE p == kept[1]  l == kept[2]  on == b.name
  <2>4. n = [o EXCEPT !.original_name = on, !.position = p, !.length = l] /\ p \in Nat /\ l \in Nat
    BY <2>1, <2>3
  <2> HIDE DEF o, b, kept, p, l, on
  <2>5. /\ IsNode(n) /\ n.nodes = o.nodes /\ n.name = o.name /\ n.parent = o.parent
        /\ n.position = p /\ n.length = l
    BY <2>1, <2>4 DEF IsNode
  <2> QED BY <2>2, <2>5 DEF o, b, kids, p, l
<1>11. /\ n.position \in Nat /\ n.length \in Nat /\ heap[id].position <= n.position
       /\ n.position + n.length <= End(heap, id)
       /\ n.position <= heap[x].position /\ End(heap, x) <= n.position + n.length
  <2>1. CASE n.position = heap[x].position /\ n.length = heap[x].length
    BY <1>9, <2>1 DEF End
  <2>2. CASE n.position = heap[id].position /\ n.length = heap[id].length
    BY <1>9, <2>2 DEF End
  <2> QED BY <1>10, <2>1, <2>2
<1>12. Holds(heap, n.position, n.position + n.length, n.nodes)
  <2> DEFINE from == n.position  to == n.position + n.length  from1 == heap[x].position  to1 == End(heap, x)
  <2>1. from \in Nat /\ to \in Nat /\ from <= from1 /\ to1 <= to /\ from1 \in Nat /\ to1 \in Nat
    BY <1>9, <1>11
  <2>2. Holds(heap, from1, to1, kids)
    BY <1>9
  <2> HIDE DEF from, to, from1, to1
  <2>3. Holds(heap, from, to, kids)
    BY <1>9, <2>1, <2>2, HoldsWider
  <2> QED BY <1>10, <2>3 DEF from, to
<1>13. HeapOK(h2) /\ SameTexts(heap, h2)
  BY <1>8, <1>9, <1>10, <1>12, HeapGrows DEF h2
<1>14. Len(h2) = N /\ DOMAIN h2 = 1 .. N /\ h2[N] = n /\ \A i \in DOMAIN heap : h2[i] = r[i]
  BY <1>3, <1>7, AppendFacts DEF h2, N
<1>15. Within(h2, N, id)
  <2>1. h2[id].position = heap[id].position /\ End(h2, id) = End(heap, id)
    BY <1>13 DEF SameTexts, End
  <2>2. h2[N].position = n.position /\ End(h2, N) = n.position + n.length
    BY <1>14 DEF End
  <2> QED BY <1>11, <2>1, <2>2 DEF Within
<1>16. ASSUME NEW i \in DOMAIN heap
       PROVE  /\ i # x /\ i \notin ToSet(kids) => h2[i] = heap[i]
              /\ i # x => /\ h2[i].nodes = heap[i].nodes /\ h2[i].name = heap[i].name
                          /\ h2[i].parent = IF i \in ToSet(kids) THEN N ELSE heap[i].parent
  BY <1>2, <1>5, <1>14
<1> QED BY <1>1, <1>6, <1>10, <1>13, <1>14, <1>15, <1>16 DEF N, kids

(* A call that awaited its only kid returns the copy that stands for both. *)
LEMMA CollapseAdvances ==
  ASSUME asked.given \in Nat, Working(heap, calls, doing), Collapse
  PROVE  Advances
<1> DEFINE h == heap  s == calls  x == doing.id  G == asked.given  f == Last(s)  u == Front(s)  id == f.id
           N == Len(h) + 1  h2 == Replaced(id, x)  kids == h[x].nodes  d == Optimized(N)
<1>1. heap' = h2 /\ calls' = u /\ doing' = d /\ doing.do = "optimized" /\ s # <<>> /\ f.ast = NoNodeYet
  BY DEF Collapse
<1>2. Working(h, s, doing) /\ h = heap /\ G = asked.given /\ N = Len(h) + 1 /\ f = Last(s) /\ u = Front(s)
  OBVIOUS
<1>3. d.do = "optimized" /\ d.id = N
  BY DEF Optimized
<1>4. /\ Len(h) \in Nat /\ DOMAIN h = 1 .. Len(h) /\ HeapOK(h) /\ G \in Nat /\ G <= Len(h) /\ N \notin DOMAIN h
      /\ IsCall(h, f) /\ NextKid(h, f) = Wanted(h, s) /\ Wanted(h, s) \in 1 .. G
      /\ \A i \in 1 .. G : i \in DOMAIN h /\ IsSeq(h[i].nodes) /\ ToSet(h[i].nodes) \subseteq 1 .. G
  <2>1. \A i \in 1 .. G : i \in DOMAIN h /\ IsSeq(h[i].nodes) /\ ToSet(h[i].nodes) \subseteq 1 .. G
    BY <1>2, WorkingFacts
  <2>2. IsCall(h, f) /\ NextKid(h, f) = Wanted(h, s)
    BY <1>1, <2>1, WantedIs DEF Working
  <2>3. Len(h) \in Nat /\ DOMAIN h = 1 .. Len(h)
    BY <1>2, WorkingFacts
  <2>4. N \notin DOMAIN h
    BY <2>3
  <2> QED BY <2>1, <2>2, <2>3, <2>4, WorkingFacts DEF Working
<1>5. /\ x \in G + 1 .. Len(h) /\ Within(h, x, Wanted(h, s)) /\ h[x].parent = Root(s)
      /\ \A k \in DOMAIN s : s[k].ast < x
  BY <1>1, <1>2 DEF Working, DoingOK
<1>6. Root(s) = f.parent
  BY <1>1 DEF Root, Into
<1>7. h2 = Replaced(id, x) /\ kids = h[x].nodes /\ id = f.id /\ x = doing.id
  OBVIOUS
<1> HIDE DEF h2, x, h, s, G, f, u, id, N, kids, d
<1>8. id \in 1 .. G /\ id \in DOMAIN h /\ x \in DOMAIN h /\ Within(h, x, id)
  <2> DEFINE o == h[id].nodes[1]
  <2>1. id \in 1 .. G /\ id \in DOMAIN h /\ x \in DOMAIN h
    BY <1>2, <1>4, <1>5, <1>7 DEF IsCall
  <2>2. NextKid(h, f) = o /\ Len(h[id].nodes) = 1 /\ IsSeq(h[id].nodes)
    BY <1>1, <1>4, <1>7, <2>1 DEF NextKid, IsCall
  <2>3. 1 \in DOMAIN h[id].nodes
    BY <2>2, SeqFacts
  <2>4. h[id].position <= h[o].position /\ End(h, o) <= End(h, id) /\ o \in DOMAIN h
    BY <1>4, <2>1, <2>3, NodeFacts DEF Holds
  <2>5. Within(h, x, o)
    BY <1>4, <1>5, <2>2
  <2> HIDE DEF o
  <2>6. /\ h[id].position \in Nat /\ h[o].position \in Nat /\ h[x].position \in Nat
        /\ End(h, id) \in Nat /\ End(h, o) \in Nat /\ End(h, x) \in Nat
    BY <1>4, <2>1, <2>4, NodeFacts
  <2>7. Within(h, x, id)
    BY <2>4, <2>5, <2>6 DEF Within
  <2> QED BY <2>1, <2>7
<1>9. /\ HeapOK(h2) /\ SameTexts(h, h2) /\ Len(h2) = N /\ DOMAIN h2 = 1 .. N
      /\ \A i \in DOMAIN h : i # x /\ i \notin ToSet(kids) => h2[i] = h[i]
      /\ \A i \in DOMAIN h : i # x => /\ h2[i].nodes = h[i].nodes /\ h2[i].name = h[i].name
                                      /\ h2[i].parent = IF i \in ToSet(kids) THEN N ELSE h[i].parent
      /\ h2[x].nodes = <<>>
      /\ h2[N].nodes = kids /\ h2[N].name = h[x].name /\ h2[N].parent = h[x].parent
      /\ Within(h2, N, id)
  BY <1>2, <1>4, <1>7, <1>8, ReplacedIs
<1>10. /\ CallsOK(h, u) /\ f.parent = Root(u) /\ id = Wanted(h, u)
       /\ \A k \in DOMAIN u : k \in DOMAIN s /\ u[k] = s[k]
       /\ \A k \in DOMAIN s : s[k] = f \/ k \in DOMAIN u
  BY <1>1, <1>2, <1>7, CallsFront DEF Working
<1>11. /\ LinkedFrom(h, G)
       /\ \A i \in G + 1 .. Len(h) : /\ \A k \in ToSet(h[i].nodes) : k \notin Unheld(s, doing)
                                     /\ (\A k \in DOMAIN s : s[k].ast # i) => ~Collapses(h[i], asked.mode)
  BY <1>2 DEF Working, FreshOK
<1>12. /\ x \in Unheld(s, doing) /\ \A k \in DOMAIN s : s[k].ast \in Unheld(s, doing)
       /\ \A k \in ToSet(kids) : k > G /\ h[k].parent = x /\ k \notin Unheld(s, doing) /\ k # x /\ k \in DOMAIN h
  <2>1. x \in Unheld(s, doing) /\ \A k \in DOMAIN s : s[k].ast \in Unheld(s, doing)
    BY <1>1, <1>7 DEF Unheld
  <2>2. \A k \in ToSet(kids) : k > G /\ h[k].parent = x /\ k \notin Unheld(s, doing)
    BY <1>5, <1>7, <1>11 DEF LinkedFrom
  <2>3. \A k \in ToSet(kids) : k \in DOMAIN h
    BY <1>4, <1>7, <1>8 DEF HeapOK
  <2> QED BY <2>1, <2>2, <2>3
<1>13. \A i \in 1 .. G : h2[i] = h[i]
  <2>1. ASSUME NEW i \in 1 .. G PROVE h2[i] = h[i]
    <3>1. i # x
      BY <1>4, <1>5, <2>1
    <3>2. i \notin ToSet(kids)
      <4>1. ~(i > G)
        BY <1>4, <2>1
      <4> QED BY <1>12, <4>1
    <3> QED BY <1>4, <1>9, <2>1, <3>1, <3>2
  <2> QED BY <2>1
<1>14. CallsOK(h2, u) /\ Wanted(h2, u) = id
  <2>1. ASSUME NEW k \in DOMAIN u, u[k].ast # NoNodeYet PROVE h2[u[k].ast] = h[u[k].ast]
    <3>1. k \in DOMAIN s /\ u[k] = s[k]
      BY <1>10
    <3>2. s[k].ast \in G + 1 .. Len(h) /\ s[k].ast < x /\ s[k].ast \in Nat
      BY <1>2, <1>5, <2>1, <3>1, WorkingFacts
    <3>3. s[k].ast \in DOMAIN h /\ s[k].ast # x
      BY <1>4, <3>2
    <3>4. s[k].ast \notin ToSet(kids)
      BY <1>12, <3>1
    <3> QED BY <1>9, <3>1, <3>3, <3>4
  <2>2. \A i \in DOMAIN h : ToSet(h[i].nodes) \subseteq DOMAIN h
    BY <1>2, WorkingFacts
  <2>3. \A i \in 1 .. asked.given : IsSeq(h[i].nodes) /\ ToSet(h[i].nodes) \subseteq 1 .. asked.given
    BY <1>2, WorkingFacts
  <2>4. asked.root \in 1 .. asked.given /\ asked.given <= Len(h)
    BY <1>2 DEF Working
  <2>5. \A i \in 1 .. asked.given : h2[i] = h[i]
    BY <1>2, <1>13
  <2>6. asked.given \in Nat /\ Len(h) \in Nat /\ DOMAIN h = 1 .. Len(h) /\ Len(h2) \in Nat /\ Len(h) <= Len(h2)
    BY <1>2, <1>4, <1>9
  <2>7. CallsOK(h, u) /\ SameTexts(h, h2)
    BY <1>9, <1>10
  <2>8. CallsOK(h2, u) /\ Wanted(h2, u) = Wanted(h, u)
    BY <2>1, <2>2, <2>3, <2>4, <2>5, <2>6, <2>7, CallsKept
  <2> QED BY <1>10, <2>8
<1>15. DoingOK(h2, u, d)
  <2>1. N \in asked.given + 1 .. Len(h2)
    BY <1>2, <1>4, <1>9
  <2>2. h2[N].parent = Root(u)
    BY <1>5, <1>6, <1>9, <1>10
  <2>3. \A k \in DOMAIN u : u[k].ast < N
    BY <1>2, <1>10, WorkingFacts
  <2> QED BY <1>3, <1>9, <1>14, <2>1, <2>2, <2>3 DEF DoingOK
<1>16. ASSUME NEW i \in G + 1 .. N PROVE i = N \/ i = x \/ (i \in G + 1 .. Len(h) /\ i \in DOMAIN h /\ i # x /\ i # N)
  BY <1>2, <1>4
<1>17. LinkedFrom(h2, G)
  <2>1. ASSUME NEW i \in G + 1 .. Len(h2), NEW k \in ToSet(h2[i].nodes) PROVE k > G /\ h2[k].parent = i
    <3>1. CASE i = N
      <4>1. k \in ToSet(kids)
        BY <1>9, <2>1, <3>1
      <4> QED BY <1>9, <1>12, <3>1, <4>1
    <3>2. CASE i = x
      BY <1>9, <2>1, <3>2, ShortSeqs
    <3>3. CASE i \in G + 1 .. Len(h) /\ i \in DOMAIN h /\ i # x /\ i # N
      <4>1. k \in ToSet(h[i].nodes)
        BY <1>9, <2>1, <3>3
      <4>2. k > G /\ h[k].parent = i /\ k \notin Unheld(s, doing)
        BY <1>11, <3>3, <4>1 DEF LinkedFrom
      <4>3. k \in DOMAIN h /\ k # x /\ k \notin ToSet(kids)
        BY <1>4, <1>12, <3>3, <4>1, <4>2 DEF HeapOK
      <4> QED BY <1>9, <4>2, <4>3
    <3> QED BY <1>9, <1>16, <2>1, <3>1, <3>2, <3>3
  <2> QED BY <2>1 DEF LinkedFrom
<1>18. ASSUME NEW y \in Unheld(u, d) PROVE y \in Unheld(s, doing) \/ y = N
  BY <1>3, <1>10, <1>12, <1>18 DEF Unheld
<1>19. FreshOK(h2, u, d)
  <2>1. ASSUME NEW i \in G + 1 .. Len(h2)
        PROVE  /\ \A k \in ToSet(h2[i].nodes) : k \notin Unheld(u, d)
               /\ (\A k \in DOMAIN u : u[k].ast # i) => ~Collapses(h2[i], asked.mode)
    <3>1. CASE i = N
      <4>1. \A k \in ToSet(kids) : k # N
        BY <1>4, <1>12
      <4>2. \A k \in ToSet(h2[i].nodes) : k \notin Unheld(u, d)
        BY <1>9, <1>12, <1>18, <3>1, <4>1
      <4>3. \A k \in DOMAIN s : s[k].ast # x
        <5>1. \A k \in DOMAIN s : s[k].ast < x /\ s[k].ast \in Nat
          BY <1>2, <1>5, WorkingFacts
        <5> QED BY <5>1
      <4>4. ~Collapses(h[x], asked.mode)
        BY <1>5, <1>11, <4>3
      <4> QED BY <1>7, <1>9, <3>1, <4>2, <4>4 DEF Collapses
    <3>2. CASE i = x
      <4>1. ToSet(h2[i].nodes) = {} /\ Len(h2[i].nodes) = 0
        BY <1>9, <3>2, ShortSeqs
      <4> QED BY <4>1 DEF Collapses
    <3>3. CASE i \in G + 1 .. Len(h) /\ i \in DOMAIN h /\ i # x /\ i # N
      <4>1. h2[i].nodes = h[i].nodes /\ h2[i].name = h[i].name
        BY <1>9, <3>3
      <4>2. \A k \in ToSet(h[i].nodes) : k \in DOMAIN h /\ k # N
        BY <1>4, <3>3 DEF HeapOK
      <4>3. \A k \in ToSet(h2[i].nodes) : k \notin Unheld(u, d)
        BY <1>11, <1>18, <3>3, <4>1, <4>2
      <4>4. (\A k \in DOMAIN u : u[k].ast # i) => \A k \in DOMAIN s : s[k].ast # i
        <5>1. f.ast # i
          BY <1>1, <1>4, <3>3 DEF NoNodeYet
        <5> QED BY <1>10, <5>1
      <4> QED BY <1>11, <3>3, <4>1, <4>3, <4>4 DEF Collapses
    <3> QED BY <1>9, <1>16, <2>1, <3>1, <3>2, <3>3
  <2> QED BY <1>2, <1>17, <2>1 DEF FreshOK
<1>20. Working(h2, u, d)
  <2>1. asked.given <= Len(h2) /\ asked.root \in 1 .. asked.given
    BY <1>2, <1>4, <1>9 DEF Working
  <2>2. \A i \in 1 .. asked.given : ToSet(h2[i].nodes) \subseteq 1 .. asked.given
    BY <1>2, <1>4, <1>13
  <2> QED BY <1>9, <1>14, <1>15, <1>19, <2>1, <2>2 DEF Working
<1> QED BY <1>1, <1>2, <1>3, <1>13, <1>20 DEF Advances

----------------------------------------------------------------------------
(* The invariant.                                                          *)

(* A parse that begins has no node, no frame and no tree.                  *)
LEMMA InitOK == Init => IInv
<1> SUFFICES ASSUME Init PROVE IInv
  OBVIOUS
<1>1. /\ heap = <<>> /\ memo = <<>> /\ frames = <<>> /\ held = {} /\ calls = <<>>
      /\ ctl = Call(Ref(job.grammar.start), 0) /\ asked = Asked(NoTree, FALSE) /\ doing = Resting
  BY DEF Init, ParseStart
<1>2. asked.given = Len(heap) /\ doing.do = "rest"
  BY <1>1 DEF Asked, Resting
<1>3. Len(heap) = 0 /\ DOMAIN heap = {} /\ IsSeq(heap) /\ DOMAIN memo = {}
  BY <1>1, ShortSeqs
<1>4. HeapOK(heap)
  BY <1>3 DEF HeapOK, Nested
<1>5. StackOK(heap, frames, ctl)
  <2> DEFINE c == Call(Ref(job.grammar.start), 0)
  <2>1. c.do = "call" /\ c = Call(c.node, c.pos) /\ c.pos = 0
    BY DEF Call
  <2>2. ctl = c
    BY <1>1
  <2> HIDE DEF c
  <2>3. Base(frames) = 0 /\ DOMAIN frames = {} /\ Len(frames) = 0 /\ IsSeq(frames)
    BY <1>1, ShortSeqs DEF Base
  <2>4. IsControl(heap, frames, ctl)
    BY <2>1, <2>2, <2>3 DEF IsControl
  <2>5. \A k \in 2 .. Len(frames) : FALSE
    BY <2>3
  <2> QED BY <1>1, <2>3, <2>4, <2>5 DEF StackOK
<1>6. Loose(heap, frames, ctl)
  <2>1. Len(frames) = 0 /\ ctl.vals = <<>>
    BY <1>1, ShortSeqs DEF Call
  <2>2. ASSUME NEW l \in 1 .. Len(frames) + 1 PROVE Pending(frames, ctl, l) = {}
    <3>1. ~(l <= Len(frames))
      BY <2>1
    <3> QED BY <2>1, <3>1, ShortSeqs DEF Pending
  <2> QED BY <2>2 DEF Loose
<1>7. LinkedFrom(heap, 0)
  <2>1. \A i \in 0 + 1 .. Len(heap) : FALSE
    BY <1>3
  <2> QED BY <2>1 DEF LinkedFrom
<1>8. Parsing
  BY <1>2, <1>3, <1>5, <1>6, <1>7 DEF Parsing, MemoOK
<1>9. ParseOK /\ TreesLinked /\ ChainsGone
  BY <1>1, <1>8 DEF ParseOK, TreesLinked, ChainsGone
<1>10. OptimizeOK
  <2>1. asked.given \in Nat /\ asked.given <= Len(heap)
    BY <1>2, <1>3
  <2> QED BY <1>1, <1>2, <2>1 DEF OptimizeOK
<1> QED BY <1>4, <1>9, <1>10 DEF IInv

(* Nothing that is said of the optimization is of more than its variables. *)
LEMMA WorkingPrime ==
  ASSUME Working(heap', calls', doing'), asked' = asked, job' = job
  PROVE  Working(heap, calls, doing)'
<1>1. \A n, mode : Collapses(n, mode)' <=> Collapses(n, mode)
  BY DEF Collapses, get_no_ast_opt_rules, EmittedName, rules
<1>2. CallsOK(heap, calls)'
  BY <1>1 DEF Working, CallsOK, IsCall
<1>3. DoingOK(heap, calls, doing)'
  BY DEF Working, DoingOK, Wanted
<1>4. FreshOK(heap, calls, doing)'
  BY <1>1 DEF Working, FreshOK
<1> QED BY <1>2, <1>3, <1>4 DEF Working

(* The trees stay as they are while their nodes do.                        *)
LEMMA TreesStand ==
  ASSUME TreesLinked, ChainsGone, job' = job, NEW G \in Nat,
         \A t \in held : t.made \subseteq 1 .. G,
         \A i \in 1 .. G : heap'[i] = heap[i]
  PROVE  \A t \in held : Linked(t)' /\ (t.from # NoTree => \A i \in t.made : ~Collapses(heap[i], t.mode)')
<1>1. \A n, mode : Collapses(n, mode)' <=> Collapses(n, mode)
  BY DEF Collapses, get_no_ast_opt_rules, EmittedName, rules
<1>2. ASSUME NEW t \in held PROVE Linked(t)'
  <2>1. \A i \in t.made : heap'[i] = heap[i]
    OBVIOUS
  <2> QED BY <1>2, <2>1 DEF TreesLinked, Linked, Kids
<1>3. ASSUME NEW t \in held, t.from # NoTree, NEW i \in t.made PROVE ~Collapses(heap[i], t.mode)'
  <2>1. heap'[i] = heap[i] /\ ~Collapses(heap[i], t.mode)
    BY <1>3 DEF ChainsGone
  <2> QED BY <1>1, <2>1 DEF Collapses
<1> QED BY <1>2, <1>3

(* Every step keeps the invariant.                                         *)
LEMMA NextOK == IInv /\ [Next]_vars => IInv'
<1> SUFFICES ASSUME IInv, [Next]_vars PROVE IInv'
  OBVIOUS
<1> USE DEF IInv
<1>1. CASE ParseStep /\ UNCHANGED <<held, optimizing>>
  <2>1. held = {}
    <3>1. ctl.do = "call" \/ frames # <<>>
      BY <1>1 DEF ParseStep, Combinator, Match, SequenceEnter, SequenceResume, ChoiceEnter, ChoiceResume,
                  RepetitionEnter, RepetitionResume, UnaryEnter, AndResume, NotResume, TokenResume, IgnoreResume,
                  RuleEnter, RuleReturn, Entering, Resuming
    <3> QED BY <3>1 DEF ParseOK
  <2>2. Parsing
    BY <2>1 DEF ParseOK
  <2>3. HeapOK(heap') /\ Parsing' /\ held' = {} /\ UNCHANGED optimizing
    BY <1>1, <2>1, <2>2, ParseStepKeeps
  <2>4. doing.do = "rest" /\ calls = <<>> /\ asked.given = 0
    BY <2>2 DEF Parsing, OptimizeOK
  <2>5. Len(heap') \in Nat
    BY <2>3, SeqFacts DEF HeapOK
  <2>6. OptimizeOK'
    BY <2>3, <2>4, <2>5 DEF OptimizeOK, optimizing
  <2> QED BY <2>3, <2>6 DEF ParseOK, TreesLinked, ChainsGone
<1>2. CASE parse
  <2>0. PICK t : t = Held(Head(ctl.vals), NoTree, FALSE, 0)
    OBVIOUS
  <2>1. /\ held = {} /\ held' = {t} /\ heap' = heap /\ job' = job /\ frames' = frames /\ ctl' = ctl
        /\ UNCHANGED optimizing /\ ctl.do = "return" /\ frames = <<>> /\ ctl.vals # <<>>
    BY <1>2, <2>0 DEF parse
  <2>2. Parsing
    BY <2>1 DEF ParseOK
  <2>3. IsResult(heap, ctl, Base(frames))
    BY <2>1, <2>2, BaseFacts DEF Parsing
  <2>4. Len(heap) \in Nat /\ DOMAIN heap = 1 .. Len(heap)
    BY SeqFacts DEF HeapOK
  <2>5. t.root = Head(ctl.vals) /\ t.from = NoTree /\ t.made = DOMAIN heap
    BY <2>0, <2>4 DEF Held
  <2>6. Head(ctl.vals) \in DOMAIN heap
    <3>1. IsSeq(ctl.vals) /\ ToSet(ctl.vals) \subseteq DOMAIN heap
      BY <2>3 DEF IsResult
    <3>2. Head(ctl.vals) \in ToSet(ctl.vals)
      BY <2>1, <3>1, HeadTailProperties DEF IsSeq
    <3> QED BY <3>1, <3>2
  <2>7. Linked(t)'
    <3>1. ASSUME NEW i \in DOMAIN heap, NEW k \in ToSet(heap[i].nodes)
          PROVE  k \in DOMAIN heap /\ (~job.packrat => heap[k].parent = i)
      <4>1. i \in 0 + 1 .. Len(heap)
        BY <2>4
      <4> QED BY <2>2, <4>1 DEF HeapOK, Parsing, LinkedFrom
    <3> QED BY <2>1, <2>5, <2>6, <3>1 DEF Linked, Kids
  <2>8. doing.do = "rest" /\ calls = <<>> /\ asked.given \in Nat /\ asked.given <= Len(heap)
    BY <2>2 DEF Parsing, OptimizeOK
  <2>9. OptimizeOK'
    <3>1. t.root # NoTree
      BY <2>4, <2>5, <2>6 DEF NoTree
    <3>2. IsTree(t)'
      BY <2>1, <2>5, <2>8, <3>1 DEF IsTree, optimizing
    <3> QED BY <2>1, <2>8, <3>2 DEF OptimizeOK, optimizing
  <2>10. ParseOK'
    BY <2>1 DEF ParseOK
  <2>11. TreesLinked' /\ ChainsGone'
    BY <2>1, <2>5, <2>7 DEF TreesLinked, ChainsGone
  <2> QED BY <2>1, <2>9, <2>10, <2>11
<1>3. CASE optimize_ast
  <2>1. PICK t \in held, mode \in BOOLEAN : asked' = Asked(t.root, mode) /\ doing' = Optimize(t.root, Nobody)
    BY <1>3 DEF optimize_ast
  <2>2. /\ doing.do = "rest" /\ held # {} /\ calls = <<>> /\ heap' = heap /\ held' = held /\ calls' = calls
        /\ UNCHANGED parsing
    BY <1>3 DEF optimize_ast, OptimizeOK
  <2>3. /\ asked'.root = t.root /\ asked'.given = Len(heap)
        /\ doing'.do = "optimize" /\ doing'.id = t.root /\ doing'.parent = Nobody
    BY <2>1 DEF Asked, Optimize
  <2>4. Len(heap) \in Nat /\ DOMAIN heap = 1 .. Len(heap)
    BY SeqFacts DEF HeapOK
  <2>5. t.root \in 1 .. Len(heap)
    <3>1. t.root \in t.made
      BY DEF TreesLinked, Linked
    <3>2. t.made \subseteq DOMAIN heap
      BY DEF OptimizeOK, IsTree
    <3> QED BY <2>4, <3>1, <3>2
  <2>6. CallsOK(heap, calls)'
    <3>1. IsSeq(calls') /\ DOMAIN calls' = {}
      BY <2>2, ShortSeqs
    <3> QED BY <3>1 DEF CallsOK
  <2>7. DoingOK(heap, calls, doing)'
    BY <2>2, <2>3 DEF DoingOK, Wanted, Root
  <2>8. FreshOK(heap, calls, doing)'
    <3>1. \A i \in asked'.given + 1 .. Len(heap') : FALSE
      BY <2>2, <2>3, <2>4
    <3> QED BY <3>1 DEF FreshOK, LinkedFrom
  <2>9. Working(heap, calls, doing)'
    BY <2>2, <2>3, <2>4, <2>5, <2>6, <2>7, <2>8 DEF Working, HeapOK
  <2>10. OptimizeOK'
    <3>1. asked'.given \in Nat /\ asked'.given <= Len(heap') /\ doing'.do # "rest"
      BY <2>2, <2>3, <2>4
    <3>2. ASSUME NEW o \in held PROVE IsTree(o)'
      BY <2>2, <2>3, <2>4 DEF OptimizeOK, IsTree
    <3> QED BY <2>2, <2>9, <3>1, <3>2 DEF OptimizeOK
  <2>11. ParseOK'
    BY <2>2 DEF ParseOK, parsing
  <2>12. TreesLinked' /\ ChainsGone'
    <3>1. job' = job
      BY <2>2 DEF parsing
    <3>2. \A o \in held : Linked(o)' /\ (o.from # NoTree => \A i \in o.made : ~Collapses(heap[i], o.mode)')
      <4>1. \A o \in held : o.made \subseteq 1 .. Len(heap)
        BY <2>4 DEF OptimizeOK, IsTree
      <4> QED BY <2>2, <2>4, <3>1, <4>1, TreesStand
    <3> QED BY <2>2, <3>2 DEF TreesLinked, ChainsGone
  <2> QED BY <2>2, <2>10, <2>11, <2>12
<1>4. CASE optimize
  <2>1. UNCHANGED <<held, parsing, asked>>
    BY <1>4 DEF optimize, Await, Collapse, Copy, Fill
  <2>2. doing.do # "rest"
    BY <1>4 DEF optimize, Await, Collapse, Copy, Fill
  <2>3. Working(heap, calls, doing) /\ asked.given \in Nat
    BY <2>2 DEF OptimizeOK
  <2>4. Advances
    BY <1>4, <2>3, AwaitAdvances, CollapseAdvances, CopyAdvances, FillAdvances DEF optimize
  <2>5. Working(heap, calls, doing)'
    BY <2>1, <2>4, WorkingPrime DEF Advances, parsing
  <2>6. held # {}
    BY <2>2 DEF ParseOK, Parsing
  <2>7. \A t \in held : t.made \subseteq 1 .. asked.given /\ t.root # NoTree
    BY <2>2 DEF OptimizeOK, IsTree
  <2>8. OptimizeOK'
    <3>1. asked'.given <= Len(heap') /\ asked'.given \in Nat /\ doing'.do # "rest"
      BY <2>1, <2>3, <2>4, <2>5 DEF Working, Advances
    <3>2. Len(heap') \in Nat /\ DOMAIN heap' = 1 .. Len(heap')
      BY <2>5, SeqFacts DEF Working, HeapOK
    <3>3. ASSUME NEW t \in held PROVE IsTree(t)'
      <4>1. 1 .. asked.given \subseteq DOMAIN heap'
        BY <2>1, <3>1, <3>2
      <4> QED BY <2>1, <2>7, <4>1 DEF IsTree
    <3> QED BY <2>1, <2>5, <3>1, <3>3 DEF OptimizeOK
  <2>9. TreesLinked' /\ ChainsGone'
    <3>1. \A t \in held : Linked(t)' /\ (t.from # NoTree => \A i \in t.made : ~Collapses(heap[i], t.mode)')
      BY <2>1, <2>3, <2>4, <2>7, TreesStand DEF Advances, parsing
    <3> QED BY <2>1, <3>1 DEF TreesLinked, ChainsGone
  <2>10. ParseOK'
    BY <2>1, <2>6 DEF ParseOK, parsing
  <2>11. HeapOK(heap)'
    BY <2>5 DEF Working
  <2> QED BY <2>8, <2>9, <2>10, <2>11
<1>5. CASE Finish
  <2>0. PICK t : t = Held(doing.id, asked.root, asked.mode, asked.given)
    OBVIOUS
  <2>1. /\ doing.do = "optimized" /\ calls = <<>> /\ held' = held \cup {t} /\ doing' = Resting
        /\ heap' = heap /\ UNCHANGED <<parsing, asked, calls>>
    BY <1>5, <2>0 DEF Finish
  <2>2. Working(heap, calls, doing) /\ asked.given \in Nat /\ asked.given <= Len(heap) /\ held # {}
    BY <2>1 DEF OptimizeOK, ParseOK, Parsing
  <2>3. Len(heap) \in Nat /\ DOMAIN heap = 1 .. Len(heap) /\ job' = job
    BY <2>1, SeqFacts DEF HeapOK, parsing
  <2>4. t.root = doing.id /\ t.from = asked.root /\ t.mode = asked.mode /\ t.made = asked.given + 1 .. Len(heap)
    BY <2>0 DEF Held
  <2>5. /\ doing.id \in asked.given + 1 .. Len(heap) /\ LinkedFrom(heap, asked.given)
        /\ \A i \in asked.given + 1 .. Len(heap) : ~Collapses(heap[i], asked.mode)
    <3>1. DOMAIN calls = {}
      BY <2>1, ShortSeqs
    <3> QED BY <2>1, <2>2, <3>1 DEF Working, DoingOK, FreshOK
  <2>6. Linked(t)'
    <3>1. ASSUME NEW i \in t.made, NEW k \in ToSet(heap[i].nodes) PROVE k \in t.made /\ heap[k].parent = i
      <4>1. k > asked.given /\ heap[k].parent = i
        BY <2>4, <2>5, <3>1 DEF LinkedFrom
      <4>2. k \in DOMAIN heap
        BY <2>2, <2>3, <2>4, <3>1 DEF HeapOK
      <4> QED BY <2>2, <2>3, <2>4, <4>1, <4>2
    <3> QED BY <2>1, <2>4, <2>5, <3>1 DEF Linked, Kids
  <2>7. \A o \in held : Linked(o)' /\ (o.from # NoTree => \A i \in o.made : ~Collapses(heap[i], o.mode)')
    <3>1. \A o \in held : o.made \subseteq 1 .. Len(heap)
      BY <2>3 DEF OptimizeOK, IsTree
    <3> QED BY <2>1, <2>3, <3>1, TreesStand
  <2>8. \A i \in t.made : ~Collapses(heap[i], t.mode)'
    <3>1. \A n, mode : Collapses(n, mode)' <=> Collapses(n, mode)
      BY <2>3 DEF Collapses, get_no_ast_opt_rules, EmittedName, rules
    <3> QED BY <2>1, <2>4, <2>5, <3>1 DEF Collapses
  <2>9. TreesLinked' /\ ChainsGone'
    BY <2>1, <2>6, <2>7, <2>8 DEF TreesLinked, ChainsGone
  <2>10. OptimizeOK'
    <3>1. doing'.do = "rest"
      BY <2>1 DEF Resting
    <3>2. t.root # NoTree /\ t.made \subseteq DOMAIN heap
      BY <2>2, <2>3, <2>4, <2>5 DEF NoTree
    <3>3. IsTree(t)' /\ \A o \in held : IsTree(o)'
      BY <2>1, <3>1, <3>2 DEF IsTree, OptimizeOK
    <3> QED BY <2>1, <2>2, <3>1, <3>3 DEF OptimizeOK
  <2>11. ParseOK'
    <3>1. ctl.do = "return" /\ frames = <<>>
      BY <2>2 DEF ParseOK
    <3> QED BY <2>1, <3>1 DEF ParseOK, parsing
  <2> QED BY <2>1, <2>9, <2>10, <2>11
<1>6. CASE UNCHANGED vars
  <2>1. heap' = heap /\ held' = held /\ UNCHANGED parsing /\ UNCHANGED optimizing
    BY <1>6 DEF vars
  <2>2. job' = job /\ frames' = frames /\ ctl' = ctl /\ memo' = memo /\ asked' = asked /\ calls' = calls /\ doing' = doing
    BY <2>1 DEF parsing, optimizing
  <2>3. Parsing => Parsing'
    BY <2>1, <2>2 DEF Parsing
  <2>4. OptimizeOK'
    <3>1. doing.do # "rest" => Working(heap, calls, doing)'
      BY <2>1, <2>2, WorkingPrime DEF OptimizeOK
    <3> QED BY <2>1, <2>2, <3>1 DEF OptimizeOK, IsTree
  <2>5. TreesLinked' /\ ChainsGone'
    <3>1. Len(heap) \in Nat /\ \A t \in held : t.made \subseteq 1 .. Len(heap)
      BY SeqFacts DEF HeapOK, OptimizeOK, IsTree
    <3>2. \A t \in held : Linked(t)' /\ (t.from # NoTree => \A i \in t.made : ~Collapses(heap[i], t.mode)')
      BY <2>1, <2>2, <3>1, TreesStand
    <3> QED BY <2>1, <3>2 DEF TreesLinked, ChainsGone
  <2> QED BY <2>1, <2>2, <2>3, <2>4, <2>5 DEF ParseOK
<1> QED BY <1>1, <1>2, <1>3, <1>4, <1>5, <1>6 DEF Next

(* What a parse and the optimizations keep at every step.                  *)
THEOREM TreeInvariant == Spec => []IInv
<1> QED BY InitOK, NextOK, PTL DEF Spec

(* The parent of a node of an optimized tree, and of one parsed without    *)
(* packrat parsing, is the node that holds it; a tree is closed, and two   *)
(* share no node.                                                          *)
THEOREM TreesAreLinked == Spec => []TreesLinked
<1>1. IInv => TreesLinked
  BY DEF IInv
<1> QED BY <1>1, TreeInvariant, PTL

(* A node's text holds its kids' texts, in order, also where a chain was   *)
(* folded into one node.                                                   *)
THEOREM ExtentsAreNested == Spec => []ExtentsNest
<1>1. IInv => ExtentsNest
  BY DEF IInv, HeapOK, ExtentsNest
<1> QED BY <1>1, TreeInvariant, PTL

(* An optimized tree has no chain left to fold, in the mode it was         *)
(* optimized in.                                                           *)
THEOREM NoChainIsLeft == Spec => []ChainsGone
<1>1. IInv => ChainsGone
  BY DEF IInv
<1> QED BY <1>1, TreeInvariant, PTL

(* Optimizing changes no node of the trees that were there.                *)
THEOREM OriginalsStand == Spec => OriginalStands
<1>1. IInv /\ [Next]_vars => [Stands]_vars
  <2> SUFFICES ASSUME IInv, Next PROVE Stands
    OBVIOUS
  <2> USE DEF IInv
  <2>1. CASE ParseStep
    <3>1. ctl.do = "call" \/ frames # <<>>
      BY <2>1 DEF ParseStep, Combinator, Match, SequenceEnter, SequenceResume, ChoiceEnter, ChoiceResume,
                  RepetitionEnter, RepetitionResume, UnaryEnter, AndResume, NotResume, TokenResume, IgnoreResume,
                  RuleEnter, RuleReturn, Entering, Resuming
    <3>2. asked.given = 0
      BY <3>1 DEF ParseOK, Parsing
    <3> QED BY <3>2 DEF Stands
  <2>2. CASE optimize
    <3>1. doing.do # "rest"
      BY <2>2 DEF optimize, Await, Collapse, Copy, Fill
    <3>2. Working(heap, calls, doing) /\ asked.given \in Nat
      BY <3>1 DEF OptimizeOK
    <3>3. Advances
      BY <2>2, <3>2, AwaitAdvances, CollapseAdvances, CopyAdvances, FillAdvances DEF optimize
    <3> QED BY <3>3 DEF Advances, Stands
  <2>3. CASE parse \/ optimize_ast \/ Finish
    BY <2>3 DEF parse, optimize_ast, Finish, Stands
  <2> QED BY <2>1, <2>2, <2>3 DEF Next
<1> QED BY <1>1, TreeInvariant, PTL DEF Spec, OriginalStands
=============================================================================
