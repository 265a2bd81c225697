-------------------------- MODULE ParseStackProofs --------------------------
(***************************************************************************)
(* Proofs about the stack of frames.                                       *)
(***************************************************************************)
EXTENDS ParseInvariant, SequenceTheorems, FiniteSetTheorems, WellFoundedInduction, TLAPS

----------------------------------------------------------------------------
(* Sequences.                                                              *)
LEMMA SeqIsSeq ==
  ASSUME NEW S, NEW s \in Seq(S)
  PROVE  /\ IsSeq(s) /\ Len(s) \in Nat /\ DOMAIN s = 1 .. Len(s)
         /\ (s = <<>> <=> Len(s) = 0)
<1>1. Len(s) \in Nat /\ s \in [1 .. Len(s) -> S] /\ DOMAIN s = 1 .. Len(s)
  BY LenProperties
<1>2. s \in [1 .. Len(s) -> ToSet(s)]
  BY <1>1 DEF ToSet
<1>3. s \in Seq(ToSet(s))
  BY <1>1, <1>2, SeqDef
<1>4. s = <<>> <=> Len(s) = 0
  BY <1>1, EmptySeq
<1> QED BY <1>1, <1>3, <1>4 DEF IsSeq

(* A sequence has a length and is empty only at length 0.                  *)
LEMMA SeqFacts ==
  ASSUME NEW s, IsSeq(s)
  PROVE  /\ Len(s) \in Nat /\ DOMAIN s = 1 .. Len(s)
         /\ (s = <<>> <=> Len(s) = 0)
BY SeqIsSeq DEF IsSeq

(* Appending adds one last element and keeps the others.                   *)
LEMMA AppendFacts ==
  ASSUME NEW s, IsSeq(s), NEW e
  PROVE  /\ IsSeq(Append(s, e)) /\ Append(s, e) # <<>>
         /\ Len(Append(s, e)) = Len(s) + 1
         /\ DOMAIN Append(s, e) = 1 .. Len(s) + 1
         /\ Last(Append(s, e)) = e
         /\ Append(s, e)[Len(s) + 1] = e
         /\ \A k \in 1 .. Len(s) : Append(s, e)[k] = s[k]
<1> DEFINE S == ToSet(s) \cup {e}
<1>1. s \in Seq(S)
  BY SeqMonotonic DEF IsSeq
<1>2. /\ Append(s, e) \in Seq(S) /\ Len(Append(s, e)) = Len(s) + 1
      /\ Append(s, e)[Len(s) + 1] = e
      /\ \A k \in 1 .. Len(s) : Append(s, e)[k] = s[k]
  BY <1>1, SeqFacts
<1>3. IsSeq(Append(s, e)) /\ DOMAIN Append(s, e) = 1 .. Len(s) + 1
  BY <1>2, SeqIsSeq
<1>4. Append(s, e) # <<>>
  BY <1>2, <1>3, SeqFacts
<1> QED BY <1>2, <1>3, <1>4, SeqFacts DEF Last

(* Front drops the last element and keeps the others.                      *)
LEMMA FrontFacts ==
  ASSUME NEW s, IsSeq(s), s # <<>>
  PROVE  /\ IsSeq(Front(s))
         /\ Len(Front(s)) = Len(s) - 1
         /\ DOMAIN Front(s) = 1 .. Len(s) - 1
         /\ \A k \in 1 .. Len(s) - 1 : Front(s)[k] = s[k]
<1>1. Len(s) \in Nat /\ Len(s) >= 1 /\ DOMAIN s = 1 .. Len(s)
  BY SeqFacts
<1>2. \A k \in 1 .. Len(s) - 1 : s[k] \in ToSet(s)
  BY <1>1 DEF ToSet
<1>3. /\ Front(s) \in Seq(ToSet(s)) /\ Len(Front(s)) = Len(s) - 1
      /\ \A k \in 1 .. Len(s) - 1 : Front(s)[k] = s[k]
  BY <1>1, <1>2, SubSeqProperties DEF Front
<1> QED BY <1>3, SeqIsSeq

(* SetTop changes the last element alone.                                  *)
LEMMA SetTopFacts ==
  ASSUME NEW s, IsSeq(s), s # <<>>, NEW e
  PROVE  /\ IsSeq(SetTop(s, e)) /\ SetTop(s, e) # <<>>
         /\ Len(SetTop(s, e)) = Len(s)
         /\ DOMAIN SetTop(s, e) = 1 .. Len(s)
         /\ Last(SetTop(s, e)) = e /\ SetTop(s, e)[Len(s)] = e
         /\ \A k \in 1 .. Len(s) - 1 : SetTop(s, e)[k] = s[k]
<1> DEFINE S == ToSet(s) \cup {e}
<1>1. Len(s) \in Nat /\ Len(s) >= 1
  BY SeqFacts
<1>2. s \in Seq(S)
  BY SeqMonotonic DEF IsSeq
<1>3. /\ SetTop(s, e) \in Seq(S) /\ Len(SetTop(s, e)) = Len(s)
      /\ \A k \in 1 .. Len(s) : SetTop(s, e)[k] = IF k = Len(s) THEN e ELSE s[k]
  BY <1>1, <1>2, ExceptSeq DEF SetTop
<1> QED BY <1>1, <1>3, SeqIsSeq DEF Last

----------------------------------------------------------------------------
(* The stack of frames.                                                    *)

(* Places are natural numbers.                                             *)
LEMMA InputFacts ==
  ASSUME job \in Jobs
  PROVE  /\ Len(input) \in Nat /\ 0 \in Places /\ NoPos \notin Places
         /\ \A p \in Places : p \in Nat /\ p <= Len(input)
         /\ WellFormed(g, Own) /\ IsSeq(input)
<1>1. IsSeq(input)
  BY JobsAssumption DEF IsSeq, input
<1>2. Len(input) \in Nat
  BY <1>1, SeqFacts
<1>3. WellFormed(g, Own)
  BY JobsAssumption DEF Own, g
<1> QED BY <1>1, <1>2, <1>3 DEF Places, NoPos

(* Pushing a frame where the control stands keeps the shape of the stack.  *)
LEMMA EnterKeeps ==
  ASSUME job \in Jobs, NEW s, NEW c, StackOK(s, c), c.do = "call",
         NEW f, FrameOK(f), f.op # "top", f.pos = c.pos,
         NEW e \in Own
  PROVE  StackOK(Append(s, f), Call(e, Standing(f)))
<1> DEFINE t == Append(s, f)
<1>1. IsSeq(s) /\ s # <<>> /\ f.pos = Standing(Last(s))
  BY DEF StackOK, ControlOK
<1>2. /\ Len(s) \in Nat /\ Len(s) > 0 /\ DOMAIN s = 1 .. Len(s)
      /\ IsSeq(t) /\ t # <<>> /\ Len(t) = Len(s) + 1 /\ DOMAIN t = 1 .. Len(s) + 1
      /\ Last(t) = f /\ t[Len(s) + 1] = f /\ \A k \in 1 .. Len(s) : t[k] = s[k]
  BY <1>1, SeqFacts, AppendFacts
<1>3. \A k \in DOMAIN t : FrameOK(t[k]) /\ (t[k].op = "top" <=> k = 1)
  BY <1>2 DEF StackOK
<1>4. \A k \in 2 .. Len(t) : t[k].pos = Standing(t[k - 1])
  BY <1>1, <1>2 DEF StackOK, Last
<1>5. Standing(f) \in Places
  BY InputFacts DEF FrameOK, Fits, Standing, Places
<1>6. ControlOK(t, Call(e, Standing(f)))
  BY <1>2, <1>5, InputFacts DEF ControlOK, Call, Lengths
<1>7. Last(s) = s[Len(s)] /\ FrameOK(Last(s)) /\ \A k \in 1 .. Len(s) : s[k].pos \in Nat
  <2>1. \A k \in 1 .. Len(s) : FrameOK(s[k])
    BY <1>2 DEF StackOK
  <2>2. \A k \in 1 .. Len(s) : s[k].pos \in Nat
    BY <2>1, InputFacts DEF FrameOK
  <2> QED BY <1>2, <2>1, <2>2 DEF Last
<1>8. \A k \in 1 .. Len(s) : s[k].pos <= f.pos
  <2>1. Last(s).pos <= f.pos
    BY <1>1, <1>2, <1>7, InputFacts DEF FrameOK, Standing
  <2>2. \A k \in 1 .. Len(s) : s[k].pos <= Last(s).pos
    BY <1>2, <1>7 DEF StackOK
  <2>3. f.pos \in Nat
    BY InputFacts DEF FrameOK
  <2> QED BY <1>2, <1>7, <2>1, <2>2, <2>3
<1>9. \A k, l \in DOMAIN t : k <= l => t[k].pos <= t[l].pos
  <2>1. f.pos \in Nat
    BY InputFacts DEF FrameOK
  <2> QED BY <1>2, <1>8, <2>1 DEF StackOK
<1> QED BY <1>2, <1>3, <1>4, <1>6, <1>9 DEF StackOK

(* So does calling a further operand from the innermost frame.             *)
LEMMA ResumeKeeps ==
  ASSUME job \in Jobs, NEW s, NEW c, StackOK(s, c), s # <<>>,
         NEW f, FrameOK(f), f.op = "top" <=> Last(s).op = "top", f.pos = Last(s).pos,
         NEW e \in Own
  PROVE  StackOK(SetTop(s, f), Call(e, Standing(f)))
<1> DEFINE t == SetTop(s, f)
<1>1. IsSeq(s)
  BY DEF StackOK
<1>2. /\ Len(s) \in Nat /\ Len(s) > 0 /\ DOMAIN s = 1 .. Len(s)
      /\ IsSeq(t) /\ t # <<>> /\ Len(t) = Len(s) /\ DOMAIN t = 1 .. Len(s)
      /\ Last(t) = f /\ t[Len(s)] = f /\ \A k \in 1 .. Len(s) - 1 : t[k] = s[k]
  BY <1>1, SeqFacts, SetTopFacts
<1>3. \A k \in DOMAIN t : FrameOK(t[k]) /\ (t[k].op = "top" <=> k = 1)
  BY <1>2 DEF StackOK, Last
<1>4. \A k \in 2 .. Len(t) : t[k].pos = Standing(t[k - 1])
  <2> SUFFICES ASSUME NEW k \in 2 .. Len(s) PROVE t[k].pos = Standing(t[k - 1])
    BY <1>2
  <2>1. t[k].pos = s[k].pos /\ t[k - 1] = s[k - 1]
    BY <1>2 DEF Last
  <2> QED BY <2>1 DEF StackOK
<1>5. Standing(f) \in Places
  BY InputFacts DEF FrameOK, Fits, Standing, Places
<1>6. ControlOK(t, Call(e, Standing(f)))
  BY <1>2, <1>5, InputFacts DEF ControlOK, Call, Lengths
<1>7. \A k \in 1 .. Len(s) : t[k].pos = s[k].pos
  BY <1>2 DEF Last
<1>8. \A k, l \in DOMAIN t : k <= l => t[k].pos <= t[l].pos
  BY <1>2, <1>7 DEF StackOK
<1> QED BY <1>2, <1>3, <1>4, <1>6, <1>8 DEF StackOK

(* So does returning a length that fits from the innermost frame.          *)
LEMMA LeaveKeeps ==
  ASSUME job \in Jobs, NEW s, NEW c, StackOK(s, c), s # <<>>, Last(s).op # "top",
         NEW m \in Lengths, Fits(Last(s).pos, m), NEW v
  PROVE  StackOK(Front(s), Return(m, v))
<1> DEFINE t == Front(s)
<1>1. IsSeq(s)
  BY DEF StackOK
<1>2. /\ Len(s) \in Nat /\ Len(s) > 0 /\ DOMAIN s = 1 .. Len(s)
      /\ IsSeq(t) /\ Len(t) = Len(s) - 1 /\ DOMAIN t = 1 .. Len(s) - 1
      /\ \A k \in 1 .. Len(s) - 1 : t[k] = s[k]
  BY <1>1, SeqFacts, FrontFacts
<1>3. Len(s) # 1
  BY <1>2 DEF StackOK, Last
<1>4. \A k \in DOMAIN t : FrameOK(t[k]) /\ (t[k].op = "top" <=> k = 1)
  BY <1>2 DEF StackOK
<1>5. \A k \in 2 .. Len(t) : t[k].pos = Standing(t[k - 1])
  BY <1>2 DEF StackOK
<1>6. Last(s).pos = Standing(Last(t))
  BY <1>2, <1>3 DEF StackOK, Last
<1>7. ControlOK(t, Return(m, v))
  BY <1>6, InputFacts DEF ControlOK, Return
<1>8. \A k, l \in DOMAIN t : k <= l => t[k].pos <= t[l].pos
  <2>1. \A k, l \in DOMAIN s : k <= l => s[k].pos <= s[l].pos
    BY DEF StackOK
  <2>2. \A k \in DOMAIN t : k \in DOMAIN s /\ t[k] = s[k]
    BY <1>2
  <2> HIDE DEF t
  <2> QED BY <2>1, <2>2
<1> QED BY <1>2, <1>4, <1>5, <1>7, <1>8 DEF StackOK

(* So does answering a call without a frame.                               *)
LEMMA AnswerKeeps ==
  ASSUME job \in Jobs, NEW s, NEW c, StackOK(s, c), c.do = "call",
         NEW m \in Lengths, Fits(c.pos, m), NEW v
  PROVE  StackOK(s, Return(m, v))
<1>1. c.pos = Standing(Last(s))
  BY DEF StackOK, ControlOK
<1>2. ControlOK(s, Return(m, v))
  BY <1>1, InputFacts DEF ControlOK, Return
<1> QED BY <1>2 DEF StackOK

(* The stack as the next state reads it.                                   *)
LEMMA StackPrimed ==
  ASSUME job' = job, StackOK(frames', ctl') PROVE StackOK(frames, ctl)'
BY DEF StackOK, ControlOK, FrameOK, IsFrame, IsSeed, HasOperator, IsSeq, Own, Growers, Names,
       rules, g, Places, Lengths, input, Fits, Standing

(* What an operator knows when it is called, and when an operand returns.  *)
LEMMA CallFacts ==
  ASSUME FramesOK, ctl.do = "call"
  PROVE  /\ frames # <<>> /\ node \in Own /\ here \in Places
         /\ here \in Nat /\ here <= Len(input) /\ Len(input) \in Nat
BY InputFacts DEF FramesOK, StackOK, ControlOK, node, here

(* What a resumed frame may rely on: it stands inside the input and the    *)
(* length returned to it fits there.                                       *)
LEMMA ReturnFacts ==
  ASSUME FramesOK, NEW op, Resuming(op)
  PROVE  /\ ctl.do = "return" /\ frames # <<>> /\ FrameOK(top) /\ top.op = op
         /\ len \in Lengths /\ Fits(Standing(top), len)
         /\ top.pos \in Nat /\ top.i \in Nat /\ Standing(top) \in Places
         /\ Len(input) \in Nat /\ Lengths = Places \cup {Fail} /\ Places = 0 .. Len(input)
         /\ (len # Fail => len \in Nat /\ top.i + len \in Places /\ Fits(top.pos, top.i + len))
<1>1. /\ ctl.do = "return" /\ frames # <<>> /\ top.op = op /\ IsSeq(frames)
  BY DEF Resuming, top, FramesOK, StackOK
<1>2. FrameOK(top)
  BY <1>1, SeqFacts DEF top, Last, FramesOK, StackOK
<1>3. len \in Lengths /\ Fits(Standing(top), len)
  BY <1>1 DEF len, top, FramesOK, StackOK, ControlOK
<1>4. Len(input) \in Nat /\ Places = 0 .. Len(input)
  BY InputFacts DEF FramesOK, Places
<1>5. top.pos \in Nat /\ top.i \in Nat /\ top.pos + top.i <= Len(input)
  BY <1>2, <1>4 DEF FrameOK, Fits
<1>6. Standing(top) \in Places
  BY <1>4, <1>5 DEF Standing
<1>7. len # Fail => len \in Nat /\ top.i + len \in Places /\ Fits(top.pos, top.i + len)
  BY <1>3, <1>4, <1>5 DEF Lengths, Fits, Standing, Fail
<1> QED BY <1>1, <1>2, <1>3, <1>4, <1>5, <1>6, <1>7 DEF Lengths

(* The empty seed is a seed.                                               *)
LEMMA NoSeedOK == ASSUME NEW p PROVE IsSeed(NoSeed, p)
<1>1. NoSeed.len = -1 /\ NoSeed.cycle_rules = {} /\ NoSeed.saved_refs = {}
  BY DEF NoSeed, Seed, Fail
<1> QED BY <1>1 DEF IsSeed, Fits, Fail, Lengths

(* A new frame is well formed and stands at its position.                  *)
LEMMA NewFrame ==
  ASSUME job \in Jobs, NEW op \in FrameOps, NEW e, NEW p \in Places,
         op \notin {"top", "skip", "seq"} => e \in Own /\ e.op = IF op \in {"rule", "body"} THEN "ref" ELSE op,
         op \notin {"seq", "top"}
  PROVE  FrameOK(Frame(op, e, p)) /\ Standing(Frame(op, e, p)) = p
<1>1. p \in Nat /\ p <= Len(input)
  BY InputFacts
<1>2. IsSeed(NoSeed, p)
  BY NoSeedOK
<1>3. FrameOK(Frame(op, e, p))
  BY <1>1, <1>2 DEF FrameOK, Frame, IsFrame, HasOperator, Fits, NoPos
<1> QED BY <1>1, <1>3 DEF Standing, Frame

----------------------------------------------------------------------------
(* What can become of the stack in a step of an operator.                  *)
LEMMA EnterStep ==
  ASSUME FramesOK, ctl.do = "call", NEW f, FrameOK(f), f.op # "top", f.pos = here,
         NEW e \in Own, NEW p, p = Standing(f), Enter(f, e, p)
  PROVE  StackOK(frames', ctl')
BY EnterKeeps DEF FramesOK, Enter, here

(* Frames with some of their fields replaced.                              *)
Snapped(f, x) == [f EXCEPT !.snap = x]
Counted(f, k) == [f EXCEPT !.k = k]
Advanced(f, i, k) == [f EXCEPT !.i = i, !.k = k]
CountedSnapped(f, k, x) == [f EXCEPT !.k = k, !.snap = x]
Round(f, i, k, x) == [f EXCEPT !.i = i, !.k = k, !.snap = x]
Reseeded(f, k, s) == [f EXCEPT !.k = k, !.seed = s]

FrameOf(op, e, p, i, k, snap, save, seed) ==
  [op |-> op, node |-> e, pos |-> p, i |-> i, k |-> k, snap |-> snap, save |-> save, seed |-> seed]

(* A well-formed frame is the record of its fields.                        *)
LEMMA FrameParts ==
  ASSUME NEW f, FrameOK(f)
  PROVE  /\ f = FrameOf(f.op, f.node, f.pos, f.i, f.k, f.snap, f.save, f.seed)
         /\ f.i \in Nat /\ f.k \in Nat /\ Fits(f.pos, f.i) /\ IsSeed(f.seed, f.pos)
         /\ Standing(f) = f.pos + f.i
         /\ f.op = "seq" => f.k \in 1 .. Len(f.node.kids)
BY DEF FrameOK, IsFrame, FrameOf, HasOperator, Standing

(* Changing the snapshot keeps the other fields.                           *)
LEMMA SnappedIs ==
  ASSUME NEW f, FrameOK(f), NEW x
  PROVE  Snapped(f, x) = FrameOf(f.op, f.node, f.pos, f.i, f.k, x, f.save, f.seed)
<1>1. [FrameOf(f.op, f.node, f.pos, f.i, f.k, f.snap, f.save, f.seed)
        EXCEPT !.snap = x] = FrameOf(f.op, f.node, f.pos, f.i, f.k, x, f.save, f.seed)
  BY DEF FrameOf
<1> QED BY FrameParts, <1>1 DEF Snapped

(* Changing the counter keeps the other fields.                            *)
LEMMA CountedIs ==
  ASSUME NEW f, FrameOK(f), NEW k
  PROVE  Counted(f, k) = FrameOf(f.op, f.node, f.pos, f.i, k, f.snap, f.save, f.seed)
<1>1. [FrameOf(f.op, f.node, f.pos, f.i, f.k, f.snap, f.save, f.seed)
        EXCEPT !.k = k] = FrameOf(f.op, f.node, f.pos, f.i, k, f.snap, f.save, f.seed)
  BY DEF FrameOf
<1> QED BY FrameParts, <1>1 DEF Counted

(* Advancing changes the offset and the counter alone.                     *)
LEMMA AdvancedIs ==
  ASSUME NEW f, FrameOK(f), NEW i, NEW k
  PROVE  Advanced(f, i, k) = FrameOf(f.op, f.node, f.pos, i, k, f.snap, f.save, f.seed)
<1>1. [FrameOf(f.op, f.node, f.pos, f.i, f.k, f.snap, f.save, f.seed)
        EXCEPT !.i = i] = FrameOf(f.op, f.node, f.pos, i, f.k, f.snap, f.save, f.seed)
  BY DEF FrameOf
<1>2. [FrameOf(f.op, f.node, f.pos, i, f.k, f.snap, f.save, f.seed)
        EXCEPT !.k = k] = FrameOf(f.op, f.node, f.pos, i, k, f.snap, f.save, f.seed)
  BY DEF FrameOf
<1>3. [f EXCEPT !.i = i] = FrameOf(f.op, f.node, f.pos, i, f.k, f.snap, f.save, f.seed)
  BY FrameParts, <1>1
<1> QED BY <1>3, <1>2 DEF Advanced

(* Changing counter and snapshot keeps the other fields.                   *)
LEMMA CountedSnappedIs ==
  ASSUME NEW f, FrameOK(f), NEW k, NEW x
  PROVE  CountedSnapped(f, k, x) = FrameOf(f.op, f.node, f.pos, f.i, k, x, f.save, f.seed)
<1>1. [FrameOf(f.op, f.node, f.pos, f.i, f.k, f.snap, f.save, f.seed)
        EXCEPT !.k = k] = FrameOf(f.op, f.node, f.pos, f.i, k, f.snap, f.save, f.seed)
  BY DEF FrameOf
<1>2. [FrameOf(f.op, f.node, f.pos, f.i, k, f.snap, f.save, f.seed)
        EXCEPT !.snap = x] = FrameOf(f.op, f.node, f.pos, f.i, k, x, f.save, f.seed)
  BY DEF FrameOf
<1>3. [f EXCEPT !.k = k] = FrameOf(f.op, f.node, f.pos, f.i, k, f.snap, f.save, f.seed)
  BY FrameParts, <1>1
<1> QED BY <1>3, <1>2 DEF CountedSnapped

(* A round changes offset, counter and snapshot alone.                     *)
LEMMA RoundIs ==
  ASSUME NEW f, FrameOK(f), NEW i, NEW k, NEW x
  PROVE  Round(f, i, k, x) = FrameOf(f.op, f.node, f.pos, i, k, x, f.save, f.seed)
<1>1. [FrameOf(f.op, f.node, f.pos, f.i, f.k, f.snap, f.save, f.seed)
        EXCEPT !.i = i] = FrameOf(f.op, f.node, f.pos, i, f.k, f.snap, f.save, f.seed)
  BY DEF FrameOf
<1>2. [FrameOf(f.op, f.node, f.pos, i, f.k, f.snap, f.save, f.seed)
        EXCEPT !.k = k] = FrameOf(f.op, f.node, f.pos, i, k, f.snap, f.save, f.seed)
  BY DEF FrameOf
<1>3. [FrameOf(f.op, f.node, f.pos, i, k, f.snap, f.save, f.seed)
        EXCEPT !.snap = x] = FrameOf(f.op, f.node, f.pos, i, k, x, f.save, f.seed)
  BY DEF FrameOf
<1>4. [f EXCEPT !.i = i] = FrameOf(f.op, f.node, f.pos, i, f.k, f.snap, f.save, f.seed)
  BY FrameParts, <1>1
<1>5. [f EXCEPT !.i = i, !.k = k] = FrameOf(f.op, f.node, f.pos, i, k, f.snap, f.save, f.seed)
  BY <1>4, <1>2
<1> QED BY <1>5, <1>3 DEF Round

(* Changing the seed changes it and the counter alone.                     *)
LEMMA ReseededIs ==
  ASSUME NEW f, FrameOK(f), NEW k, NEW s
  PROVE  Reseeded(f, k, s) = FrameOf(f.op, f.node, f.pos, f.i, k, f.snap, f.save, s)
<1>1. [FrameOf(f.op, f.node, f.pos, f.i, f.k, f.snap, f.save, f.seed)
        EXCEPT !.k = k] = FrameOf(f.op, f.node, f.pos, f.i, k, f.snap, f.save, f.seed)
  BY DEF FrameOf
<1>2. [FrameOf(f.op, f.node, f.pos, f.i, k, f.snap, f.save, f.seed)
        EXCEPT !.seed = s] = FrameOf(f.op, f.node, f.pos, f.i, k, f.snap, f.save, s)
  BY DEF FrameOf
<1>3. [f EXCEPT !.k = k] = FrameOf(f.op, f.node, f.pos, f.i, k, f.snap, f.save, f.seed)
  BY FrameParts, <1>1
<1> QED BY <1>3, <1>2 DEF Reseeded

(* A frame with another snapshot is well formed and stands where it stood. *)
LEMMA SnappedFacts ==
  ASSUME NEW f, FrameOK(f), NEW x
  PROVE  /\ FrameOK(Snapped(f, x)) /\ Snapped(f, x).op = f.op /\ Snapped(f, x).pos = f.pos
         /\ Snapped(f, x).node = f.node /\ Standing(Snapped(f, x)) = Standing(f)
BY SnappedIs DEF FrameOK, IsFrame, HasOperator, Standing, FrameOf

(* A frame with another counter is well formed and stands where it stood.  *)
LEMMA CountedFacts ==
  ASSUME NEW f, FrameOK(f), NEW k \in Nat, f.op # "seq"
  PROVE  /\ FrameOK(Counted(f, k)) /\ Counted(f, k).op = f.op /\ Counted(f, k).pos = f.pos
         /\ Counted(f, k).node = f.node /\ Standing(Counted(f, k)) = Standing(f)
BY CountedIs DEF FrameOK, IsFrame, HasOperator, Standing, FrameOf

(* A frame advanced by what fits is well formed and stands further on.     *)
LEMMA AdvancedFacts ==
  ASSUME NEW f, FrameOK(f), NEW i \in Nat, Fits(f.pos, i),
         f.op \in {"seq", "top", "body"}, NEW k \in Nat, f.op = "seq" => k \in 1 .. Len(f.node.kids)
  PROVE  /\ FrameOK(Advanced(f, i, k)) /\ Advanced(f, i, k).op = f.op /\ Advanced(f, i, k).pos = f.pos
         /\ Advanced(f, i, k).node = f.node /\ Standing(Advanced(f, i, k)) = f.pos + i
BY AdvancedIs DEF FrameOK, IsFrame, HasOperator, Standing, FrameOf

(* A frame with another counter and snapshot stands where it stood.        *)
LEMMA CountedSnappedFacts ==
  ASSUME NEW f, FrameOK(f), NEW k \in Nat, f.op # "seq", NEW x
  PROVE  /\ FrameOK(CountedSnapped(f, k, x)) /\ CountedSnapped(f, k, x).op = f.op /\ CountedSnapped(f, k, x).pos = f.pos
         /\ CountedSnapped(f, k, x).node = f.node /\ Standing(CountedSnapped(f, k, x)) = Standing(f)
BY CountedSnappedIs DEF FrameOK, IsFrame, HasOperator, Standing, FrameOf

(* A repetition advanced by what fits is well formed and stands further    *)
(* on.                                                                     *)
LEMMA RoundFacts ==
  ASSUME NEW f, FrameOK(f), NEW i \in Nat, Fits(f.pos, i),
         f.op = "rep", NEW k \in Nat, NEW x
  PROVE  /\ FrameOK(Round(f, i, k, x)) /\ Round(f, i, k, x).op = f.op /\ Round(f, i, k, x).pos = f.pos
         /\ Round(f, i, k, x).node = f.node /\ Standing(Round(f, i, k, x)) = f.pos + i
BY RoundIs DEF FrameOK, IsFrame, HasOperator, Standing, FrameOf

(* A frame with another seed is well formed and stands where it stood.     *)
LEMMA ReseededFacts ==
  ASSUME NEW f, FrameOK(f), NEW k \in Nat, NEW s, IsSeed(s, f.pos), f.op # "seq"
  PROVE  /\ FrameOK(Reseeded(f, k, s)) /\ Reseeded(f, k, s).op = f.op /\ Reseeded(f, k, s).pos = f.pos
         /\ Reseeded(f, k, s).node = f.node /\ Standing(Reseeded(f, k, s)) = Standing(f)
BY ReseededIs DEF FrameOK, IsFrame, HasOperator, Standing, FrameOf

(* An operator that calls its operand where it was called itself.          *)
Plainly == FrameOps \ {"top", "skip", "seq", "rule", "body"}

(* An operator that enters its operand with a new frame keeps the stack.   *)
LEMMA EnterNewStep ==
  ASSUME FramesOK, NEW op \in Plainly, Entering(op), NEW e \in Own,
         Enter(Frame(op, node, here), e, here)
  PROVE  StackOK(frames', ctl')
<1>1. ctl.do = "call" /\ node.op = op /\ node \in Own /\ here \in Places /\ job \in Jobs
  BY CallFacts DEF Entering, node, FramesOK
<1>2. FrameOK(Frame(op, node, here)) /\ Standing(Frame(op, node, here)) = here
  BY <1>1, NewFrame DEF Plainly
<1>3. Frame(op, node, here).op = op /\ Frame(op, node, here).pos = here
  BY DEF Frame
<1> QED BY <1>1, <1>2, <1>3, EnterStep DEF Plainly

(* So does one that takes a snapshot first.                                *)
LEMMA EnterSnapStep ==
  ASSUME FramesOK, NEW op \in Plainly, Entering(op), NEW e \in Own,
         Enter([Frame(op, node, here) EXCEPT !.snap = Snapshot], e, here)
  PROVE  StackOK(frames', ctl')
<1> DEFINE f == Frame(op, node, here)
<1>1. ctl.do = "call" /\ node.op = op /\ node \in Own /\ here \in Places /\ job \in Jobs
  BY CallFacts DEF Entering, node, FramesOK
<1>2. FrameOK(f) /\ f.op = op /\ f.pos = here /\ Standing(f) = here
  BY <1>1, NewFrame DEF Plainly, Frame
<1>3. Enter(Snapped(f, Snapshot), e, here)
  BY DEF Snapped
<1> HIDE DEF f
<1> QED BY <1>1, <1>2, <1>3, SnappedFacts, EnterStep DEF Plainly

(* So does an operator that calls its next operand.                        *)
LEMMA ResumeStep ==
  ASSUME FramesOK, NEW op, op # "top", Resuming(op),
         NEW f, FrameOK(f), f.op # "top", f.pos = top.pos,
         NEW e \in Own, NEW p, p = Standing(f), Resume(f, e, p)
  PROVE  StackOK(frames', ctl')
BY ResumeKeeps DEF FramesOK, Resume, Resuming, top

(* So does an operator that returns what fits.                             *)
LEMMA LeaveStep ==
  ASSUME FramesOK, NEW op, op # "top", Resuming(op),
         NEW m \in Lengths, Fits(top.pos, m), Leave(m)
  PROVE  StackOK(frames', ctl')
BY LeaveKeeps DEF FramesOK, Leave, Resuming, top

(* So does an operator without operands.                                   *)
LEMMA AnswerStep ==
  ASSUME FramesOK, ctl.do = "call", NEW m \in Lengths, Fits(here, m), Answer(m)
  PROVE  StackOK(frames', ctl')
BY AnswerKeeps DEF FramesOK, Answer, here

(* A match of m bytes, with the whitespace after it.                       *)
LEMMA MatchedStep ==
  ASSUME FramesOK, ctl.do = "call", NEW m \in Nat, Fits(here, m), MatchedFrom(here, m)
  PROVE  StackOK(frames', ctl')
<1> DEFINE f == SkipFrame(here, m)
<1>1. /\ here \in Places /\ here \in Nat /\ here + m <= Len(input) /\ m \in Lengths
      /\ job \in Jobs /\ WellFormed(g, Own)
  BY CallFacts, InputFacts DEF Fits, Lengths, Places, FramesOK
<1>2. CASE Skips(in_token_boundary_count)
  <2>1. f = [op |-> "skip", node |-> NoNode, pos |-> here, i |-> m, k |-> 0,
             snap |-> NoSnap, save |-> NoPos, seed |-> NoSeed]
    BY DEF SkipFrame, Frame
  <2>2. IsSeed(NoSeed, here)
    BY NoSeedOK
  <2>3. FrameOK(f) /\ f.op # "top" /\ f.pos = here /\ Standing(f) = here + m
    BY <1>1, <2>1, <2>2 DEF FrameOK, IsFrame, FrameOps, Fits, NoPos, Standing
  <2>4. g.whitespace \in Own /\ Enter(f, g.whitespace, here + m)
    BY <1>1, <1>2 DEF Skips, MatchedFrom, WellFormed
  <2> QED BY <2>3, <2>4, EnterStep
<1>3. CASE ~Skips(in_token_boundary_count)
  BY <1>1, <1>3, AnswerStep DEF MatchedFrom
<1> QED BY <1>2, <1>3

(* The operators of the grammar.                                           *)
LEMMA OperatorFacts ==
  ASSUME job \in Jobs, NEW e \in Own
  PROVE  /\ e.op \in {"seq", "cho"} =>
              Len(e.kids) \in Nat /\ \A k \in 1 .. Len(e.kids) : e.kids[k] \in Own
         /\ e.op = "seq" => (e.kids = <<>> <=> Len(e.kids) = 0)
         /\ e.op \in Unary => e.kid \in Own
         /\ e.op = "rep" => e.min \in Nat /\ e.max \in Nat \cup {Inf}
         /\ e.op = "lit" => IsSeq(e.text)
         /\ e.op = "ref" => e.name \in Names
<1>1. WellFormed(g, Own)
  BY InputFacts
<1>2. e.op \in {"seq", "cho"} => e.kids \in Seq(Own)
  BY <1>1 DEF WellFormed
<1>3. e.op \in {"seq", "cho"} =>
        /\ Len(e.kids) \in Nat /\ (e.kids = <<>> <=> Len(e.kids) = 0)
        /\ \A k \in 1 .. Len(e.kids) : e.kids[k] \in Own
  BY <1>2, SeqIsSeq, ElementOfSeq
<1>4. e.op = "lit" => IsSeq(e.text)
  BY <1>1, SeqIsSeq DEF WellFormed
<1> QED BY <1>1, <1>3, <1>4 DEF WellFormed, Names, rules

(* So does a literal, with or without whitespace to skip after it.         *)
LEMMA LiteralStep ==
  ASSUME FramesOK, ctl.do = "call", NEW text, parse_literal(text)
  PROVE  StackOK(frames', ctl')
<1>1. CASE Matches(text, here) /\ ~WordGoesOn(text, here)
  <2>1. PICK q \in here .. Len(input) : text = SubSeq(input, here + 1, q)
    BY <1>1 DEF Matches
  <2>2. here \in Nat /\ Len(input) \in Nat /\ IsSeq(input)
    BY CallFacts, InputFacts DEF FramesOK
  <2>3. Len(text) = q - here
    <3>1. \A k \in here + 1 .. q : input[k] \in ToSet(input)
      BY <2>1, <2>2, SeqFacts DEF ToSet
    <3>2. Len(text) = IF here + 1 <= q THEN q - (here + 1) + 1 ELSE 0
      BY <2>1, <2>2, <3>1, SubSeqProperties
    <3> QED BY <2>1, <2>2, <3>2
  <2>4. Len(text) \in Nat /\ Fits(here, Len(text))
    BY <2>1, <2>2, <2>3 DEF Fits
  <2>5. MatchedFrom(here, Len(text))
    BY <1>1 DEF parse_literal
  <2> QED BY <2>4, <2>5, MatchedStep
<1>2. CASE ~(Matches(text, here) /\ ~WordGoesOn(text, here))
  <2>1. Answer(Fail)
    BY <1>2 DEF parse_literal
  <2> QED BY <2>1, AnswerStep DEF Lengths, Fits, Fail
<1> QED BY <1>1, <1>2

(* A set of naturals that is not empty has a least element.                *)
LEMMA Least ==
  ASSUME NEW D, D \subseteq Nat, D # {} PROVE \E m \in D : \A k \in D : m <= k
<1>1. \E m \in D : \A k \in D : ~(k < m)
  <2>1. PICK m \in D : \A k \in D : ~(<<k, m>> \in OpToRel(<, Nat))
    BY NatLessThanWellFounded, WFMin
  <2>2. \A k \in D : ~(k < m)
    BY <2>1 DEF OpToRel
  <2> QED BY <2>2
<1> QED BY <1>1

(* Min is that least element.                                              *)
LEMMA MinFacts ==
  ASSUME NEW T, T \subseteq Nat, T # {} PROVE Min(T) \in T /\ \A k \in T : Min(T) <= k
BY Least DEF Min

(* A loop over a character class stops inside the input, after characters  *)
(* of the class only, at the first that is not one or at its maximum.      *)
LEMMA SpanFacts ==
  ASSUME job \in Jobs, NEW e \in Own, e.op = "rep", NEW p \in Places
  PROVE  LET m == Span(e, p) IN
         /\ m \in 0 .. Len(input) - p
         /\ \A q \in p .. p + m - 1 : Byte(q) \in e.kid.set
         /\ e.max # Inf => m <= e.max
         /\ ~More(e, m) \/ p + m = Len(input) \/ Byte(p + m) \notin e.kid.set
<1> DEFINE Stops(m) == ~More(e, m) \/ p + m = Len(input) \/ Byte(p + m) \notin e.kid.set
           T == {m \in 0 .. Len(input) - p : Stops(m)}
<1>1. Len(input) \in Nat /\ p \in Nat /\ p <= Len(input) /\ e.max \in Nat \cup {Inf}
  BY InputFacts, OperatorFacts
<1>2. T \subseteq Nat /\ Len(input) - p \in T
  BY <1>1
<1>3. PICK m \in T : \A k \in T : m <= k
  <2> HIDE DEF T
  <2> QED BY <1>2, Least
<1>4. \A k \in 0 .. m - 1 : More(e, k) /\ Byte(p + k) \in e.kid.set
  BY <1>1, <1>3
<1>5. \A q \in p .. p + m - 1 : Byte(q) \in e.kid.set
  <2>1. ASSUME NEW q \in p .. p + m - 1 PROVE Byte(q) \in e.kid.set
    <3>1. q - p \in 0 .. m - 1 /\ p + (q - p) = q
      BY <1>1, <1>3
    <3> QED BY <1>4, <3>1
  <2> QED BY <2>1
<1>6. e.max # Inf => m <= e.max
  <2>1. CASE m = 0
    BY <1>1, <2>1
  <2>2. CASE m # 0
    BY <1>1, <1>3, <1>4, <2>2 DEF More
  <2> QED BY <2>1, <2>2
<1> QED BY <1>1, <1>3, <1>5, <1>6 DEF Span

(* The next alternative of a choice that is not filtered out is one of the *)
(* choice's.                                                               *)
LEMMA OpenFacts ==
  ASSUME NEW e, NEW p, NEW from \in Nat, Len(e.kids) \in Nat, Open(e, p, from) # {}
  PROVE  NextOf(Open(e, p, from)) \in from .. Len(e.kids)
<1>1. Open(e, p, from) \subseteq Nat
  BY DEF Open
<1>2. Min(Open(e, p, from)) \in Open(e, p, from)
  BY <1>1, MinFacts
<1> QED BY <1>2 DEF Open, NextOf

----------------------------------------------------------------------------
(* The operators keep the stack in order.                                  *)
LEMMA CombinatorStack ==
  ASSUME FramesOK, Combinator PROVE StackOK(frames', ctl')
<1> USE DEF FramesOK
<1>1. \A p : Fail \in Lengths /\ Fits(p, Fail)
  BY DEF Lengths, Fits, Fail
<1>2. \A p \in Places : 0 \in Lengths /\ Fits(p, 0)
  BY InputFacts DEF Lengths, Fits
<1>3. CASE CharEnter
  <2>1. ctl.do = "call" /\ here \in Places /\ here \in Nat /\ Len(input) \in Nat
    BY <1>3, CallFacts DEF CharEnter, Entering
  <2>2. CASE here < Len(input) /\ Byte(here) \in node.set
    <3>1. 1 \in Lengths /\ Fits(here, 1) /\ Answer(1)
      BY <1>3, <2>1, <2>2 DEF CharEnter, Lengths, Places, Fits
    <3> QED BY <2>1, <3>1, AnswerStep
  <2>3. CASE ~(here < Len(input) /\ Byte(here) \in node.set)
    BY <1>1, <1>3, <2>1, <2>3, AnswerStep DEF CharEnter
  <2> QED BY <2>2, <2>3
<1>4. CASE LiteralEnter
  BY <1>4, LiteralStep DEF LiteralEnter, Entering
<1>5. CASE BackReferenceEnter
  <2> DEFINE named == {c \in DOMAIN capture_entries : capture_entries[c][1] = node.name}
  <2>1. ctl.do = "call"
    BY <1>5 DEF BackReferenceEnter, Entering
  <2>2. CASE named = {}
    <3>1. Answer(Fail)
      BY <1>5, <2>2 DEF BackReferenceEnter
    <3> QED BY <1>1, <2>1, <3>1, AnswerStep
  <2>3. CASE named # {}
    <3>1. parse_literal(capture_entries[Max(named)][2])
      BY <1>5, <2>3 DEF BackReferenceEnter
    <3> QED BY <2>1, <3>1, LiteralStep
  <2> QED BY <2>2, <2>3
<1>6. CASE SkipResume
  <2>1. Resuming("skip") /\ Leave(IF len = Fail THEN Fail ELSE top.i + len)
    BY <1>6 DEF SkipResume
  <2> QED BY <1>1, <2>1, ReturnFacts, LeaveStep DEF Lengths
<1>7. CASE SequenceEnter
  <2>1. ctl.do = "call" /\ node \in Own /\ here \in Places /\ node.op = "seq"
    BY <1>7, CallFacts DEF SequenceEnter, Entering, node
  <2>2. CASE node.kids = <<>>
    <3>1. Answer(0)
      BY <1>7, <2>2 DEF SequenceEnter
    <3> QED BY <1>2, <2>1, <3>1, AnswerStep
  <2>3. CASE node.kids # <<>>
    <3> DEFINE f == [Frame("seq", node, here) EXCEPT !.k = 1]
    <3>1. Enter(f, node.kids[1], here)
      BY <1>7, <2>3 DEF SequenceEnter
    <3>2. Len(node.kids) \in Nat /\ Len(node.kids) >= 1 /\ node.kids[1] \in Own
      BY <2>1, <2>3, OperatorFacts
    <3>3. f = [op |-> "seq", node |-> node, pos |-> here, i |-> 0, k |-> 1,
               snap |-> NoSnap, save |-> NoPos, seed |-> NoSeed]
      BY DEF Frame
    <3>4. IsSeed(NoSeed, here)
      BY NoSeedOK
    <3>5. FrameOK(f) /\ f.op # "top" /\ f.pos = here /\ Standing(f) = here
      BY <1>2, <2>1, <3>2, <3>3, <3>4, InputFacts
         DEF FrameOK, IsFrame, FrameOps, HasOperator, NoPos, Standing
    <3> QED BY <2>1, <3>1, <3>2, <3>5, EnterStep
  <2> QED BY <2>2, <2>3
<1>8. CASE SequenceResume
  <2> DEFINE i == top.i + len
  <2>1. Resuming("seq")
    BY <1>8 DEF SequenceResume
  <2>2. /\ FrameOK(top) /\ top.op = "seq" /\ top.node \in Own /\ top.node.op = "seq"
        /\ top.k \in 1 .. Len(top.node.kids) /\ Len(top.node.kids) \in Nat
        /\ \A k \in 1 .. Len(top.node.kids) : top.node.kids[k] \in Own
    BY <2>1, ReturnFacts, OperatorFacts DEF FrameOK, HasOperator
  <2>3. CASE len = Fail
    <3>1. Leave(Fail)
      BY <1>8, <2>3 DEF SequenceResume
    <3> QED BY <1>1, <2>1, <3>1, LeaveStep
  <2>4. CASE len # Fail /\ top.k = Len(top.node.kids)
    <3>1. Leave(i)
      BY <1>8, <2>4 DEF SequenceResume
    <3> QED BY <2>1, <2>4, <3>1, ReturnFacts, LeaveStep
  <2>5. CASE len # Fail /\ top.k # Len(top.node.kids)
    <3> DEFINE f == Advanced(top, i, top.k + 1)
    <3>1. Resume(f, top.node.kids[top.k + 1], top.pos + i)
      BY <1>8, <2>5 DEF SequenceResume, Advanced
    <3>2. /\ i \in Nat /\ Fits(top.pos, i)
          /\ top.k + 1 \in Nat /\ top.k + 1 \in 1 .. Len(top.node.kids)
      BY SMTT(20), <2>1, <2>2, <2>5, ReturnFacts
    <3>3. FrameOK(f) /\ f.op # "top" /\ f.pos = top.pos /\ Standing(f) = top.pos + i
      BY <2>2, <3>2, AdvancedFacts
    <3>4. top.node.kids[top.k + 1] \in Own
      BY <2>2, <3>2
    <3> HIDE DEF f, i
    <3> QED BY <2>1, <3>1, <3>3, <3>4, ResumeStep
  <2> QED BY <2>3, <2>4, <2>5
<1>9. CASE ChoiceEnter
  <2> DEFINE open == Open(node, here, 1)
  <2>1. /\ ctl.do = "call" /\ Entering("cho") /\ node \in Own /\ node.op = "cho"
        /\ here \in Places /\ here \in Nat /\ Len(node.kids) \in Nat
        /\ \A k \in 1 .. Len(node.kids) : node.kids[k] \in Own
    BY <1>9, CallFacts, OperatorFacts DEF ChoiceEnter, Entering, node
  <2>2. CASE open = {}
    <3>1. Answer(Fail)
      BY <1>9, <2>2 DEF ChoiceEnter
    <3> QED BY <1>1, <2>1, <3>1, AnswerStep
  <2>3. CASE open # {}
    <3>1. Enter([Frame("cho", node, here) EXCEPT !.k = NextOf(open), !.snap = Snapshot],
                node.kids[NextOf(open)], here)
      BY <1>9, <2>3 DEF ChoiceEnter
    <3>2. NextOf(open) \in 1 .. Len(node.kids) /\ node.kids[NextOf(open)] \in Own
      BY <2>1, <2>3, OpenFacts
    <3> DEFINE f == Frame("cho", node, here)
    <3>3. FrameOK(f) /\ f.op = "cho" /\ f.pos = here /\ Standing(f) = here
      BY <2>1, NewFrame DEF FrameOps, Frame
    <3>4. Enter(CountedSnapped(f, NextOf(open), Snapshot), node.kids[NextOf(open)], here)
      BY <3>1 DEF CountedSnapped
    <3>5. NextOf(open) \in Nat
      BY <3>2
    <3> HIDE DEF f, open
    <3> QED BY <2>1, <3>2, <3>3, <3>4, <3>5, CountedSnappedFacts, EnterStep
  <2> QED BY <2>2, <2>3
<1>10. CASE ChoiceMatched
  <2>1. Resuming("cho") /\ Leave(len) /\ len # Fail
    BY <1>10 DEF ChoiceMatched
  <2>2. len \in Lengths /\ Fits(top.pos, len)
    BY <2>1, ReturnFacts DEF FrameOK, Standing
  <2> QED BY <2>1, <2>2, LeaveStep
<1>11. CASE ChoiceFailed
  <2> DEFINE open == Open(top.node, top.pos, top.k + 1)
  <2>1. Resuming("cho")
    BY <1>11 DEF ChoiceFailed
  <2>2. /\ FrameOK(top) /\ top.op = "cho" /\ top.i = 0 /\ top.k \in Nat
        /\ Len(top.node.kids) \in Nat
        /\ \A k \in 1 .. Len(top.node.kids) : top.node.kids[k] \in Own
    BY <2>1, ReturnFacts, OperatorFacts DEF FrameOK, HasOperator
  <2>3. CASE was_cut \/ open = {}
    <3>1. Leave(Fail)
      BY <1>11, <2>3 DEF ChoiceFailed
    <3> QED BY <1>1, <2>1, <3>1, LeaveStep
  <2>4. CASE ~(was_cut \/ open = {})
    <3> DEFINE f == Counted(top, NextOf(open))
    <3>1. Resume(f, top.node.kids[NextOf(open)], top.pos)
      BY <1>11, <2>4 DEF ChoiceFailed, Counted
    <3>2. NextOf(open) \in top.k + 1 .. Len(top.node.kids)
      BY <2>2, <2>4, OpenFacts
    <3>3. NextOf(open) \in Nat /\ top.node.kids[NextOf(open)] \in Own
      BY <2>2, <3>2
    <3>4. Standing(top) = top.pos
      BY <2>1, <2>2, ReturnFacts DEF Standing
    <3>5. FrameOK(f) /\ f.op # "top" /\ f.pos = top.pos /\ Standing(f) = top.pos
      BY <2>2, <3>3, <3>4, CountedFacts
    <3> HIDE DEF f, open
    <3> QED BY <2>1, <3>1, <3>3, <3>5, ResumeStep
  <2> QED BY <2>3, <2>4
<1>12. CASE RepetitionEnter
  <2>1. /\ ctl.do = "call" /\ Entering("rep") /\ node \in Own /\ node.op = "rep"
        /\ node.kid \in Own /\ here \in Places /\ here \in Nat /\ Len(input) \in Nat
    BY <1>12, CallFacts, OperatorFacts DEF RepetitionEnter, Entering, node, Unary
  <2>2. Span(node, here) \in Nat /\ Span(node, here) \in Lengths /\ Fits(here, Span(node, here))
    BY <2>1, SpanFacts DEF Lengths, Places, Fits
  <2>3. \/ Answer(Fail) \/ Answer(Span(node, here)) \/ Answer(0)
        \/ Enter([Frame("rep", node, here) EXCEPT !.snap = Snapshot], node.kid, here)
    BY <1>12 DEF RepetitionEnter
  <2>4. "rep" \in Plainly
    BY DEF Plainly, FrameOps
  <2> QED BY <1>1, <1>2, <2>1, <2>2, <2>3, <2>4, AnswerStep, EnterSnapStep
<1>13. CASE RepetitionMatched
  <2> DEFINE i == top.i + len  f == Round(top, i, top.k + 1, Snapshot)
  <2>1. Resuming("rep") /\ len # Fail
    BY <1>13 DEF RepetitionMatched
  <2>2. /\ FrameOK(top) /\ top.op = "rep" /\ top.k \in Nat /\ top.node \in Own
        /\ top.node.op = "rep" /\ top.node.kid \in Own
    BY <2>1, ReturnFacts, OperatorFacts DEF FrameOK, HasOperator, Unary
  <2>3. i \in Lengths /\ i \in Nat /\ Fits(top.pos, i)
    BY <2>1, ReturnFacts
  <2>4. Leave(i) \/ Resume(f, top.node.kid, top.pos + i)
    BY <1>13 DEF RepetitionMatched, Round
  <2>5. top.k + 1 \in Nat
    BY <2>2
  <2>7. FrameOK(f) /\ f.op # "top" /\ f.pos = top.pos /\ Standing(f) = top.pos + i
    BY <2>2, <2>3, <2>5, RoundFacts
  <2> HIDE DEF f, i
  <2>8. CASE Leave(i)
    BY <2>1, <2>3, <2>8, LeaveStep
  <2>9. CASE Resume(f, top.node.kid, top.pos + i)
    BY <2>1, <2>2, <2>7, <2>9, ResumeStep
  <2> QED BY <2>4, <2>8, <2>9
<1>14. CASE RepetitionFailed
  <2>1. Resuming("rep") /\ (Leave(Fail) \/ Leave(top.i))
    BY <1>14 DEF RepetitionFailed
  <2>2. top.i \in Lengths /\ Fits(top.pos, top.i)
    BY <2>1, ReturnFacts DEF FrameOK, Fits
  <2> QED BY <1>1, <2>1, <2>2, LeaveStep
<1>15. CASE PredicateEnter
  <2>1. PICK op \in {"and", "not"} : Entering(op)
    BY <1>15 DEF PredicateEnter
  <2>2. node \in Own /\ node.op = op
    BY <2>1, CallFacts DEF Entering, node
  <2>3. node.kid \in Own /\ op \in Plainly
    BY <2>2, OperatorFacts DEF Unary, Plainly, FrameOps
  <2>4. Enter([Frame(op, node, here) EXCEPT !.snap = Snapshot], node.kid, here)
    BY <1>15, <2>2 DEF PredicateEnter
  <2> QED BY <2>1, <2>3, <2>4, EnterSnapStep
<1>16. CASE AndPredicateResume
  <2>1. Resuming("and") /\ Leave(IF len = Fail THEN Fail ELSE 0)
    BY <1>16 DEF AndPredicateResume
  <2>2. 0 \in Lengths /\ Fits(top.pos, 0)
    BY <1>2, <2>1, ReturnFacts DEF FrameOK
  <2> QED BY <1>1, <2>1, <2>2, LeaveStep
<1>17. CASE NotPredicateResume
  <2>1. Resuming("not") /\ (Leave(0) \/ Leave(Fail))
    BY <1>17 DEF NotPredicateResume
  <2>2. 0 \in Lengths /\ Fits(top.pos, 0)
    BY <1>2, <2>1, ReturnFacts DEF FrameOK
  <2> QED BY <1>1, <2>1, <2>2, LeaveStep
<1>18. CASE CaptureScopeEnter
  <2>1. Entering("csc") /\ Enter([Frame("csc", node, here) EXCEPT !.snap = Snapshot], node.kid, here)
    BY <1>18 DEF CaptureScopeEnter
  <2>2. node.kid \in Own
    BY <2>1, CallFacts, OperatorFacts DEF Entering, node, Unary
  <2> QED BY <2>1, <2>2, EnterSnapStep DEF Plainly, FrameOps
<1>19. CASE CaptureScopeResume
  <2>1. Resuming("csc") /\ Leave(len)
    BY <1>19 DEF CaptureScopeResume
  <2>2. len \in Lengths /\ Fits(top.pos, len)
    BY <2>1, ReturnFacts DEF FrameOK, Standing
  <2> QED BY <2>1, <2>2, LeaveStep
<1>20. CASE CaptureEnter
  <2>1. Entering("cap") /\ Enter(Frame("cap", node, here), node.kid, here)
    BY <1>20 DEF CaptureEnter
  <2>2. node.kid \in Own
    BY <2>1, CallFacts, OperatorFacts DEF Entering, node, Unary
  <2> QED BY <2>1, <2>2, EnterNewStep DEF Plainly, FrameOps
<1>21. CASE CaptureResume
  <2>1. Resuming("cap") /\ Leave(len)
    BY <1>21 DEF CaptureResume
  <2>2. len \in Lengths /\ Fits(top.pos, len)
    BY <2>1, ReturnFacts DEF FrameOK, Standing
  <2> QED BY <2>1, <2>2, LeaveStep
<1>22. CASE TokenBoundaryEnter
  <2>1. Entering("tok") /\ Enter(Frame("tok", node, here), node.kid, here)
    BY <1>22 DEF TokenBoundaryEnter
  <2>2. node.kid \in Own
    BY <2>1, CallFacts, OperatorFacts DEF Entering, node, Unary
  <2> QED BY <2>1, <2>2, EnterNewStep DEF Plainly, FrameOps
<1>23. CASE TokenBoundaryResume
  <2> DEFINE f == SkipFrame(top.pos, len)
  <2>1. /\ Resuming("tok")
        /\ \/ Leave(len)
           \/ /\ len # Fail /\ g.whitespace # NoNode
              /\ Resume(f, g.whitespace, top.pos + len)
    BY <1>23 DEF TokenBoundaryResume, Skips
  <2>2. FrameOK(top) /\ top.i = 0 /\ top.pos \in Places /\ len \in Lengths /\ Fits(top.pos, len)
    <3>1. FrameOK(top) /\ top.op = "tok" /\ len \in Lengths /\ Fits(Standing(top), len)
      BY <2>1, ReturnFacts
    <3>2. top.i = 0 /\ top.pos \in Places /\ top.pos \in Nat
      BY <2>1, <3>1, ReturnFacts DEF FrameOK
    <3>3. Standing(top) = top.pos
      BY <3>2 DEF Standing
    <3> QED BY <3>1, <3>2, <3>3
  <2>3. CASE Leave(len)
    BY <2>1, <2>2, <2>3, LeaveStep
  <2>4. CASE len # Fail /\ g.whitespace # NoNode /\ Resume(f, g.whitespace, top.pos + len)
    <3>1. f = [op |-> "skip", node |-> NoNode, pos |-> top.pos, i |-> len, k |-> 0,
               snap |-> NoSnap, save |-> NoPos, seed |-> NoSeed]
      BY DEF SkipFrame, Frame
    <3>2. IsSeed(NoSeed, top.pos)
      BY NoSeedOK
    <3>3. len \in Nat
      BY <2>1, <2>4, ReturnFacts
    <3>4. FrameOK(f) /\ f.op # "top" /\ f.pos = top.pos /\ Standing(f) = top.pos + len
      BY <2>2, <3>1, <3>2, <3>3 DEF FrameOK, IsFrame, FrameOps, NoPos, Standing
    <3>5. g.whitespace \in Own
      BY <2>4, InputFacts DEF WellFormed
    <3> QED BY <2>1, <2>4, <3>4, <3>5, ResumeStep
  <2> QED BY <2>1, <2>3, <2>4
<1>24. CASE IgnoreEnter
  <2>1. Entering("ign") /\ Enter(Frame("ign", node, here), node.kid, here)
    BY <1>24 DEF IgnoreEnter
  <2>2. node.kid \in Own
    BY <2>1, CallFacts, OperatorFacts DEF Entering, node, Unary
  <2> QED BY <2>1, <2>2, EnterNewStep DEF Plainly, FrameOps
<1>25. CASE IgnoreResume
  <2>1. Resuming("ign") /\ Leave(len)
    BY <1>25 DEF IgnoreResume
  <2>2. len \in Lengths /\ Fits(top.pos, len)
    BY <2>1, ReturnFacts DEF FrameOK, Standing
  <2> QED BY <2>1, <2>2, LeaveStep
<1>26. CASE WhitespaceEnter
  <2>1. Entering("wsp") /\ (Answer(0) \/ Enter(Frame("wsp", node, here), node.kid, here))
    BY <1>26 DEF WhitespaceEnter
  <2>2. ctl.do = "call" /\ here \in Places /\ node.kid \in Own
    BY <2>1, CallFacts, OperatorFacts DEF Entering, node, Unary
  <2> QED BY <1>2, <2>1, <2>2, AnswerStep, EnterNewStep DEF Plainly, FrameOps
<1>27. CASE WhitespaceResume
  <2>1. Resuming("wsp") /\ Leave(len)
    BY <1>27 DEF WhitespaceResume
  <2>2. len \in Lengths /\ Fits(top.pos, len)
    BY <2>1, ReturnFacts DEF FrameOK, Standing
  <2> QED BY <2>1, <2>2, LeaveStep
<1>28. CASE RecoveryEnter
  <2>1. Entering("rec") /\ Enter(Frame("rec", node, here), node.kid, here)
    BY <1>28 DEF RecoveryEnter
  <2>2. node.kid \in Own
    BY <2>1, CallFacts, OperatorFacts DEF Entering, node, Unary
  <2> QED BY <2>1, <2>2, EnterNewStep DEF Plainly, FrameOps
<1>29. CASE RecoveryResume
  <2>1. Resuming("rec") /\ Leave(len)
    BY <1>29 DEF RecoveryResume
  <2>2. len \in Lengths /\ Fits(top.pos, len)
    BY <2>1, ReturnFacts DEF FrameOK, Standing
  <2> QED BY <2>1, <2>2, LeaveStep
<1>30. CASE CutEnter
  <2>1. Entering("cut") /\ Answer(0)
    BY <1>30 DEF CutEnter
  <2> QED BY <1>2, <2>1, CallFacts, AnswerStep DEF Entering
<1> QED BY <1>3, <1>4, <1>5, <1>6, <1>7, <1>8, <1>9, <1>10, <1>11, <1>12, <1>13, <1>14, <1>15, <1>16, <1>17, <1>18, <1>19, <1>20, <1>21, <1>22, <1>23, <1>24, <1>25, <1>26, <1>27, <1>28, <1>29, <1>30 DEF Combinator

----------------------------------------------------------------------------
(* Rules.                                                                  *)
LEMMA BodyEnters ==
  ASSUME job \in Jobs, NEW s, NEW f, StackOK(s, Call(f.node, f.pos)),
         f.node \in Own, f.node.op = "ref", f.pos \in Places
  PROVE  StackOK(Append(s, Frame("body", f.node, f.pos)), Call(rule_of(f).body, f.pos))
<1> DEFINE b == Frame("body", f.node, f.pos)
<1>1. FrameOK(b) /\ Standing(b) = f.pos /\ b.op = "body" /\ b.pos = f.pos
  BY NewFrame DEF FrameOps, Frame
<1>2. rule_of(f).body \in Own
  BY OperatorFacts, InputFacts DEF WellFormed, rule_of, Names, rules
<1>3. Call(f.node, f.pos).do = "call" /\ Call(f.node, f.pos).pos = f.pos
  BY DEF Call
<1> HIDE DEF b
<1> QED BY <1>1, <1>2, <1>3, EnterKeeps DEF b

(* A rule's two frames.                                                    *)
LEMMA RunRuleStep ==
  ASSUME FramesOK, ctl.do = "call", NEW f, FrameOK(f), f.op = "rule", f.node = node,
         f.pos = here, RunRule(f)
  PROVE  StackOK(frames', ctl')
<1>1. /\ job \in Jobs /\ StackOK(frames, ctl) /\ f.node \in Own /\ f.node.op = "ref"
      /\ f.pos \in Places /\ f.i = 0
  BY DEF FramesOK, FrameOK, HasOperator
<1>0. Standing(f) = f.pos
  BY <1>1, InputFacts DEF Standing
<1>2. StackOK(Append(frames, f), Call(f.node, f.pos))
  BY <1>0, <1>1, EnterKeeps DEF here
<1> QED BY <1>1, <1>2, BodyEnters DEF RunRule, StartBody

(* A further round of growing keeps the stack.                             *)
LEMMA RunRuleAgainStep ==
  ASSUME FramesOK, Resuming("rule"), NEW f, FrameOK(f), f.op = "rule",
         f.pos = top.pos, RunRuleAgain(f)
  PROVE  StackOK(frames', ctl')
<1>1. /\ job \in Jobs /\ StackOK(frames, ctl) /\ f.node \in Own /\ f.node.op = "ref"
      /\ f.pos \in Places /\ f.i = 0
  BY DEF FramesOK, FrameOK, HasOperator
<1>0. Standing(f) = f.pos
  BY <1>1, InputFacts DEF Standing
<1>2. frames # <<>> /\ Last(frames).op = "rule" /\ top = Last(frames)
  BY DEF Resuming, top
<1>3. StackOK(SetTop(frames, f), Call(f.node, f.pos))
  BY <1>0, <1>1, <1>2, ResumeKeeps
<1> QED BY <1>1, <1>3, BodyEnters DEF RunRuleAgain, StartBody

(* What is answered from a memo or left to the caller.                     *)
LEMMA KnownStep ==
  ASSUME FramesOK, Entering("ref"), NEW entry, EntryOK(entry, here), entry # NoMemo, Known(entry)
  PROVE  StackOK(frames', ctl')
BY AnswerStep DEF Known, EntryOK, Entering

(* A registered failure is a memo entry.                                   *)
LEMMA FailedOK == \A p : EntryOK(Failed, p) /\ Failed # NoMemo
BY DEF EntryOK, Failed, Entry, NoMemo, Fail, Lengths, Fits

(* A rule that finishes with what fits keeps the stack.                    *)
LEMMA FinishedStep ==
  ASSUME FramesOK, Resuming("rule"), NEW m \in Lengths, Fits(top.pos, m), NEW v, Finished(m, v)
  PROVE  StackOK(frames', ctl')
BY LeaveStep DEF Finished

(* A reference names a rule of the grammar, and the memo for it fits here. *)
LEMMA KeyFacts ==
  ASSUME FramesOK, Entering("ref")
  PROVE  /\ ctl.do = "call" /\ node \in Own /\ node.op = "ref" /\ here \in Places
         /\ job \in Jobs /\ node.name \in Names /\ key \in Names \X Places
         /\ FrameOK(Frame("rule", node, here))
         /\ Frame("rule", node, here).op = "rule" /\ Frame("rule", node, here).node = node
         /\ Frame("rule", node, here).pos = here
         /\ EntryOK(memo[key], here) /\ EntryOK(lr_memo[key], here)
<1>1. ctl.do = "call" /\ node \in Own /\ node.op = "ref" /\ here \in Places /\ job \in Jobs
  BY CallFacts DEF Entering, node, FramesOK
<1>2. node.name \in Names
  BY <1>1, OperatorFacts
<1>3. FrameOK(Frame("rule", node, here))
  BY <1>1, NewFrame DEF FrameOps
<1>4. EntryOK(memo[key], here) /\ EntryOK(lr_memo[key], here)
  BY <1>1, <1>2 DEF key, FramesOK, MemosOK, EntriesOK
<1> QED BY <1>1, <1>2, <1>3, <1>4 DEF key, Frame

(* The frame of a rule names a rule, and what its body matched fits.       *)
LEMMA RuleFacts ==
  ASSUME FramesOK, Resuming("rule")
  PROVE  /\ job \in Jobs /\ FrameOK(top) /\ top.op = "rule" /\ top.pos \in Places
         /\ name_of(top) \in Names /\ InRule(top) \in Names \X Places
         /\ InRule(top) = <<name_of(top), top.pos>>
         /\ len \in Lengths /\ Fits(top.pos, len)
         /\ IsSeed(top.seed, top.pos)
<1>1. /\ FrameOK(top) /\ top.op = "rule" /\ len \in Lengths /\ Fits(Standing(top), len)
  BY ReturnFacts
<1>2. top.node \in Own /\ top.node.op = "ref" /\ top.i = 0 /\ top.pos \in Places
      /\ IsSeed(top.seed, top.pos)
  BY <1>1 DEF FrameOK, HasOperator
<1>3. job \in Jobs /\ top.node.name \in Names
  BY <1>2, OperatorFacts DEF FramesOK
<1>4. Standing(top) = top.pos
  BY <1>2, <1>3, InputFacts DEF Standing
<1> QED BY <1>1, <1>2, <1>3, <1>4 DEF name_of, InRule

(* The memos after an entry is written, and after a round forgets some.    *)
LEMMA EntriesWritten ==
  ASSUME NEW m, EntriesOK(m), NEW r \in Names, NEW p \in Places, NEW entry, EntryOK(entry, p)
  PROVE  EntriesOK([m EXCEPT ![<<r, p>>] = entry])
BY DEF EntriesOK

(* Writing one entry that fits and forgetting some keeps the entries.      *)
LEMMA EntriesForgotten ==
  ASSUME NEW m, EntriesOK(m), NEW r \in Names, NEW p \in Places, NEW entry, EntryOK(entry, p),
         NEW forgotten
  PROVE  EntriesOK([q \in DOMAIN m |-> IF q = <<r, p>> THEN entry
                                       ELSE IF q \in forgotten THEN NoMemo ELSE m[q]])
BY DEF EntriesOK, EntryOK

(* The memos as the next state reads them.                                 *)
LEMMA MemosPrimed ==
  ASSUME job' = job, EntriesOK(memo'), EntriesOK(lr_memo'), lr_refs_hit' \subseteq Growers,
         active_pos' \in [Names -> Places \cup {NoPos}], lr_active_seeds' \subseteq Names \X Places
  PROVE  MemosOK'
BY DEF MemosOK, EntriesOK, EntryOK, Growers, Names, rules, g, Places, Lengths, input, Fits

(* A round of growing.                                                     *)
LEMMA GrowStep ==
  ASSUME FramesOK, Resuming("rule"), len # Fail, NEW c, c \subseteq Growers, Grow(top, c)
  PROVE  StackOK(frames', ctl') /\ EntriesOK(memo') /\ EntriesOK(lr_memo')
<1> DEFINE s == Seed(len, ctl.val, c, top.seed.saved_refs)
           f == Reseeded(top, 1, s)
<1>1. /\ FrameOK(top) /\ top.op = "rule" /\ top.pos \in Places
      /\ name_of(top) \in Names /\ InRule(top) = <<name_of(top), top.pos>>
      /\ len \in Lengths /\ Fits(top.pos, len) /\ IsSeed(top.seed, top.pos)
  BY RuleFacts
<1>2. IsSeed(s, top.pos)
  BY <1>1 DEF IsSeed, Seed
<1>3. RunRuleAgain(f)
  BY DEF Grow, Reseeded
<1>4. FrameOK(f) /\ f.op = "rule" /\ f.pos = top.pos
  <2> HIDE DEF s
  <2> QED BY <1>1, <1>2, ReseededFacts
<1>5. StackOK(frames', ctl')
  <2> HIDE DEF f
  <2> QED BY <1>3, <1>4, RunRuleAgainStep
<1>6. EntryOK(Entry(len, ctl.val), top.pos) /\ EntryOK(NoMemo, top.pos)
  BY <1>1 DEF EntryOK, Entry
<1>7. EntriesOK(memo) /\ EntriesOK(lr_memo)
  BY DEF FramesOK, MemosOK
<1>8. EntriesOK(memo')
  BY <1>1, <1>6, <1>7, EntriesWritten DEF Grow, clear_packrat_cache
<1>9. EntriesOK(lr_memo')
  <2> DEFINE forgotten == Stale(name_of(top), top.pos, c)
  <2>1. lr_memo' = [q \in DOMAIN lr_memo |->
                      IF q = <<name_of(top), top.pos>> THEN Entry(len, ctl.val)
                      ELSE IF q \in forgotten THEN NoMemo ELSE lr_memo[q]]
    BY <1>1 DEF Grow
  <2> HIDE DEF forgotten
  <2> QED BY SMTT(20), <1>1, <1>6, <1>7, <2>1, EntriesForgotten
<1> QED BY <1>5, <1>8, <1>9

(* The re-entry guards keep their types.                                   *)
LEMMA GuardsKept ==
  ASSUME FramesOK, RuleCall
  PROVE  /\ active_pos' \in [Names -> Places \cup {NoPos}]
         /\ lr_active_seeds' \subseteq Names \X Places
<1>1. active_pos \in [Names -> Places \cup {NoPos}] /\ lr_active_seeds \subseteq Names \X Places
  BY DEF FramesOK, MemosOK
<1>2. CASE GuardMiss
  <2>1. node.name \in Names /\ here \in Places
    BY <1>2, KeyFacts DEF GuardMiss, Guarded
  <2> QED BY <1>1, <1>2, <2>1 DEF GuardMiss, lr
<1>3. CASE GuardReturn
  <2>1. name_of(top) \in Names /\ top.save \in Places \cup {NoPos}
    BY <1>3, RuleFacts DEF GuardReturn, Returning, FrameOK
  <2> QED BY <1>1, <1>3, <2>1 DEF GuardReturn, lr
<1>4. CASE SeedStart
  <2>1. key \in Names \X Places
    BY <1>4, KeyFacts DEF SeedStart, LeftRecursive
  <2> QED BY <1>1, <1>4, <2>1 DEF SeedStart
<1>5. CASE SeedReturn
  BY <1>1, <1>5 DEF SeedReturn, Grow, Deactivated
<1>6. CASE GrowReturn
  BY <1>1, <1>6 DEF GrowReturn, Grow, Deactivated
<1>7. CASE \/ MemoHit \/ MemoMiss \/ MemoReturn \/ GuardHit \/ PlainHit \/ PlainMiss
           \/ PlainReturn \/ SeedHit \/ BodySkips \/ BodyReturns
  BY <1>1, <1>7 DEF MemoHit, MemoMiss, MemoReturn, GuardHit, PlainHit, PlainMiss, PlainReturn,
     SeedHit, BodySkips, BodyReturns, memos, lr
<1> QED BY <1>2, <1>3, <1>4, <1>5, <1>6, <1>7 DEF RuleCall

(* The rules keep the stack and the memos in order.                        *)
LEMMA RuleCallKeeps ==
  ASSUME FramesOK, RuleCall
  PROVE  /\ StackOK(frames', ctl') /\ job' = job
         /\ EntriesOK(memo') /\ EntriesOK(lr_memo') /\ lr_refs_hit' \subseteq Growers
<1>1. EntriesOK(memo) /\ EntriesOK(lr_memo) /\ lr_refs_hit \subseteq Growers
  BY DEF FramesOK, MemosOK
<1>2. CASE MemoHit
  <2>1. /\ Entering("ref") /\ memo[key] # NoMemo /\ Known(memo[key]) /\ job' = job
        /\ memo' = memo /\ lr_memo' = lr_memo /\ lr_refs_hit' = lr_refs_hit
    BY <1>2 DEF MemoHit, Memoized, registered, Known, caller, memos, lr
  <2> QED BY <1>1, <2>1, KeyFacts, KnownStep
<1>3. CASE MemoMiss
  <2> DEFINE f == Frame("rule", node, here)
  <2>1. /\ Entering("ref") /\ RunRule(f) /\ job' = job
        /\ memo' = [memo EXCEPT ![key] = Failed]
        /\ lr_memo' = lr_memo /\ lr_refs_hit' = lr_refs_hit
    BY <1>3 DEF MemoMiss, Memoized, RunRule, StartBody, caller, lr
  <2>2. /\ ctl.do = "call" /\ FrameOK(f) /\ f.op = "rule" /\ f.node = node /\ f.pos = here
        /\ key = <<node.name, here>> /\ node.name \in Names /\ here \in Places
    BY <2>1, KeyFacts DEF key
  <2>3. EntriesOK(memo')
    BY <1>1, <2>1, <2>2, FailedOK, EntriesWritten
  <2> HIDE DEF f
  <2> QED BY <1>1, <2>1, <2>2, <2>3, RunRuleStep
<1>4. CASE MemoReturn
  <2>1. /\ Resuming("rule") /\ Finished(len, ctl.val) /\ job' = job
        /\ memo' = memo \/ memo' = [memo EXCEPT ![<<name_of(top), top.pos>>] = Entry(len, ctl.val)]
        /\ lr_memo' = lr_memo /\ lr_refs_hit' = lr_refs_hit
    BY <1>4 DEF MemoReturn, Returning, write_packrat_cache, Finished, caller, lr
  <2>2. /\ name_of(top) \in Names /\ top.pos \in Places
        /\ len \in Lengths /\ Fits(top.pos, len)
    BY <2>1, RuleFacts
  <2>3. EntryOK(Entry(len, ctl.val), top.pos)
    BY <2>2 DEF EntryOK, Entry
  <2>4. EntriesOK(memo')
    BY <1>1, <2>1, <2>2, <2>3, EntriesWritten
  <2> QED BY <1>1, <2>1, <2>2, <2>4, FinishedStep
<1>5. CASE GuardHit
  <2>1. /\ Entering("ref") /\ Known(Failed) /\ job' = job
        /\ memo' = memo /\ lr_memo' = lr_memo /\ lr_refs_hit' = lr_refs_hit
    BY <1>5 DEF GuardHit, Guarded, Known, caller, memos, lr
  <2> QED BY <1>1, <2>1, FailedOK, KnownStep
<1>6. CASE GuardMiss
  <2> DEFINE f == [Frame("rule", node, here) EXCEPT !.save = active_pos[node.name]]
  <2>1. /\ Entering("ref") /\ RunRule(f) /\ job' = job
        /\ memo' = memo /\ lr_memo' = lr_memo /\ lr_refs_hit' = lr_refs_hit
    BY <1>6 DEF GuardMiss, Guarded, RunRule, StartBody, caller, lr
  <2>2. FrameOK(Frame("rule", node, here)) /\ ctl.do = "call" /\ node.name \in Names
    BY <2>1, KeyFacts
  <2>3. active_pos[node.name] \in Places \cup {NoPos}
    BY <2>2 DEF FramesOK, MemosOK
  <2>4. f = [op |-> "rule", node |-> node, pos |-> here, i |-> 0, k |-> 0,
             snap |-> NoSnap, save |-> active_pos[node.name], seed |-> NoSeed]
    BY DEF Frame
  <2>5. FrameOK(f) /\ f.op = "rule" /\ f.node = node /\ f.pos = here
    BY <2>2, <2>3, <2>4 DEF FrameOK, IsFrame, HasOperator, Frame
  <2> HIDE DEF f
  <2> QED BY <1>1, <2>1, <2>2, <2>5, RunRuleStep
<1>7. CASE GuardReturn
  <2>1. /\ Resuming("rule") /\ Finished(len, ctl.val) /\ job' = job
        /\ memo' = memo /\ lr_memo' = lr_memo /\ lr_refs_hit' = lr_refs_hit
    BY <1>7 DEF GuardReturn, Returning, Finished, caller, lr
  <2> QED BY <1>1, <2>1, RuleFacts, FinishedStep
<1>8. CASE PlainHit
  <2>1. /\ Entering("ref") /\ Known(Failed) /\ job' = job
        /\ memo' = memo /\ lr_memo' = lr_memo /\ lr_refs_hit' = lr_refs_hit
    BY <1>8 DEF PlainHit, Plain, Known, caller, memos, lr
  <2> QED BY <1>1, <2>1, FailedOK, KnownStep
<1>9. CASE PlainMiss
  <2> DEFINE f == Frame("rule", node, here)
  <2>1. /\ Entering("ref") /\ RunRule(f) /\ job' = job
        /\ lr_memo' = [lr_memo EXCEPT ![key] = Failed]
        /\ memo' = memo /\ lr_refs_hit' = lr_refs_hit
    BY <1>9 DEF PlainMiss, Plain, RunRule, StartBody, caller
  <2>2. /\ ctl.do = "call" /\ FrameOK(f) /\ f.op = "rule" /\ f.node = node /\ f.pos = here
        /\ key = <<node.name, here>> /\ node.name \in Names /\ here \in Places
    BY <2>1, KeyFacts DEF key
  <2>3. EntriesOK(lr_memo')
    BY <1>1, <2>1, <2>2, FailedOK, EntriesWritten
  <2> HIDE DEF f
  <2> QED BY <1>1, <2>1, <2>2, <2>3, RunRuleStep
<1>10. CASE PlainReturn
  <2>1. /\ Resuming("rule") /\ Finished(len, ctl.val) /\ job' = job
        /\ lr_memo' = [lr_memo EXCEPT ![InRule(top)] = NoMemo]
        /\ memo' = memo /\ lr_refs_hit' = lr_refs_hit
    BY <1>10 DEF PlainReturn, Returning, Finished, caller
  <2>2. /\ name_of(top) \in Names /\ top.pos \in Places /\ InRule(top) = <<name_of(top), top.pos>>
        /\ len \in Lengths /\ Fits(top.pos, len)
    BY <2>1, RuleFacts
  <2>3. EntriesOK(lr_memo')
    BY <1>1, <2>1, <2>2, EntriesWritten DEF EntryOK
  <2> QED BY <1>1, <2>1, <2>2, <2>3, FinishedStep
<1>11. CASE SeedHit
  <2>1. /\ Entering("ref") /\ lr_memo[key] # NoMemo /\ Known(lr_memo[key]) /\ job' = job
        /\ rules[node.name].is_left_recursive
        /\ memo' = memo /\ lr_memo' = lr_memo /\ lr_refs_hit' = lr_refs_hit \cup {node.name}
    BY <1>11 DEF SeedHit, LeftRecursive, Known, caller, callee
  <2>2. node.name \in Growers
    BY <2>1, KeyFacts DEF Growers
  <2> QED BY <1>1, <2>1, <2>2, KeyFacts, KnownStep
<1>12. CASE SeedStart
  <2> DEFINE f == [Frame("rule", node, here) EXCEPT !.seed = Seed(Fail, NoVal, {}, lr_refs_hit)]
  <2>1. /\ Entering("ref") /\ RunRule(f) /\ job' = job
        /\ lr_memo' = [lr_memo EXCEPT ![key] = Failed]
        /\ memo' = memo /\ lr_refs_hit' = {}
    BY <1>12 DEF SeedStart, LeftRecursive, RunRule, StartBody, caller
  <2>2. /\ ctl.do = "call" /\ FrameOK(Frame("rule", node, here))
        /\ key = <<node.name, here>> /\ node.name \in Names /\ here \in Places
    BY <2>1, KeyFacts DEF key
  <2>3. IsSeed(Seed(Fail, NoVal, {}, lr_refs_hit), here)
    <3>1. /\ Seed(Fail, NoVal, {}, lr_refs_hit).len = -1
          /\ Seed(Fail, NoVal, {}, lr_refs_hit).cycle_rules = {}
          /\ Seed(Fail, NoVal, {}, lr_refs_hit).saved_refs = lr_refs_hit
      BY DEF Seed, Fail
    <3> QED BY <1>1, <3>1 DEF IsSeed, Fits, Fail, Lengths
  <2>4. f = [op |-> "rule", node |-> node, pos |-> here, i |-> 0, k |-> 0,
             snap |-> NoSnap, save |-> NoPos, seed |-> Seed(Fail, NoVal, {}, lr_refs_hit)]
    BY DEF Frame
  <2>5. FrameOK(f) /\ f.op = "rule" /\ f.node = node /\ f.pos = here
    BY <2>2, <2>3, <2>4 DEF FrameOK, IsFrame, HasOperator, Frame
  <2>6. EntriesOK(lr_memo')
    BY <1>1, <2>1, <2>2, FailedOK, EntriesWritten
  <2> HIDE DEF f
  <2> QED BY <1>1, <2>1, <2>2, <2>5, <2>6, RunRuleStep
<1>13. CASE SeedReturn
  <2> DEFINE cycle_rules == IF lr_refs_hit = {} THEN {} ELSE lr_refs_hit \cup {name_of(top)}
  <2>1. /\ Resuming("rule") /\ rule_of(top).is_left_recursive
        /\ lr_refs_hit' = top.seed.saved_refs \cup cycle_rules
        /\ IF len # Fail THEN Grow(top, cycle_rules)
           ELSE Finished(Fail, NoVal) /\ memo' = memo /\ lr_memo' = lr_memo
    BY <1>13 DEF SeedReturn, Growing
  <2>2. name_of(top) \in Names /\ IsSeed(top.seed, top.pos)
    BY <2>1, RuleFacts
  <2>3. cycle_rules \subseteq Growers /\ lr_refs_hit' \subseteq Growers
    BY <1>1, <2>1, <2>2 DEF IsSeed, Growers, rule_of, name_of
  <2> HIDE DEF cycle_rules
  <2>4. CASE len # Fail
    <3>1. Grow(top, cycle_rules)
      BY <2>1, <2>4
    <3>2. job' = job
      BY <3>1 DEF Grow, RunRuleAgain, StartBody, caller
    <3> QED BY <2>1, <2>3, <2>4, <3>1, <3>2, GrowStep
  <2>5. CASE len = Fail
    <3>1. /\ Finished(Fail, NoVal) /\ memo' = memo /\ lr_memo' = lr_memo
          /\ Fail \in Lengths /\ Fits(top.pos, Fail) /\ job' = job
      BY <2>1, <2>5 DEF Lengths, Fits, Fail, Finished, caller
    <3> QED BY <1>1, <2>1, <2>3, <3>1, FinishedStep
  <2> QED BY <2>4, <2>5
<1>14. CASE GrowReturn
  <2>1. /\ Resuming("rule") /\ lr_refs_hit' = lr_refs_hit
        /\ \/ Grew(len, top) /\ Grow(top, top.seed.cycle_rules)
           \/ /\ Finished(top.seed.len, top.seed.val)
              /\ memo' = write_packrat_cache(name_of(top), top.pos, top.seed.len, top.seed.val)
              /\ lr_memo' = lr_memo
    BY <1>14 DEF GrowReturn, Growing
  <2>2. /\ name_of(top) \in Names /\ top.pos \in Places /\ IsSeed(top.seed, top.pos)
        /\ len \in Lengths /\ job \in Jobs
    BY <2>1, RuleFacts
  <2>3. CASE Grew(len, top) /\ Grow(top, top.seed.cycle_rules)
    <3>1. job' = job
      BY <2>3 DEF Grow, RunRuleAgain, StartBody, caller
    <3>2. len # Fail /\ top.seed.cycle_rules \subseteq Growers
      BY <2>2, <2>3, InputFacts DEF Grew, IsSeed, Lengths, Fail
    <3> QED BY <1>1, <2>1, <2>3, <3>1, <3>2, GrowStep
  <2>4. CASE /\ Finished(top.seed.len, top.seed.val)
             /\ memo' = write_packrat_cache(name_of(top), top.pos, top.seed.len, top.seed.val)
             /\ lr_memo' = lr_memo
    <3>1. top.seed.len \in Lengths /\ Fits(top.pos, top.seed.len)
      BY <2>2 DEF IsSeed
    <3>2. EntryOK(Entry(top.seed.len, top.seed.val), top.pos)
      BY <3>1 DEF EntryOK, Entry
    <3>3. EntriesOK(memo') /\ job' = job
      BY <1>1, <2>2, <2>4, <3>2, EntriesWritten DEF write_packrat_cache, Finished, caller
    <3> QED BY <1>1, <2>1, <2>4, <3>1, <3>3, FinishedStep
  <2> QED BY <2>1, <2>3, <2>4
<1>15. CASE BodySkips
  <2> DEFINE f == Advanced(top, len, 1)
  <2>1. /\ Resuming("body") /\ len # Fail /\ g.whitespace # NoNode /\ job' = job
        /\ Resume(f, g.whitespace, top.pos + len)
        /\ memo' = memo /\ lr_memo' = lr_memo /\ lr_refs_hit' = lr_refs_hit
    BY <1>15 DEF BodySkips, Skips, Advanced, caller, memos, lr
  <2>2. /\ FrameOK(top) /\ top.op = "body" /\ len \in Nat /\ Len(input) \in Nat
        /\ top.pos \in Nat /\ top.i \in Nat /\ Fits(top.pos, top.i + len)
    BY <2>1, ReturnFacts
  <2>3. Fits(top.pos, len)
    BY <2>2 DEF Fits
  <2>4. g.whitespace \in Own
    BY <2>1, InputFacts DEF WellFormed, FramesOK
  <2>5. FrameOK(f) /\ f.op # "top" /\ f.pos = top.pos /\ Standing(f) = top.pos + len
    BY <2>2, <2>3, AdvancedFacts
  <2> HIDE DEF f
  <2> QED BY <1>1, <2>1, <2>4, <2>5, ResumeStep
<1>16. CASE BodyReturns
  <2>1. /\ Resuming("body") /\ job' = job /\ frames' = Front(frames)
        /\ memo' = memo /\ lr_memo' = lr_memo /\ lr_refs_hit' = lr_refs_hit
        /\ \E m \in {Fail, top.i + len} : \E v :
             ctl' = Return(m, v) /\ (len = Fail => m = Fail)
    <3> DEFINE m == IF len = Fail THEN Fail ELSE top.i + len
    <3>1. \E v : ctl' = Return(Fail, v) \/ ctl' = Return(m, v)
      BY <1>16 DEF BodyReturns
    <3> QED BY <1>16, <3>1 DEF BodyReturns, caller, memos, lr
  <2>2. PICK m, v :
         m \in {Fail, top.i + len} /\ ctl' = Return(m, v) /\ (len = Fail => m = Fail)
    BY <2>1
  <2>3. m \in Lengths /\ Fits(top.pos, m)
    <3>1. /\ Lengths = Places \cup {Fail}
          /\ len # Fail => top.i + len \in Places /\ Fits(top.pos, top.i + len)
      BY <1>1, <2>1, ReturnFacts
    <3>2. CASE m = Fail
      BY <3>1, <3>2 DEF Fits, Fail
    <3>3. CASE m # Fail
      BY <2>2, <3>1, <3>3
    <3> QED BY <3>2, <3>3
  <2>4. frames # <<>> /\ Last(frames).op # "top" /\ top = Last(frames)
    BY <2>1 DEF Resuming, top
  <2> QED BY <1>1, <2>1, <2>2, <2>3, <2>4, LeaveKeeps DEF FramesOK
<1> QED BY <1>2, <1>3, <1>4, <1>5, <1>6, <1>7, <1>8, <1>9, <1>10, <1>11, <1>12, <1>13, <1>14,
           <1>15, <1>16 DEF RuleCall

----------------------------------------------------------------------------
(* The whole parse.                                                        *)
LEMMA CombinatorLeaves ==
  ASSUME Combinator
  PROVE  /\ job' = job /\ result' = result /\ memo' = memo /\ active_pos' = active_pos
         /\ lr_memo' = lr_memo /\ lr_refs_hit' = lr_refs_hit /\ lr_active_seeds' = lr_active_seeds
BY DEF Combinator, CharEnter, LiteralEnter, BackReferenceEnter, SkipResume, SequenceEnter,
   SequenceResume, ChoiceEnter, ChoiceMatched, ChoiceFailed, RepetitionEnter, RepetitionMatched,
   RepetitionFailed, PredicateEnter, AndPredicateResume, NotPredicateResume, CaptureScopeEnter,
   CaptureScopeResume, CaptureEnter, CaptureResume, TokenBoundaryEnter, TokenBoundaryResume,
   IgnoreEnter, IgnoreResume, WhitespaceEnter, WhitespaceResume, RecoveryEnter, RecoveryResume,
   CutEnter, caller, context, silent, memos, lr

(* No rule call sets the result of the parse.                              *)
LEMMA RuleCallLeaves ==
  ASSUME RuleCall PROVE result' = result
BY DEF RuleCall, MemoHit, MemoMiss, MemoReturn, GuardHit, GuardMiss, GuardReturn, PlainHit,
   PlainMiss, PlainReturn, SeedHit, SeedStart, SeedReturn, GrowReturn, BodySkips, BodyReturns,
   Known, Finished, RunRule, RunRuleAgain, StartBody, Grow, caller

(* The initial state has the shape.                                        *)
LEMMA InitOK == ASSUME Init PROVE FramesOK
<1>1. /\ job \in Jobs /\ WellFormed(g, Own) /\ 0 \in Places /\ Len(input) \in Nat
  BY InputFacts DEF Init
<1>2. StackOK(frames, ctl)
  <2> DEFINE f == Frame("top", NoNode, 0)
  <2>1. frames = <<f>> /\ f.op = "top" /\ f.pos = 0 /\ f.i = 0
    BY DEF Init, Frame
  <2>2. FrameOK(f)
    BY <1>1, NoSeedOK DEF FrameOK, Frame, IsFrame, FrameOps, Fits, NoPos
  <2>3. IsSeq(frames) /\ Len(frames) = 1 /\ DOMAIN frames = 1 .. 1 /\ frames[1] = f
    <3>1. <<f>> \in Seq({f})
      OBVIOUS
    <3> HIDE DEF f
    <3> QED BY <2>1, <3>1, SeqIsSeq
  <2>4. Last(frames) = f /\ frames # <<>> /\ Standing(f) = 0
    BY <2>1, <2>3 DEF Last, Standing
  <2>5. ctl = Call(ctl.node, 0) /\ ctl.node \in Own
    BY <1>1 DEF Init, StartRule, Call, WellFormed
  <2>6. ControlOK(frames, ctl)
    BY <1>1, <2>4, <2>5 DEF ControlOK, Call, Lengths
  <2>7. \A k, l \in DOMAIN frames : k <= l => frames[k].pos <= frames[l].pos
    BY <2>1, <2>3
  <2> QED BY <2>1, <2>2, <2>3, <2>6, <2>7 DEF StackOK
<1>3. MemosOK
  BY <1>1 DEF Init, MemosOK, EntriesOK, EntryOK
<1>4. ResultOK
  BY DEF Init, ResultOK, NoResult, Lengths
<1> QED BY <1>1, <1>2, <1>3, <1>4 DEF FramesOK

(* The end of a parse keeps the stack and sets a result.                   *)
LEMMA ReturnedStep ==
  ASSUME FramesOK, NEW ret \in BOOLEAN, NEW i \in Places, Returned(ret, i)
  PROVE  StackOK(frames', ctl') /\ result'.ret \in BOOLEAN /\ result'.i \in Lengths
<1>1. frames' = <<>> /\ ctl' = Return(0, NoVal) /\ result' = [ret |-> ret, i |-> i]
  BY DEF Returned
<1>2. IsSeq(<<>>) /\ DOMAIN <<>> = {} /\ Len(<<>>) = 0
  <2>1. <<>> \in Seq({})
    OBVIOUS
  <2>2. IsSeq(<<>>) /\ DOMAIN <<>> = 1 .. Len(<<>>) /\ Len(<<>>) = 0
    BY <2>1, SeqIsSeq
  <2> QED BY <2>2
<1>3. ControlOK(<<>>, Return(0, NoVal))
  BY InputFacts DEF FramesOK, ControlOK, Return, Lengths
<1>4. StackOK(frames', ctl')
  BY <1>1, <1>2, <1>3 DEF StackOK
<1> QED BY <1>1, <1>4 DEF Lengths

(* So do the steps of the parse entry, which touch no memo.                *)
LEMMA TopStep ==
  ASSUME FramesOK, TopWhitespace \/ TopReturn
  PROVE  /\ StackOK(frames', ctl') /\ result'.ret \in BOOLEAN /\ result'.i \in Lengths
         /\ job' = job /\ memo' = memo /\ active_pos' = active_pos
         /\ lr_memo' = lr_memo /\ lr_refs_hit' = lr_refs_hit /\ lr_active_seeds' = lr_active_seeds
<1>1. /\ Resuming("top") /\ job' = job /\ memo' = memo /\ active_pos' = active_pos
      /\ lr_memo' = lr_memo /\ lr_refs_hit' = lr_refs_hit /\ lr_active_seeds' = lr_active_seeds
  BY DEF TopWhitespace, TopReturn, silent, memos, lr
<1>2. /\ FrameOK(top) /\ top.op = "top" /\ top.pos = 0 /\ len \in Lengths
      /\ Len(input) \in Nat /\ Places = 0 .. Len(input) /\ Lengths = Places \cup {Fail}
      /\ top.i \in Nat /\ top.i <= Len(input)
      /\ (len # Fail => len \in Nat /\ top.i + len \in Places)
  BY <1>1, ReturnFacts DEF FrameOK, Fits
<1>3. CASE TopReturn
  <2>1. \/ Returned(FALSE, top.i)
        \/ len # Fail /\ Returned(top.i + len = Len(input), top.i + len)
    BY <1>3 DEF TopReturn
  <2>2. top.i \in Places
    BY <1>2
  <2> QED BY <1>1, <1>2, <2>1, <2>2, ReturnedStep
<1>4. CASE TopWhitespace /\ len = Fail
  <2>1. Returned(FALSE, 0)
    BY <1>4 DEF TopWhitespace
  <2>2. FALSE \in BOOLEAN /\ 0 \in Places
    BY <1>2
  <2> QED BY <1>1, <2>1, <2>2, ReturnedStep
<1>5. CASE TopWhitespace /\ len # Fail
  <2> DEFINE f == Advanced(top, len, 1)
  <2>1. frames' = SetTop(frames, f) /\ ctl' = StartRule(len) /\ result' = result
    BY <1>5 DEF TopWhitespace, Advanced
  <2>2. FrameOK(f) /\ f.op = top.op /\ f.pos = 0 /\ Standing(f) = len
    BY <1>2, <1>5, AdvancedFacts DEF Fits
  <2>3. Ref(g.start) \in Own
    BY InputFacts DEF FramesOK, WellFormed
  <2>4. frames # <<>> /\ top = Last(frames) /\ StackOK(frames, ctl) /\ job \in Jobs
    BY <1>1 DEF Resuming, top, FramesOK
  <2> HIDE DEF f
  <2>5. StackOK(SetTop(frames, f), Call(Ref(g.start), len))
    BY <1>2, <2>2, <2>3, <2>4, ResumeKeeps
  <2> QED BY <1>1, <2>1, <2>5 DEF StartRule, FramesOK, ResultOK
<1> QED BY <1>3, <1>4, <1>5

(* Every step keeps the shape.                                             *)
LEMMA NextOK == ASSUME FramesOK, [Next]_vars PROVE FramesOK'
<1>1. StackOK(frames', ctl') /\ job' = job /\ MemosOK' /\ ResultOK' => FramesOK'
  BY StackPrimed DEF FramesOK
<1>2. job' = job => (ResultOK' <=> result'.ret \in BOOLEAN /\ result'.i \in Lengths)
  BY DEF ResultOK, Lengths, Places, input
<1>3. MemosOK /\ ResultOK /\ StackOK(frames, ctl)
  BY DEF FramesOK
<1>4. CASE Combinator
  <2>1. StackOK(frames', ctl')
    BY <1>4, CombinatorStack
  <2> QED BY <1>1, <1>2, <1>3, <1>4, <2>1, CombinatorLeaves, MemosPrimed DEF MemosOK, ResultOK
<1>5. CASE RuleCall
  BY <1>1, <1>2, <1>3, <1>5, RuleCallKeeps, RuleCallLeaves, GuardsKept, MemosPrimed DEF ResultOK
<1>6. CASE TopWhitespace \/ TopReturn
  BY <1>1, <1>2, <1>3, <1>6, TopStep, MemosPrimed DEF MemosOK
<1>7. CASE UNCHANGED vars
  <2>1. /\ frames' = frames /\ ctl' = ctl /\ job' = job /\ result' = result /\ memo' = memo
        /\ active_pos' = active_pos /\ lr_memo' = lr_memo /\ lr_refs_hit' = lr_refs_hit
        /\ lr_active_seeds' = lr_active_seeds
    BY <1>7 DEF vars, context, silent, memos, lr, caller
  <2> QED BY <1>1, <1>2, <1>3, <2>1, MemosPrimed DEF MemosOK, ResultOK
<1> QED BY <1>4, <1>5, <1>6, <1>7 DEF Next, Step, Idle

(* Whatever the grammar and the input, the stack of parse_core calls has   *)
(* its shape: every call belongs to an operator of the grammar, starts     *)
(* where its caller stands, and is answered by a length that fits there;   *)
(* so does every length that is memoized.                                  *)
THEOREM FramesAlwaysOK == Spec => []FramesOK
BY InitOK, NextOK, PTL DEF Spec

(* The shape implies InsideInput.                                          *)
LEMMA InsideInputHolds == ASSUME FramesOK PROVE InsideInput
<1>1. /\ \A k \in DOMAIN frames : Fits(frames[k].pos, frames[k].i)
      /\ \A k \in 2 .. Len(frames) : frames[k].pos = Standing(frames[k - 1])
  BY DEF FramesOK, StackOK, FrameOK
<1>2. ctl.do = "call" => ctl.pos = Standing(top)
  BY DEF FramesOK, StackOK, ControlOK, top
<1>3. ctl.do = "return" /\ ~Done => Fits(Standing(top), ctl.len)
  BY DEF FramesOK, StackOK, ControlOK, top, Done
<1>4. \A r \in Names, p \in Places : Fits(p, memo[<<r, p>>].len) /\ Fits(p, lr_memo[<<r, p>>].len)
  <2>1. \A p : Fits(p, NoMemo.len)
    BY DEF NoMemo, Entry, Fits
  <2> QED BY <2>1 DEF FramesOK, MemosOK, EntriesOK, EntryOK
<1> QED BY <1>1, <1>2, <1>3, <1>4 DEF InsideInput

(* No operator reads or matches beyond the end of the input: s + i and     *)
(* n - i, which the C++ computes unchecked, stay within it.                *)
THEOREM InsideInputAlways == Spec => []InsideInput
BY FramesAlwaysOK, InsideInputHolds, PTL
=============================================================================
