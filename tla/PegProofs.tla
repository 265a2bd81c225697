------------------------------ MODULE PegProofs -----------------------------
(***************************************************************************)
(* Proofs about what is derived: the rules hold of it, nothing but the     *)
(* rules puts anything there, no expression has two results; and, of       *)
(* languages that have an analysis: what matches nothing, what a match     *)
(* starts with, and that every operator has a result.                      *)
(***************************************************************************)
EXTENDS PegAnalysis, WellFoundedInduction, TLAPS

----------------------------------------------------------------------------
(* The rules.                                                              *)

(* The rules are monotone: what is given from some results is given from   *)
(* more.                                                                   *)
LEMMA TrailedMore ==
  ASSUME NEW L, NEW R, NEW R2, R \subseteq R2, NEW p, NEW env, NEW b, NEW m, Trailed(L, R, p, env, b, m)
  PROVE  Trailed(L, R2, p, env, b, m)
BY DEF Trailed

(* So is each operator's rule.                                             *)
LEMMA GivesMore ==
  ASSUME NEW L, NEW R, NEW S, NEW R2, NEW S2, R \subseteq R2, S \subseteq S2,
         NEW e, NEW p, NEW env, NEW m, Gives(L, R, S, e, p, env, m)
  PROVE  Gives(L, R2, S2, e, p, env, m)
<1>1. \A b, n : Trailed(L, R, p, env, b, n) => Trailed(L, R2, p, env, b, n)
  BY TrailedMore
<1>2. LitGives(L, R, e, p, env, m) => LitGives(L, R2, e, p, env, m)
  BY <1>1 DEF LitGives
<1>3. ChoGives(R, e, p, env, m) => ChoGives(R2, e, p, env, m)
  BY DEF ChoGives, FailsBefore
<1>4. OneGives(L, R, e, p, env, m) => OneGives(L, R2, e, p, env, m)
  BY DEF OneGives
<1>5. TokGives(L, R, e, p, env, m) => TokGives(L, R2, e, p, env, m)
  BY <1>1 DEF TokGives
<1>6. WspGives(L, R, e, p, env, m) => WspGives(L, R2, e, p, env, m)
  BY DEF WspGives
<1>7. RefGives(L, R, e, p, env, m) => RefGives(L, R2, e, p, env, m)
  BY <1>1 DEF RefGives
<1>8. ManyGives(R, S, e, p, env, m) => ManyGives(R2, S2, e, p, env, m)
  BY DEF ManyGives
<1> QED BY <1>2, <1>3, <1>4, <1>5, <1>6, <1>7, <1>8 DEF Gives

(* So is that of a sequence or repetition on its way.                      *)
LEMMA ComesToMore ==
  ASSUME NEW R, NEW S, NEW R2, NEW S2, R \subseteq R2, S \subseteq S2,
         NEW e, NEW p, NEW env, NEW k, NEW i, ComesTo(R, S, e, p, env, k, i)
  PROVE  ComesTo(R2, S2, e, p, env, k, i)
BY DEF ComesTo

(* What is derived is closed under the rules.                              *)
LEMMA DerivedClosed == ASSUME NEW L PROVE Closed(L, Derived(L), Passed(L))
<1> DEFINE D == Derived(L)  T == Passed(L)
<1>1. ASSUME NEW R, NEW S, Closed(L, R, S) PROVE D \subseteq R /\ T \subseteq S
  BY <1>1 DEF Derived, Passed
<1>2. ASSUME NEW e \in L.own, NEW p \in PlacesOf(L), NEW env \in Environments(L), NEW m \in LengthsOf(L),
             Gives(L, D, T, e, p, env, m)
      PROVE  <<e, p, env, m>> \in D
  <2>1. ASSUME NEW R, NEW S, Closed(L, R, S) PROVE <<e, p, env, m>> \in R
    <3>1. Gives(L, R, S, e, p, env, m)
      <4> HIDE DEF D, T
      <4> QED BY <1>1, <1>2, <2>1, GivesMore
    <3> QED BY <2>1, <3>1 DEF Closed
  <2> QED BY <2>1 DEF Derived, Judgements
<1>3. ASSUME NEW e \in L.own, NEW p \in PlacesOf(L), NEW env \in Environments(L), NEW k \in Nat,
             NEW i \in PlacesOf(L), ComesTo(D, T, e, p, env, k, i)
      PROVE  <<e, p, env, k, i>> \in T
  <2>1. ASSUME NEW R, NEW S, Closed(L, R, S) PROVE <<e, p, env, k, i>> \in S
    <3>1. ComesTo(R, S, e, p, env, k, i)
      <4> HIDE DEF D, T
      <4> QED BY <1>1, <1>3, <2>1, ComesToMore
    <3> QED BY <2>1, <3>1 DEF Closed
  <2> QED BY <2>1 DEF Passed, Partials
<1> HIDE DEF D, T
<1>4. Closed(L, D, T)
  BY <1>2, <1>3 DEF Closed
<1> QED BY <1>4 DEF D, T

(* A judgement is one of the universe: its parts.                          *)
LEMMA JudgementParts ==
  ASSUME NEW L, NEW q \in Judgements(L)
  PROVE  /\ q = <<q[1], q[2], q[3], q[4]>> /\ q[1] \in L.own /\ q[2] \in PlacesOf(L)
         /\ q[3] \in Environments(L) /\ q[4] \in LengthsOf(L)
BY DEF Judgements

(* Hence induction on derivations: what holds of the conclusion of every   *)
(* rule whose premises are derived and have it holds of all that is        *)
(* derived.                                                                *)
LEMMA DerivedLeast ==
  ASSUME NEW L, NEW D \in SUBSET Derived(L), NEW T \in SUBSET Passed(L),
         \A e \in L.own, p \in PlacesOf(L), env \in Environments(L), m \in LengthsOf(L) :
           Derives(L, e, p, env, m) /\ Gives(L, D, T, e, p, env, m) => <<e, p, env, m>> \in D,
         \A e \in L.own, p \in PlacesOf(L), env \in Environments(L), k \in Nat, i \in PlacesOf(L) :
           Reaches(L, e, p, env, k, i) /\ ComesTo(D, T, e, p, env, k, i) => <<e, p, env, k, i>> \in T
  PROVE  D = Derived(L) /\ T = Passed(L)
<1>1. ASSUME NEW e \in L.own, NEW p \in PlacesOf(L), NEW env \in Environments(L), NEW m \in LengthsOf(L),
             Gives(L, D, T, e, p, env, m)
      PROVE  <<e, p, env, m>> \in D
  <2>1. Gives(L, Derived(L), Passed(L), e, p, env, m)
    BY <1>1, GivesMore
  <2>2. Derives(L, e, p, env, m)
    BY <2>1, DerivedClosed DEF Closed, Derives
  <2> QED BY <1>1, <2>2
<1>2. ASSUME NEW e \in L.own, NEW p \in PlacesOf(L), NEW env \in Environments(L), NEW k \in Nat,
             NEW i \in PlacesOf(L), ComesTo(D, T, e, p, env, k, i)
      PROVE  <<e, p, env, k, i>> \in T
  <2>1. ComesTo(Derived(L), Passed(L), e, p, env, k, i)
    BY <1>2, ComesToMore
  <2>2. Reaches(L, e, p, env, k, i)
    BY <2>1, DerivedClosed DEF Closed, Reaches
  <2> QED BY <1>2, <2>2
<1>3. Closed(L, D, T)
  BY <1>1, <1>2 DEF Closed
<1> QED BY <1>3 DEF Derived, Passed

(* The types of what is derived.                                           *)
LEMMA DerivesTypes ==
  ASSUME NEW L, NEW e, NEW p, NEW env, NEW m, Derives(L, e, p, env, m)
  PROVE  e \in L.own /\ p \in PlacesOf(L) /\ env \in Environments(L) /\ m \in LengthsOf(L)
BY DEF Derives, Derived, Judgements

(* The types of how far a sequence or repetition comes.                    *)
LEMMA ReachesTypes ==
  ASSUME NEW L, NEW e, NEW p, NEW env, NEW k, NEW i, Reaches(L, e, p, env, k, i)
  PROVE  /\ e \in L.own /\ p \in PlacesOf(L) /\ env \in Environments(L)
         /\ k \in Nat /\ i \in PlacesOf(L)
BY DEF Reaches, Passed, Partials

(* What is derived is what a rule gives from what is derived.              *)
LEMMA DerivesIff ==
  ASSUME NEW L, NEW e \in L.own, NEW p \in PlacesOf(L), NEW env \in Environments(L), NEW m \in LengthsOf(L)
  PROVE  Derives(L, e, p, env, m) <=> Gives(L, Derived(L), Passed(L), e, p, env, m)
<1> DEFINE D == {q \in Derived(L) : Gives(L, Derived(L), Passed(L), q[1], q[2], q[3], q[4])}
           T == Passed(L)
<1>1. Gives(L, Derived(L), Passed(L), e, p, env, m) => Derives(L, e, p, env, m)
  BY DerivedClosed DEF Closed, Derives
<1>2. ASSUME NEW d \in L.own, NEW q \in PlacesOf(L), NEW w \in Environments(L), NEW n \in LengthsOf(L),
             Derives(L, d, q, w, n), Gives(L, D, T, d, q, w, n)
      PROVE  <<d, q, w, n>> \in D
  <2>1. Gives(L, Derived(L), Passed(L), d, q, w, n)
    BY <1>2, GivesMore
  <2> QED BY <1>2, <2>1 DEF Derives
<1>3. D = Derived(L)
  <2>1. D \in SUBSET Derived(L) /\ T \in SUBSET Passed(L)
    OBVIOUS
  <2> HIDE DEF D
  <2>2. \A d \in L.own, q \in PlacesOf(L), w \in Environments(L), k \in Nat, i \in PlacesOf(L) :
          Reaches(L, d, q, w, k, i) => <<d, q, w, k, i>> \in T
    BY DEF Reaches
  <2> HIDE DEF T
  <2> QED BY <1>2, <2>1, <2>2, DerivedLeast
<1>4. Derives(L, e, p, env, m) => Gives(L, Derived(L), Passed(L), e, p, env, m)
  BY <1>3 DEF Derives
<1> QED BY <1>1, <1>4

(* How far it comes is what its rule gives from what is derived.           *)
LEMMA ReachesIff ==
  ASSUME NEW L, NEW e \in L.own, NEW p \in PlacesOf(L), NEW env \in Environments(L), NEW k \in Nat,
         NEW i \in PlacesOf(L)
  PROVE  Reaches(L, e, p, env, k, i) <=> ComesTo(Derived(L), Passed(L), e, p, env, k, i)
<1> DEFINE D == Derived(L)
           T == {q \in Passed(L) : ComesTo(Derived(L), Passed(L), q[1], q[2], q[3], q[4], q[5])}
<1>1. ComesTo(Derived(L), Passed(L), e, p, env, k, i) => Reaches(L, e, p, env, k, i)
  BY DerivedClosed DEF Closed, Reaches
<1>2. ASSUME NEW d \in L.own, NEW q \in PlacesOf(L), NEW w \in Environments(L), NEW l \in Nat,
             NEW j \in PlacesOf(L), Reaches(L, d, q, w, l, j), ComesTo(D, T, d, q, w, l, j)
      PROVE  <<d, q, w, l, j>> \in T
  <2>1. ComesTo(Derived(L), Passed(L), d, q, w, l, j)
    BY <1>2, ComesToMore
  <2> QED BY <1>2, <2>1 DEF Reaches
<1>3. T = Passed(L)
  <2>1. D \in SUBSET Derived(L) /\ T \in SUBSET Passed(L)
    OBVIOUS
  <2> HIDE DEF T
  <2>2. \A d \in L.own, q \in PlacesOf(L), w \in Environments(L), n \in LengthsOf(L) :
          Derives(L, d, q, w, n) => <<d, q, w, n>> \in D
    BY DEF Derives
  <2> HIDE DEF D
  <2> QED BY <1>2, <2>1, <2>2, DerivedLeast
<1>4. Reaches(L, e, p, env, k, i) => ComesTo(Derived(L), Passed(L), e, p, env, k, i)
  BY <1>3 DEF Reaches
<1> QED BY <1>1, <1>4

----------------------------------------------------------------------------
(* Determinism.                                                            *)
ListsOf(L) == \A e \in L.own : e.op \in {"seq", "cho"} => Len(e.kids) \in Nat

(* A sequence or repetition that reached k operands had reached each       *)
(* number below.                                                           *)
LEMMA ReachesBelow ==
  ASSUME NEW L, NEW e, NEW p, NEW env, NEW k, NEW i, Reaches(L, e, p, env, k, i), NEW l \in 0 .. k
  PROVE  \E j : Reaches(L, e, p, env, l, j)
<1> DEFINE D == Derived(L)
           Below(q) == \A n \in 0 .. q[4] : \E j : Reaches(L, q[1], q[2], q[3], n, j)
           T == {q \in Passed(L) : Below(q)}
<1>0. \A q \in T : Below(q)
  OBVIOUS
<1>1. ASSUME NEW d \in L.own, NEW r \in PlacesOf(L), NEW w \in Environments(L), NEW n \in Nat,
             NEW x \in PlacesOf(L), Reaches(L, d, r, w, n, x), ComesTo(D, T, d, r, w, n, x)
      PROVE  <<d, r, w, n, x>> \in T
  <2>1. SUFFICES ASSUME NEW h \in 0 .. n PROVE \E j : Reaches(L, d, r, w, h, j)
    BY <1>1 DEF Reaches
  <2>2. CASE h = n
    BY <1>1, <2>2
  <2>3. CASE h # n
    <3>0. n # 0
      BY <2>3
    <3>1. PICK j \in Nat : <<d, r, w, n - 1, j>> \in T
      <4> HIDE DEF T, D
      <4>1. ComesTo(D, T, d, r, w, n, x)
        BY <1>1
      <4> QED BY <3>0, <4>1 DEF ComesTo
    <3> DEFINE q == <<d, r, w, n - 1, j>>
    <3>2. Below(q)
      <4> HIDE DEF T, Below
      <4> QED BY <1>0, <3>1
    <3>3. h \in 0 .. q[4] /\ q[1] = d /\ q[2] = r /\ q[3] = w
      BY <2>3, <3>0
    <3> QED BY <3>2, <3>3
  <2> QED BY <2>2, <2>3
<1>2. T = Passed(L)
  <2>1. D \in SUBSET Derived(L) /\ T \in SUBSET Passed(L)
    OBVIOUS
  <2> HIDE DEF T
  <2>2. \A d \in L.own, q \in PlacesOf(L), w \in Environments(L), n \in LengthsOf(L) :
          Derives(L, d, q, w, n) => <<d, q, w, n>> \in D
    BY DEF Derives
  <2> HIDE DEF D
  <2> QED BY <1>1, <2>1, <2>2, DerivedLeast
<1> DEFINE u == <<e, p, env, k, i>>
<1>3. Below(u)
  <2>1. u \in Passed(L)
    BY DEF Reaches
  <2> HIDE DEF T, Below, u
  <2> QED BY <1>0, <1>2, <2>1
<1>4. u[1] = e /\ u[2] = p /\ u[3] = env /\ u[4] = k
  OBVIOUS
<1> QED BY <1>3, <1>4

(* m is the only result of e at p, and the way to i the only one that k    *)
(* operands take.                                                          *)
Only(L, e, p, env, m) == \A n : Derives(L, e, p, env, n) => n = m
Straight(L, e, p, env, k, i) ==
  \A l, j : Reaches(L, e, p, env, l, j) =>
    /\ l = k => j = i
    /\ l < k => GoesOn(e, l) /\ ~Derives(L, NextKid(e, l), p + j, env, Fail)

(* A sequence or repetition that has come one way goes on one way, if its  *)
(* next operand has one result.                                            *)
LEMMA StraightOn ==
  ASSUME NEW L, NEW e \in L.own, NEW p \in PlacesOf(L), NEW env \in Environments(L), NEW k \in Nat,
         NEW j \in Nat, NEW n \in Nat, Straight(L, e, p, env, k, j), GoesOn(e, k),
         Only(L, NextKid(e, k), p + j, env, n)
  PROVE  Straight(L, e, p, env, k + 1, j + n)
<1> SUFFICES ASSUME NEW l, NEW x, Reaches(L, e, p, env, l, x)
             PROVE  /\ l = k + 1 => x = j + n
                    /\ l < k + 1 => GoesOn(e, l) /\ ~Derives(L, NextKid(e, l), p + x, env, Fail)
  BY DEF Straight
<1>1. l \in Nat /\ x \in PlacesOf(L) /\ ComesTo(Derived(L), Passed(L), e, p, env, l, x)
  BY ReachesTypes, ReachesIff
<1>2. CASE l = k + 1
  <2>0. l # 0 /\ l - 1 = k
    BY <1>2
  <2>1. PICK y \in Nat, m \in Nat : /\ Reaches(L, e, p, env, l - 1, y) /\ x = y + m
                                    /\ Derives(L, NextKid(e, l - 1), p + y, env, m)
    BY <1>1, <2>0 DEF ComesTo, Reaches, Derives
  <2>2. y = j
    BY <2>0, <2>1 DEF Straight
  <2>3. m = n
    BY <2>0, <2>1, <2>2 DEF Only
  <2> QED BY <1>2, <2>1, <2>2, <2>3
<1>3. CASE l = k
  <2>1. x = j
    BY <1>3 DEF Straight
  <2>2. ~Derives(L, NextKid(e, k), p + j, env, Fail)
    BY DEF Only, Fail
  <2> QED BY <1>3, <2>1, <2>2
<1>4. CASE l < k
  BY <1>1, <1>4 DEF Straight
<1> QED BY <1>1, <1>2, <1>3, <1>4

(* Results that are the only ones, and ways that are.                      *)
Certain(L, D)  == \A d, q, w, n : <<d, q, w, n>> \in D => Derives(L, d, q, w, n) /\ Only(L, d, q, w, n)
Direct(L, T)   == \A d, q, w, k, i :
                    <<d, q, w, k, i>> \in T => Reaches(L, d, q, w, k, i) /\ Straight(L, d, q, w, k, i)

(* Whitespace that has one result leaves one to what it follows.           *)
LEMMA TrailedOnce ==
  ASSUME NEW L, NEW D, Certain(L, D), NEW p, NEW env, NEW b, NEW m, NEW n,
         Trailed(L, D, p, env, b, m), Trailed(L, Derived(L), p, env, b, n)
  PROVE  n = m
<1>1. CASE b = Fail \/ env.token \/ L.grammar.whitespace = NoNode
  BY <1>1 DEF Trailed
<1>2. CASE ~(b = Fail \/ env.token \/ L.grammar.whitespace = NoNode)
  <2>1. PICK w : <<L.grammar.whitespace, p + b, env, w>> \in D /\ m = Plus(b, w)
    BY <1>2 DEF Trailed
  <2>2. PICK v : Derives(L, L.grammar.whitespace, p + b, env, v) /\ n = Plus(b, v)
    BY <1>2 DEF Trailed, Derives
  <2>3. v = w
    BY <2>1, <2>2 DEF Certain, Only
  <2> QED BY <2>1, <2>2, <2>3
<1> QED BY <1>1, <1>2

(* An alternative that is the choice's leaves it no other.                 *)
LEMMA ChoOnce ==
  ASSUME NEW L, NEW D, Certain(L, D), NEW e, Len(e.kids) \in Nat, NEW p, NEW env,
         NEW m \in LengthsOf(L), NEW n \in LengthsOf(L),
         ChoGives(D, e, p, env, m), ChoGives(Derived(L), e, p, env, n)
  PROVE  n = m
<1> DEFINE X == Derived(L)  K == 1 .. Len(e.kids)
<1>1. \A d, x, y : <<d, p, env, x>> \in D /\ <<d, p, env, y>> \in X => y = x
  BY DEF Certain, Only, Derives
<1>0. \A j, k \in K : j < k => j \in 1 .. k - 1
  OBVIOUS
<1>4. ChoGives(X, e, p, env, n)
  OBVIOUS
<1> HIDE DEF X, K
<1>2. CASE m = Fail
  <2>1. \A k \in K : <<e.kids[k], p, env, Fail>> \in D
    BY <1>2 DEF ChoGives, K
  <2>2. ASSUME n # Fail PROVE FALSE
    <3>1. PICK k \in K : <<e.kids[k], p, env, n>> \in X
      BY <1>4, <2>2 DEF ChoGives, K
    <3> QED BY <1>1, <2>1, <2>2, <3>1
  <2> QED BY <1>2, <2>2
<1>3. CASE m # Fail
  <2>1. PICK k \in K : FailsBefore(D, e, p, env, k) /\ <<e.kids[k], p, env, m>> \in D
    BY <1>3 DEF ChoGives, K
  <2>2. CASE n = Fail
    <3>1. <<e.kids[k], p, env, Fail>> \in X
      BY <1>4, <2>2 DEF ChoGives, K
    <3> QED BY <1>1, <1>3, <2>1, <3>1
  <2>3. CASE n # Fail
    <3>1. PICK l \in K : FailsBefore(X, e, p, env, l) /\ <<e.kids[l], p, env, n>> \in X
      BY <1>4, <2>3 DEF ChoGives, K
    <3>2. CASE l = k
      BY <1>1, <2>1, <3>1, <3>2
    <3>3. CASE l < k
      <4>1. <<e.kids[l], p, env, Fail>> \in D
        BY <1>0, <2>1, <3>3 DEF FailsBefore
      <4> QED BY <1>1, <2>3, <3>1, <4>1
    <3>4. CASE k < l
      <4>1. <<e.kids[k], p, env, Fail>> \in X
        BY <1>0, <3>1, <3>4 DEF FailsBefore
      <4> QED BY <1>1, <1>3, <2>1, <4>1
    <3>5. l = k \/ l < k \/ k < l
      BY DEF K
    <3> QED BY <3>2, <3>3, <3>4, <3>5
  <2> QED BY <2>2, <2>3
<1> QED BY <1>2, <1>3

(* Nor does where a sequence or repetition ends.                           *)
LEMMA ManyOnce ==
  ASSUME NEW L, NEW D, Certain(L, D), NEW T, Direct(L, T), NEW e \in L.own, NEW p \in PlacesOf(L),
         NEW env \in Environments(L), NEW m, NEW n,
         ManyGives(D, T, e, p, env, m), ManyGives(Derived(L), Passed(L), e, p, env, n)
  PROVE  n = m
<1>1. PICK k \in Nat, i \in Nat :
        /\ <<e, p, env, k, i>> \in T
        /\ IF GoesOn(e, k) THEN /\ <<NextKid(e, k), p + i, env, Fail>> \in D
                                /\ m = IF e.op = "rep" /\ k >= e.min THEN i ELSE Fail
                           ELSE m = i
  BY DEF ManyGives
<1>2. PICK l \in Nat, j \in Nat :
        /\ Reaches(L, e, p, env, l, j)
        /\ IF GoesOn(e, l) THEN /\ Derives(L, NextKid(e, l), p + j, env, Fail)
                                /\ n = IF e.op = "rep" /\ l >= e.min THEN j ELSE Fail
                           ELSE n = j
  BY DEF ManyGives, Reaches, Derives
<1>3. Straight(L, e, p, env, k, i)
  BY <1>1 DEF Direct
<1>4. CASE l = k
  <2>1. j = i
    BY <1>2, <1>3, <1>4 DEF Straight
  <2> QED BY <1>1, <1>2, <1>4, <2>1
<1>5. CASE l < k
  <2>1. GoesOn(e, l) /\ ~Derives(L, NextKid(e, l), p + j, env, Fail)
    BY <1>2, <1>3, <1>5 DEF Straight
  <2> QED BY <1>2, <2>1
<1>6. CASE k < l
  <2>0. k + 1 \in 0 .. l /\ Reaches(L, e, p, env, l, j)
    BY <1>2, <1>6
  <2>1. PICK x : Reaches(L, e, p, env, k + 1, x)
    BY <2>0, ReachesBelow
  <2>2. ComesTo(Derived(L), Passed(L), e, p, env, k + 1, x)
    BY <2>1, ReachesTypes, ReachesIff
  <2>3. k + 1 # 0 /\ k + 1 - 1 = k
    OBVIOUS
  <2>4. PICK y, z \in Nat : /\ Reaches(L, e, p, env, k, y) /\ GoesOn(e, k)
                            /\ Derives(L, NextKid(e, k), p + y, env, z)
    BY <2>2, <2>3 DEF ComesTo, Reaches, Derives
  <2>5. y = i
    BY <1>3, <2>4 DEF Straight
  <2>6. z = Fail
    BY <1>1, <2>4, <2>5 DEF Certain, Only
  <2> QED BY <2>6 DEF Fail
<1> QED BY <1>4, <1>5, <1>6

(* No rule gives a second result where its premises have only one.         *)
LEMMA GivesOnce ==
  ASSUME NEW L, ListsOf(L), NEW D, Certain(L, D), NEW T, Direct(L, T), NEW e \in L.own,
         NEW p \in PlacesOf(L), NEW env \in Environments(L), NEW m \in LengthsOf(L), NEW n \in LengthsOf(L),
         Gives(L, D, T, e, p, env, m), Gives(L, Derived(L), Passed(L), e, p, env, n)
  PROVE  n = m
<1> DEFINE X == Derived(L)
<1>1. \A d, q, w, x, y : <<d, q, w, x>> \in D /\ <<d, q, w, y>> \in X => y = x
  BY DEF Certain, Only, Derives
<1>2. \A b, x, y : Trailed(L, D, p, env, b, x) /\ Trailed(L, X, p, env, b, y) => y = x
  BY TrailedOnce
<1>3. Gives(L, X, Passed(L), e, p, env, n)
  OBVIOUS
<1>4. CASE e.op \in {"seq", "rep"}
  <2>1. ManyGives(D, T, e, p, env, m) /\ ManyGives(X, Passed(L), e, p, env, n)
    BY <1>4 DEF Gives
  <2> QED BY <2>1, ManyOnce
<1>5. CASE e.op = "cho"
  <2>1. ChoGives(D, e, p, env, m) /\ ChoGives(X, e, p, env, n) /\ Len(e.kids) \in Nat
    BY <1>5 DEF Gives, ListsOf
  <2> QED BY <2>1, ChoOnce
<1> HIDE DEF X
<1>6. CASE e.op = "chr"
  BY <1>3, <1>6 DEF Gives, ChrGives
<1>7. CASE e.op = "lit"
  BY <1>2, <1>3, <1>7 DEF Gives, LitGives
<1>8. CASE e.op \in {"and", "not", "cap", "csc", "ign"}
  <2>1. OneGives(L, D, e, p, env, m) /\ OneGives(L, X, e, p, env, n)
    BY <1>3, <1>8 DEF Gives
  <2> QED BY <1>1, <2>1 DEF OneGives
<1>9. CASE e.op = "tok"
  <2>1. TokGives(L, D, e, p, env, m) /\ TokGives(L, X, e, p, env, n)
    BY <1>3, <1>9 DEF Gives
  <2>2. PICK b : <<e.kid, p, InToken(L, env), b>> \in D /\ Trailed(L, D, p, env, b, m)
    BY <2>1 DEF TokGives
  <2>3. PICK c : <<e.kid, p, InToken(L, env), c>> \in X /\ Trailed(L, X, p, env, c, n)
    BY <2>1 DEF TokGives
  <2> QED BY <1>1, <1>2, <2>2, <2>3
<1>10. CASE e.op = "wsp"
  BY <1>1, <1>3, <1>10 DEF Gives, WspGives
<1>11. CASE e.op = "ref"
  <2> DEFINE r == L.grammar.rules[e.name]
             inside == IF r.no_whitespace THEN InToken(L, env) ELSE env
             Ends(R, b, x) == IF r.no_whitespace THEN Trailed(L, R, p, env, b, x) ELSE x = b
  <2>1. RefGives(L, D, e, p, env, m) /\ RefGives(L, X, e, p, env, n)
    BY <1>3, <1>11 DEF Gives
  <2>2. PICK b, x : /\ <<r.body, p, inside, b>> \in D /\ Ends(D, b, x) /\ m = Accepted(L, r, p, x)
    BY <2>1 DEF RefGives
  <2>3. PICK c, y : /\ <<r.body, p, inside, c>> \in X /\ Ends(X, c, y) /\ n = Accepted(L, r, p, y)
    BY <2>1 DEF RefGives
  <2>4. c = b
    <3> HIDE DEF inside, r
    <3> QED BY <1>1, <2>2, <2>3
  <2>5. y = x
    BY <1>2, <2>2, <2>3, <2>4
  <2> QED BY <2>2, <2>3, <2>5
<1> QED BY <1>4, <1>5, <1>6, <1>7, <1>8, <1>9, <1>10, <1>11 DEF Gives

(* No expression has two results at a position: what a grammar means is a  *)
(* function, although its rules choose nothing.                            *)
THEOREM OneResult ==
  ASSUME NEW L, ListsOf(L), NEW e, NEW p, NEW env, NEW m, NEW n,
         Derives(L, e, p, env, m), Derives(L, e, p, env, n)
  PROVE  n = m
<1> DEFINE Sure(q) == Only(L, q[1], q[2], q[3], q[4])
           Fine(q) == Straight(L, q[1], q[2], q[3], q[4], q[5])
           D == {q \in Derived(L) : Sure(q)}
           T == {q \in Passed(L) : Fine(q)}
<1>1. \A d, q, w, x : <<d, q, w, x>> \in D <=> Derives(L, d, q, w, x) /\ Only(L, d, q, w, x)
  <2> TAKE d, q, w, x
  <2>1. <<d, q, w, x>> \in D <=> <<d, q, w, x>> \in Derived(L) /\ Sure(<<d, q, w, x>>)
    <3> HIDE DEF Sure
    <3> QED OBVIOUS
  <2>2. Sure(<<d, q, w, x>>) <=> Only(L, d, q, w, x)
    OBVIOUS
  <2> HIDE DEF D, Sure
  <2> QED BY <2>1, <2>2 DEF Derives
<1>2. \A d, q, w, k, i :
        <<d, q, w, k, i>> \in T <=> Reaches(L, d, q, w, k, i) /\ Straight(L, d, q, w, k, i)
  <2> TAKE d, q, w, k, i
  <2>1. <<d, q, w, k, i>> \in T <=> <<d, q, w, k, i>> \in Passed(L) /\ Fine(<<d, q, w, k, i>>)
    <3> HIDE DEF Fine
    <3> QED OBVIOUS
  <2>2. Fine(<<d, q, w, k, i>>) <=> Straight(L, d, q, w, k, i)
    OBVIOUS
  <2> HIDE DEF T, Fine
  <2> QED BY <2>1, <2>2 DEF Reaches
<1>3. D \in SUBSET Derived(L) /\ T \in SUBSET Passed(L)
  OBVIOUS
<1> HIDE DEF D, T, Sure, Fine
<1>4. Certain(L, D) /\ Direct(L, T)
  BY <1>1, <1>2 DEF Certain, Direct
<1>5. ASSUME NEW d \in L.own, NEW q \in PlacesOf(L), NEW w \in Environments(L), NEW x \in LengthsOf(L),
             Derives(L, d, q, w, x), Gives(L, D, T, d, q, w, x)
      PROVE  <<d, q, w, x>> \in D
  <2>1. ASSUME NEW y, Derives(L, d, q, w, y) PROVE y = x
    <3>1. y \in LengthsOf(L)
      BY <2>1, DerivesTypes
    <3>2. Gives(L, Derived(L), Passed(L), d, q, w, y)
      BY <2>1, <3>1, DerivesIff
    <3> QED BY <1>4, <1>5, <3>1, <3>2, GivesOnce
  <2> QED BY <1>1, <1>5, <2>1 DEF Only
<1>6. ASSUME NEW d \in L.own, NEW q \in PlacesOf(L), NEW w \in Environments(L), NEW k \in Nat,
             NEW i \in PlacesOf(L), Reaches(L, d, q, w, k, i), ComesTo(D, T, d, q, w, k, i)
      PROVE  <<d, q, w, k, i>> \in T
  <2>1. CASE k = 0 /\ i = 0
    <3>1. ASSUME NEW l, NEW j, Reaches(L, d, q, w, l, j)
          PROVE  (l = k => j = i) /\ (l < k => FALSE)
      <4>1. l \in Nat /\ j \in PlacesOf(L) /\ ComesTo(Derived(L), Passed(L), d, q, w, l, j)
        BY <3>1, ReachesTypes, ReachesIff
      <4>2. ASSUME l = 0 PROVE j = 0
        BY <4>1, <4>2 DEF ComesTo
      <4>3. k = 0 /\ i = 0 /\ ~(l < 0)
        BY <2>1, <4>1
      <4> QED BY <4>2, <4>3
    <3> QED BY <1>2, <1>6, <3>1 DEF Straight
  <2>2. CASE ~(k = 0 /\ i = 0)
    <3>1. PICK j, n0 \in Nat :
            /\ k # 0 /\ <<d, q, w, k - 1, j>> \in T /\ GoesOn(d, k - 1)
            /\ <<NextKid(d, k - 1), q + j, w, n0>> \in D /\ i = j + n0
      BY <1>6, <2>2 DEF ComesTo
    <3>2. Straight(L, d, q, w, k - 1, j) /\ Only(L, NextKid(d, k - 1), q + j, w, n0)
      BY <1>1, <1>2, <3>1
    <3>3. k - 1 \in Nat /\ k - 1 + 1 = k
      BY <3>1
    <3>4. Straight(L, d, q, w, k - 1 + 1, j + n0)
      BY <3>1, <3>2, <3>3, StraightOn
    <3> QED BY <1>2, <1>6, <3>1, <3>3, <3>4
  <2> QED BY <2>1, <2>2
<1>7. D = Derived(L)
  BY <1>3, <1>5, <1>6, DerivedLeast
<1> QED BY <1>1, <1>7 DEF Derives, Only

----------------------------------------------------------------------------
(* What a match consumes.                                                  *)

(* A match stays in the input, matches nothing only if the analysis says   *)
(* that it may, and starts as the analysis says.                           *)
Begins(L, N, F, e, p, m) ==
  m # Fail => /\ p + m <= Len(L.input)
              /\ m = 0 => e \in N
              /\ m > 0 => L.input[p + 1] \in F[e]

(* So does what a sequence or repetition has matched so far.               *)
Advances(L, N, F, e, p, k, i) ==
  /\ p + i <= Len(L.input)
  /\ i > 0 => L.input[p + 1] \in F[e]
  /\ i = 0 /\ e.op = "seq" => \A j \in 1 .. k : e.kids[j] \in N
  /\ e.op = "rep" => (i = 0 /\ k > 0 => e.kid \in N) /\ (e.kid \notin N => k <= i)

(* Results, and ways, of which that is known.                              *)
Begun(L, N, F, D) ==
  \A d, q, w, n : <<d, q, w, n>> \in D =>
    d \in L.own /\ q \in PlacesOf(L) /\ n \in LengthsOf(L) /\ Begins(L, N, F, d, q, n)
Progressed(L, N, F, T) ==
  \A d, q, w, k, i : <<d, q, w, k, i>> \in T =>
    d \in L.own /\ q \in PlacesOf(L) /\ k \in Nat /\ i \in PlacesOf(L) /\ Advances(L, N, F, d, q, k, i)

(* Whitespace after a match adds to it.                                    *)
LEMMA TrailedAdds ==
  ASSUME NEW L, Formed(L), NEW N, NEW F, NEW D, Begun(L, N, F, D), NEW p \in PlacesOf(L), NEW env,
         NEW b \in LengthsOf(L), b # Fail => p + b <= Len(L.input),
         NEW m, Trailed(L, D, p, env, b, m), m # Fail
  PROVE  /\ b # Fail /\ b \in Nat /\ m \in Nat /\ p + m <= Len(L.input) /\ b <= m
         /\ b = 0 /\ m > 0 => Spaces(L) /\ L.input[p + 1] \in F[L.grammar.whitespace]
<1>1. b # Fail
  BY DEF Trailed
<1>2. b \in Nat /\ p \in Nat /\ Len(L.input) \in Nat
  BY <1>1 DEF LengthsOf, PlacesOf, Formed
<1>3. CASE env.token \/ L.grammar.whitespace = NoNode
  <2>1. m = b
    BY <1>3 DEF Trailed
  <2> QED BY <1>1, <1>2, <2>1
<1>4. CASE ~(env.token \/ L.grammar.whitespace = NoNode)
  <2>1. PICK w \in LengthsOf(L) : <<L.grammar.whitespace, p + b, env, w>> \in D /\ m = Plus(b, w)
    BY <1>1, <1>4 DEF Trailed
  <2>2. w # Fail /\ m = b + w
    BY <2>1 DEF Plus
  <2>3. w \in Nat
    BY <2>2 DEF LengthsOf, PlacesOf, Formed
  <2>4. p + b + w <= Len(L.input) /\ (w > 0 => L.input[p + b + 1] \in F[L.grammar.whitespace])
    BY <2>1, <2>2 DEF Begun, Begins
  <2> QED BY <1>1, <1>2, <1>4, <2>2, <2>3, <2>4 DEF Spaces
<1> QED BY <1>3, <1>4

(* A sequence or repetition that has come to its end.                      *)
LEMMA ManyBegins ==
  ASSUME NEW L, Formed(L), ClassicalIn(L), NEW N, Vanishing(L, N), NEW F, NEW D, NEW T,
         Progressed(L, N, F, T), NEW e \in L.own, e.op \in {"seq", "rep"}, NEW p \in PlacesOf(L), NEW env,
         NEW m, ManyGives(D, T, e, p, env, m)
  PROVE  Begins(L, N, F, e, p, m)
<1>1. PICK k \in Nat, i \in Nat :
        /\ <<e, p, env, k, i>> \in T
        /\ IF GoesOn(e, k) THEN m = IF e.op = "rep" /\ k >= e.min THEN i ELSE Fail ELSE m = i
  BY DEF ManyGives
<1>2. Advances(L, N, F, e, p, k, i)
  BY <1>1 DEF Progressed
<1>3. SUFFICES ASSUME m # Fail PROVE Begins(L, N, F, e, p, m)
  BY DEF Begins
<1>4. m = i /\ (e.op = "seq" => ~(k < Len(e.kids))) /\ (e.op = "rep" => k >= e.min \/ (e.max # Inf /\ ~(k < e.max)))
  BY <1>1, <1>3 DEF GoesOn
<1>5. ASSUME m = 0 PROVE e \in N
  <2>1. CASE e.op = "seq"
    <3>1. \A j \in 1 .. k : e.kids[j] \in N
      BY <1>2, <1>4, <1>5, <2>1 DEF Advances
    <3>2. \A j \in 1 .. Len(e.kids) : e.kids[j] \in N
      BY <1>4, <2>1, <3>1 DEF Formed
    <3> QED BY <2>1, <3>2 DEF Vanishing, MayVanish
  <2>2. CASE e.op = "rep"
    <3>1. e.min \in Nat /\ e.max \in Nat \cup {Inf} /\ (e.max = Inf \/ e.min <= e.max)
      BY <2>2 DEF Formed, ClassicalIn
    <3>2. k > 0 => e.kid \in N
      BY <1>2, <1>4, <1>5, <2>2 DEF Advances
    <3>3. k = 0 => e.min = 0
      BY <1>4, <2>2, <3>1 DEF Inf
    <3> QED BY <2>2, <3>2, <3>3 DEF Vanishing, MayVanish
  <2> QED BY <2>1, <2>2
<1> QED BY <1>2, <1>4, <1>5 DEF Begins, Advances

(* The rules preserve it.                                                  *)
LEMMA GivesBegins ==
  ASSUME NEW L, Formed(L), ClassicalIn(L), NEW N, Vanishing(L, N), NEW F, Starting(L, N, F),
         NEW D, Begun(L, N, F, D), NEW T, Progressed(L, N, F, T), NEW e \in L.own, NEW p \in PlacesOf(L),
         NEW env, NEW m \in LengthsOf(L), Gives(L, D, T, e, p, env, m)
  PROVE  Begins(L, N, F, e, p, m)
<1> DEFINE W == L.grammar.whitespace
<1>1. p \in Nat /\ Len(L.input) \in Nat /\ p <= Len(L.input) /\ (Spaces(L) => W \in L.own)
  BY DEF PlacesOf, Formed
<1>2. MayVanish(L, N, e) => e \in N
  BY DEF Vanishing
<1>3. /\ e.op = "chr" => e.set \subseteq F[e]
      /\ e.op = "lit" /\ e.text # <<>> => e.text[1] \in F[e]
      /\ e.op \notin {"and", "not"} => \A d \in L.own : Leads(L, N, e, d) => F[d] \subseteq F[e]
  BY DEF Starting
<1>4. SUFFICES ASSUME m # Fail PROVE Begins(L, N, F, e, p, m)
  BY DEF Begins
<1>5. m \in Nat
  BY <1>4 DEF LengthsOf, PlacesOf
<1>6. CASE e.op \in {"seq", "rep"}
  BY <1>6, ManyBegins DEF Gives
<1>7. CASE e.op = "chr"
  BY <1>1, <1>3, <1>4, <1>7 DEF Gives, ChrGives, Begins
<1>8. CASE e.op = "lit"
  <2> DEFINE b == IF StandsAt(e.text, p, L.input, L.grammar.word) THEN Len(e.text) ELSE Fail
  <2>1. Trailed(L, D, p, env, b, m) /\ Len(e.text) \in Nat /\ (e.text = <<>> <=> Len(e.text) = 0)
    BY <1>8 DEF Gives, LitGives, Formed
  <2>2. b # Fail => /\ p + Len(e.text) <= Len(L.input)
                    /\ \A q \in 1 .. Len(e.text) : L.input[p + q] = e.text[q]
                    /\ b = Len(e.text)
    BY DEF StandsAt
  <2>3. b \in LengthsOf(L) /\ (b # Fail => p + b <= Len(L.input))
    BY <1>1, <2>1, <2>2 DEF LengthsOf, PlacesOf
  <2> HIDE DEF b
  <2>4. /\ b # Fail /\ b \in Nat /\ p + m <= Len(L.input) /\ b <= m
        /\ b = 0 /\ m > 0 => Spaces(L) /\ L.input[p + 1] \in F[W]
    BY <1>4, <2>1, <2>3, TrailedAdds
  <2>5. CASE b = 0
    <3>1. e.text = <<>> /\ e \in N
      BY <1>2, <1>8, <2>1, <2>2, <2>4, <2>5 DEF MayVanish
    <3>2. Spaces(L) => F[W] \subseteq F[e]
      BY <1>1, <1>3, <1>8, <3>1 DEF Leads, SpaceLeads
    <3> QED BY <2>4, <2>5, <3>1, <3>2 DEF Begins
  <2>6. CASE b # 0
    <3>1. 1 \in 1 .. Len(e.text) /\ e.text # <<>>
      BY <2>1, <2>2, <2>4, <2>6
    <3>2. L.input[p + 1] \in F[e]
      BY <1>3, <1>8, <2>2, <2>4, <3>1
    <3> QED BY <1>5, <2>4, <2>6, <3>2 DEF Begins
  <2> QED BY <2>5, <2>6
<1>9. CASE e.op = "cho"
  <2>1. PICK k \in 1 .. Len(e.kids) : <<e.kids[k], p, env, m>> \in D
    BY <1>4, <1>9 DEF Gives, ChoGives
  <2>2. Begins(L, N, F, e.kids[k], p, m) /\ e.kids[k] \in L.own
    BY <2>1 DEF Begun
  <2>3. F[e.kids[k]] \subseteq F[e]
    BY <1>3, <1>9, <2>2 DEF Leads
  <2>4. e.kids[k] \in N => e \in N
    BY <1>2, <1>9 DEF MayVanish
  <2> QED BY <2>2, <2>3, <2>4 DEF Begins
<1>10. CASE e.op \in {"and", "not"}
  <2>1. m = 0
    BY <1>4, <1>10 DEF Gives, OneGives, Turned
  <2> QED BY <1>1, <1>2, <1>10, <2>1 DEF Begins, MayVanish
<1>11. CASE e.op \in {"cap", "csc", "ign"}
  <2>1. <<e.kid, p, env, m>> \in D
    BY <1>11 DEF Gives, OneGives, Turned
  <2>2. Begins(L, N, F, e.kid, p, m) /\ e.kid \in L.own
    BY <2>1 DEF Begun
  <2>3. F[e.kid] \subseteq F[e]
    BY <1>3, <1>11, <2>2 DEF Leads, Unary
  <2> QED BY <1>2, <1>11, <2>2, <2>3 DEF Begins, MayVanish
<1>12. CASE e.op = "tok"
  <2>1. PICK b \in LengthsOf(L) : <<e.kid, p, InToken(L, env), b>> \in D /\ Trailed(L, D, p, env, b, m)
    BY <1>12 DEF Gives, TokGives
  <2>2. Begins(L, N, F, e.kid, p, b) /\ e.kid \in L.own
    BY <2>1 DEF Begun
  <2>3. /\ b # Fail /\ b \in Nat /\ p + m <= Len(L.input) /\ b <= m
        /\ b = 0 /\ m > 0 => Spaces(L) /\ L.input[p + 1] \in F[W]
    BY <1>4, <2>1, <2>2, TrailedAdds DEF Begins
  <2>4. F[e.kid] \subseteq F[e]
    BY <1>3, <1>12, <2>2 DEF Leads, Unary
  <2>5. e.kid \in N /\ Spaces(L) => F[W] \subseteq F[e]
    BY <1>1, <1>3, <1>12 DEF Leads, SpaceLeads
  <2> QED BY <1>2, <1>5, <1>12, <2>2, <2>3, <2>4, <2>5 DEF Begins, MayVanish
<1>13. CASE e.op = "wsp"
  <2>1. m = 0 \/ <<e.kid, p, InSpace(L, env), m>> \in D
    BY <1>13 DEF Gives, WspGives
  <2>2. e \in N
    BY <1>2, <1>13 DEF MayVanish
  <2>3. CASE m = 0
    BY <1>1, <2>2, <2>3 DEF Begins
  <2>4. CASE m # 0
    <3>1. Begins(L, N, F, e.kid, p, m) /\ e.kid \in L.own
      BY <2>1, <2>4 DEF Begun
    <3>2. F[e.kid] \subseteq F[e]
      BY <1>3, <1>13, <3>1 DEF Leads, Unary
    <3> QED BY <2>2, <3>1, <3>2 DEF Begins
  <2> QED BY <2>3, <2>4
<1>14. CASE e.op = "ref"
  <2> DEFINE r == RuleOf(L, e)
             inside == IF r.no_whitespace THEN InToken(L, env) ELSE env
  <2>1. PICK b, n \in LengthsOf(L) :
          /\ <<r.body, p, inside, b>> \in D
          /\ IF r.no_whitespace THEN Trailed(L, D, p, env, b, n) ELSE n = b
          /\ m = Accepted(L, r, p, n)
    BY <1>14 DEF Gives, RefGives, RuleOf
  <2>2. Begins(L, N, F, r.body, p, b) /\ r.body \in L.own
    BY <2>1 DEF Begun
  <2>3. n = m
    BY <1>4, <2>1 DEF Accepted
  <2>4. /\ b # Fail /\ b \in Nat /\ p + m <= Len(L.input) /\ b <= m
        /\ b = 0 /\ m > 0 => r.no_whitespace /\ Spaces(L) /\ L.input[p + 1] \in F[W]
    <3>1. CASE r.no_whitespace
      <4>1. Trailed(L, D, p, env, b, m)
        BY <2>1, <2>3, <3>1
      <4> HIDE DEF r
      <4> QED BY <1>4, <2>2, <3>1, <4>1, TrailedAdds DEF Begins
    <3>2. CASE ~r.no_whitespace
      BY <1>4, <1>5, <2>1, <2>2, <2>3, <3>2 DEF Begins
    <3> QED BY <3>1, <3>2
  <2>5. F[r.body] \subseteq F[e]
    BY <1>3, <1>14, <2>2 DEF Leads
  <2>6. r.body \in N /\ Spaces(L) /\ r.no_whitespace => F[W] \subseteq F[e]
    BY <1>1, <1>3, <1>14 DEF Leads, SpaceLeads
  <2>7. r.body \in N => e \in N
    BY <1>2, <1>14 DEF MayVanish
  <2> HIDE DEF r
  <2> QED BY <1>5, <2>2, <2>4, <2>5, <2>6, <2>7 DEF Begins
<1> QED BY <1>6, <1>7, <1>8, <1>9, <1>10, <1>11, <1>12, <1>13, <1>14 DEF ClassicalIn, ClassicalOps

(* How far a sequence or repetition has come tells which of its operands   *)
(* may match nothing and what its match starts with.                       *)
LEMMA ComesToAdvances ==
  ASSUME NEW L, Formed(L), NEW N, NEW F, Starting(L, N, F),
         NEW D, Begun(L, N, F, D), NEW T, Progressed(L, N, F, T), NEW e \in L.own, NEW p \in PlacesOf(L),
         NEW env, NEW k \in Nat, NEW i \in PlacesOf(L), ComesTo(D, T, e, p, env, k, i)
  PROVE  Advances(L, N, F, e, p, k, i)
<1>1. p \in Nat /\ Len(L.input) \in Nat /\ p <= Len(L.input) /\ i \in Nat /\ e.op \in {"seq", "rep"}
  BY DEF PlacesOf, Formed, ComesTo
<1>2. CASE k = 0 /\ i = 0
  BY <1>1, <1>2 DEF Advances
<1>3. CASE ~(k = 0 /\ i = 0)
  <2>1. PICK j \in Nat, n \in Nat :
          /\ k # 0 /\ <<e, p, env, k - 1, j>> \in T /\ GoesOn(e, k - 1)
          /\ <<NextKid(e, k - 1), p + j, env, n>> \in D /\ i = j + n
    BY <1>3 DEF ComesTo
  <2> DEFINE d == NextKid(e, k - 1)
  <2>2. Advances(L, N, F, e, p, k - 1, j) /\ Begins(L, N, F, d, p + j, n) /\ d \in L.own
    BY <2>1 DEF Progressed, Begun
  <2>3. /\ p + j + n <= Len(L.input)
        /\ n = 0 => d \in N
        /\ n > 0 => L.input[p + j + 1] \in F[d]
    BY <2>2 DEF Begins, Fail
  <2>4. CASE e.op = "rep"
    <3>1. d = e.kid /\ F[d] \subseteq F[e]
      BY <2>2, <2>4 DEF NextKid, Starting, Leads, Unary
    <3>2. i > 0 => L.input[p + 1] \in F[e]
      <4>1. CASE j > 0
        BY <2>2, <4>1 DEF Advances
      <4>2. CASE j = 0
        BY <1>1, <2>1, <2>3, <3>1, <4>2
      <4> QED BY <2>1, <4>1, <4>2
    <3>3. (j = 0 /\ k - 1 > 0 => e.kid \in N) /\ (e.kid \notin N => k - 1 <= j)
      BY <2>2, <2>4 DEF Advances
    <3> QED BY <1>1, <2>1, <2>3, <2>4, <3>1, <3>2, <3>3 DEF Advances
  <2>5. CASE e.op = "seq"
    <3>1. d = e.kids[k] /\ k \in 1 .. Len(e.kids)
      BY <2>1, <2>5 DEF NextKid, GoesOn, Formed
    <3>2. j = 0 => \A l \in 1 .. k - 1 : e.kids[l] \in N
      BY <2>2, <2>5 DEF Advances
    <3>3. j = 0 => F[d] \subseteq F[e]
      BY <2>2, <2>5, <3>1, <3>2 DEF Starting, Leads
    <3>4. i > 0 => L.input[p + 1] \in F[e]
      <4>1. CASE j > 0
        BY <2>2, <4>1 DEF Advances
      <4>2. CASE j = 0
        BY <1>1, <2>1, <2>3, <3>3, <4>2
      <4> QED BY <2>1, <4>1, <4>2
    <3>5. i = 0 => \A l \in 1 .. k : e.kids[l] \in N
      BY <2>1, <2>3, <3>1, <3>2
    <3> QED BY <1>1, <2>1, <2>3, <2>5, <3>4, <3>5 DEF Advances
  <2> QED BY <1>1, <2>4, <2>5
<1> QED BY <1>2, <1>3

(* So it holds of all that is derived.                                     *)
LEMMA Consumes ==
  ASSUME NEW L, Formed(L), ClassicalIn(L), NEW N, Vanishing(L, N), NEW F, Starting(L, N, F)
  PROVE  Begun(L, N, F, Derived(L)) /\ Progressed(L, N, F, Passed(L))
<1> DEFINE Sure(q) == Begins(L, N, F, q[1], q[2], q[4])
           Fine(q) == Advances(L, N, F, q[1], q[2], q[4], q[5])
           D == {q \in Derived(L) : Sure(q)}
           T == {q \in Passed(L) : Fine(q)}
<1>1. \A d, q, w, n : <<d, q, w, n>> \in D <=> Derives(L, d, q, w, n) /\ Begins(L, N, F, d, q, n)
  <2> TAKE d, q, w, n
  <2>1. <<d, q, w, n>> \in D <=> <<d, q, w, n>> \in Derived(L) /\ Sure(<<d, q, w, n>>)
    <3> HIDE DEF Sure
    <3> QED OBVIOUS
  <2>2. Sure(<<d, q, w, n>>) <=> Begins(L, N, F, d, q, n)
    OBVIOUS
  <2> HIDE DEF D, Sure
  <2> QED BY <2>1, <2>2 DEF Derives
<1>2. \A d, q, w, k, i :
        <<d, q, w, k, i>> \in T <=> Reaches(L, d, q, w, k, i) /\ Advances(L, N, F, d, q, k, i)
  <2> TAKE d, q, w, k, i
  <2>1. <<d, q, w, k, i>> \in T <=> <<d, q, w, k, i>> \in Passed(L) /\ Fine(<<d, q, w, k, i>>)
    <3> HIDE DEF Fine
    <3> QED OBVIOUS
  <2>2. Fine(<<d, q, w, k, i>>) <=> Advances(L, N, F, d, q, k, i)
    OBVIOUS
  <2> HIDE DEF T, Fine
  <2> QED BY <2>1, <2>2 DEF Reaches
<1>3. D \in SUBSET Derived(L) /\ T \in SUBSET Passed(L)
  OBVIOUS
<1> HIDE DEF D, T, Sure, Fine
<1>4. Begun(L, N, F, D) /\ Progressed(L, N, F, T)
  BY <1>1, <1>2, DerivesTypes, ReachesTypes DEF Begun, Progressed
<1>5. ASSUME NEW d \in L.own, NEW q \in PlacesOf(L), NEW w \in Environments(L), NEW n \in LengthsOf(L),
             Derives(L, d, q, w, n), Gives(L, D, T, d, q, w, n)
      PROVE  <<d, q, w, n>> \in D
  BY <1>1, <1>4, <1>5, GivesBegins
<1>6. ASSUME NEW d \in L.own, NEW q \in PlacesOf(L), NEW w \in Environments(L), NEW k \in Nat,
             NEW i \in PlacesOf(L), Reaches(L, d, q, w, k, i), ComesTo(D, T, d, q, w, k, i)
      PROVE  <<d, q, w, k, i>> \in T
  BY <1>2, <1>4, <1>6, ComesToAdvances
<1>7. D = Derived(L) /\ T = Passed(L)
  BY <1>3, <1>5, <1>6, DerivedLeast
<1> QED BY <1>4, <1>7

----------------------------------------------------------------------------
(* Every operator has a result everywhere.                                 *)
Has(L, e, p, env) == \E m : Derives(L, e, p, env, m)

(* What an operator at p may rely on: all there is further on, and what    *)
(* the analysis says it may call at p.                                     *)
HasLater(L, p) ==
  \A d \in L.own, q \in PlacesOf(L), w \in Environments(L) : q > p => Has(L, d, q, w)
HasBelow(L, N, e, p) ==
  \A d \in L.own, w \in Environments(L) : Leads(L, N, e, d) => Has(L, d, p, w)

(* A token boundary and whitespace are environments.                       *)
LEMMA EnvironmentTypes ==
  ASSUME NEW L
  PROVE  /\ Outermost \in Environments(L)
         /\ \A env \in Environments(L) :
              InToken(L, env) \in Environments(L) /\ InSpace(L, env) \in Environments(L)
<1>1. CASE ~Spaces(L)
  BY <1>1 DEF Environments, Spaces, InToken, InSpace
<1>2. CASE Spaces(L)
  <2>1. Environments(L) = [token : BOOLEAN, space : BOOLEAN]
    BY <1>2 DEF Environments, Spaces
  <2>2. \A a, b \in BOOLEAN : Env(a, b) \in Environments(L)
    BY <2>1 DEF Env
  <2>3. \A env \in Environments(L) : env.token \in BOOLEAN /\ env.space \in BOOLEAN
    BY <2>1
  <2>4. \A env : InToken(L, env) = Env(TRUE, env.space) /\ InSpace(L, env) = Env(env.token, TRUE)
    BY <1>2 DEF InToken, InSpace, Spaces
  <2> QED BY <2>2, <2>3, <2>4 DEF Outermost
<1> QED BY <1>1, <1>2

(* A set of numbers has a lowest.                                          *)
LEMMA LowestNumber ==
  ASSUME NEW K, K \subseteq Nat, K # {} PROVE \E k \in K : \A l \in K : ~(l < k)
<1>1. PICK k \in K : \A l \in K : ~(<<l, k>> \in OpToRel(<, Nat))
  BY NatLessThanWellFounded, WFMin
<1>2. \A l \in K : ~(l < k)
  BY <1>1 DEF OpToRel
<1> QED BY <1>2

(* A match comes to something with the whitespace after it, if the         *)
(* whitespace does.                                                        *)
LEMMA TrailedHas ==
  ASSUME NEW L, Formed(L), NEW N, NEW F, Begun(L, N, F, Derived(L)), NEW p \in PlacesOf(L), NEW env,
         NEW b \in LengthsOf(L), b # Fail => p + b <= Len(L.input),
         b # Fail /\ Spaces(L) => Has(L, L.grammar.whitespace, p + b, env)
  PROVE  \E m \in LengthsOf(L) : Trailed(L, Derived(L), p, env, b, m)
<1>1. CASE b = Fail \/ env.token \/ L.grammar.whitespace = NoNode
  BY <1>1 DEF Trailed
<1>2. CASE ~(b = Fail \/ env.token \/ L.grammar.whitespace = NoNode)
  <2>1. PICK w : Derives(L, L.grammar.whitespace, p + b, env, w)
    BY <1>2 DEF Has, Spaces
  <2>2. w \in LengthsOf(L) /\ Begins(L, N, F, L.grammar.whitespace, p + b, w)
    BY <2>1, DerivesTypes DEF Derives, Begun
  <2>3. Plus(b, w) \in LengthsOf(L)
    <3>1. CASE w = Fail
      BY <2>2, <3>1 DEF Plus
    <3>2. CASE w # Fail
      <4>1. /\ b \in Nat /\ w \in Nat /\ p \in Nat /\ Len(L.input) \in Nat
            /\ p + b + w <= Len(L.input)
        BY <1>2, <2>2, <3>2 DEF Begins, LengthsOf, PlacesOf, Formed
      <4>2. Plus(b, w) = b + w /\ b + w \in 0 .. Len(L.input)
        BY <1>2, <3>2, <4>1 DEF Plus
      <4> QED BY <4>2 DEF LengthsOf, PlacesOf
    <3> QED BY <3>1, <3>2
  <2> QED BY <1>2, <2>1, <2>2, <2>3 DEF Trailed, Derives
<1> QED BY <1>1, <1>2

(* A choice ends at the first alternative that does not fail.              *)
LEMMA ChoHas ==
  ASSUME NEW L, Formed(L), NEW e \in L.own, e.op = "cho", NEW p \in PlacesOf(L),
         NEW env \in Environments(L), \A k \in 1 .. Len(e.kids) : Has(L, e.kids[k], p, env)
  PROVE  Has(L, e, p, env)
<1> DEFINE K == {k \in 1 .. Len(e.kids) : ~Derives(L, e.kids[k], p, env, Fail)}
<1>0. Len(e.kids) \in Nat /\ Fail \in LengthsOf(L)
  BY DEF Formed, LengthsOf
<1>1. CASE K = {}
  <2>1. ChoGives(Derived(L), e, p, env, Fail)
    BY <1>1 DEF ChoGives, Derives
  <2> QED BY <1>0, <2>1, DerivesIff DEF Gives, Has
<1>2. CASE K # {}
  <2>0. K \subseteq Nat
    BY <1>0
  <2>1. PICK k \in K : \A l \in K : ~(l < k)
    <3> HIDE DEF K
    <3> QED BY <1>2, <2>0, LowestNumber
  <2>2. k \in 1 .. Len(e.kids) /\ ~Derives(L, e.kids[k], p, env, Fail)
    OBVIOUS
  <2>3. \A j \in 1 .. k - 1 : j \in 1 .. Len(e.kids) /\ j < k
    BY <1>0, <2>2
  <2>4. FailsBefore(Derived(L), e, p, env, k)
    BY <2>1, <2>3 DEF FailsBefore, Derives
  <2>5. PICK m : Derives(L, e.kids[k], p, env, m)
    BY <2>2 DEF Has
  <2>6. m # Fail /\ m \in LengthsOf(L)
    BY <2>2, <2>5, DerivesTypes
  <2>7. ChoGives(Derived(L), e, p, env, m)
    BY <2>2, <2>4, <2>5, <2>6 DEF ChoGives, Derives
  <2> QED BY <2>6, <2>7, DerivesIff DEF Gives, Has
<1> QED BY <1>1, <1>2

(* A sequence or repetition ends: there is a first number of operands      *)
(* that it does not reach.                                                 *)
LEMMA ManyHas ==
  ASSUME NEW L, Formed(L), ClassicalIn(L), NEW N, Ending(L, N), NEW F, Begun(L, N, F, Derived(L)),
         Progressed(L, N, F, Passed(L)), NEW e \in L.own, e.op \in {"seq", "rep"}, NEW p \in PlacesOf(L),
         NEW env \in Environments(L), HasLater(L, p), HasBelow(L, N, e, p)
  PROVE  Has(L, e, p, env)
<1> DEFINE K == {k \in Nat : \A i : ~Reaches(L, e, p, env, k, i)}
<1>0. /\ p \in Nat /\ Len(L.input) \in Nat /\ p <= Len(L.input) /\ PlacesOf(L) = 0 .. Len(L.input)
      /\ e.op = "seq" => Len(e.kids) \in Nat
      /\ e.op = "rep" => e.max \in Nat \cup {Inf}
  BY DEF PlacesOf, Formed
<1>1. SUFFICES ASSUME ~Has(L, e, p, env) PROVE FALSE
  OBVIOUS
<1>2. ASSUME NEW m \in LengthsOf(L), ManyGives(Derived(L), Passed(L), e, p, env, m) PROVE FALSE
  BY <1>1, <1>2, DerivesIff DEF Gives, Has
<1>3. ASSUME NEW k, NEW i, Reaches(L, e, p, env, k, i)
      PROVE  /\ k \in Nat /\ i \in PlacesOf(L) /\ i \in Nat /\ GoesOn(e, k)
             /\ ~Derives(L, NextKid(e, k), p + i, env, Fail)
  <2>1. k \in Nat /\ i \in PlacesOf(L) /\ i \in Nat
    BY <1>3, ReachesTypes DEF PlacesOf
  <2>2. i \in LengthsOf(L) /\ Fail \in LengthsOf(L)
    BY <2>1 DEF LengthsOf
  <2>3. GoesOn(e, k)
    <3>1. ~GoesOn(e, k) => ManyGives(Derived(L), Passed(L), e, p, env, i)
      BY <1>3, <2>1 DEF ManyGives, Reaches
    <3> QED BY <1>2, <2>2, <3>1
  <2>4. ~Derives(L, NextKid(e, k), p + i, env, Fail)
    <3>1. Derives(L, NextKid(e, k), p + i, env, Fail) =>
            ManyGives(Derived(L), Passed(L), e, p, env,
                      IF e.op = "rep" /\ k >= e.min THEN i ELSE Fail)
      BY <1>3, <2>1, <2>3 DEF ManyGives, Reaches, Derives
    <3> QED BY <1>2, <2>2, <3>1
  <2> QED BY <2>1, <2>3, <2>4
<1>4. CASE K = {}
  <2>1. \A k \in Nat : \E i : Reaches(L, e, p, env, k, i)
    BY <1>4
  <2>2. CASE e.op = "seq"
    <3>1. PICK i : Reaches(L, e, p, env, Len(e.kids), i)
      BY <1>0, <2>1, <2>2
    <3>2. GoesOn(e, Len(e.kids))
      BY <1>3, <3>1
    <3> QED BY <1>0, <2>2, <3>2 DEF GoesOn
  <2>3. CASE e.op = "rep" /\ e.max # Inf
    <3>0. e.max \in Nat
      BY <1>0, <2>3
    <3>1. PICK i : Reaches(L, e, p, env, e.max, i)
      BY <2>1, <3>0
    <3>2. GoesOn(e, e.max)
      BY <1>3, <3>1
    <3> QED BY <2>3, <3>0, <3>2 DEF GoesOn
  <2>4. CASE e.op = "rep" /\ e.max = Inf
    <3>1. Len(L.input) + 1 \in Nat
      BY <1>0
    <3>2. PICK i : Reaches(L, e, p, env, Len(L.input) + 1, i)
      BY <2>1, <3>1
    <3>3. Advances(L, N, F, e, p, Len(L.input) + 1, i) /\ i \in PlacesOf(L)
      BY <3>2 DEF Progressed, Reaches
    <3>4. Len(L.input) + 1 <= i
      BY <2>4, <3>3 DEF Advances, Ending
    <3> QED BY <1>0, <3>3, <3>4
  <2> QED BY <2>2, <2>3, <2>4
<1>5. CASE K # {}
  <2>0. K \subseteq Nat
    OBVIOUS
  <2>1. PICK k \in K : \A l \in K : ~(l < k)
    <3> HIDE DEF K
    <3> QED BY <1>5, <2>0, LowestNumber
  <2>2. k \in Nat /\ \A i : ~Reaches(L, e, p, env, k, i)
    OBVIOUS
  <2>3. k # 0
    <3>1. ComesTo(Derived(L), Passed(L), e, p, env, 0, 0) /\ 0 \in PlacesOf(L)
      BY <1>0 DEF ComesTo
    <3> QED BY <2>2, <3>1, ReachesIff
  <2>4. PICK j : Reaches(L, e, p, env, k - 1, j)
    <3>1. k - 1 \in Nat /\ k - 1 < k
      BY <2>2, <2>3
    <3> QED BY <2>1, <3>1
  <2>5. /\ j \in PlacesOf(L) /\ j \in Nat /\ GoesOn(e, k - 1)
        /\ ~Derives(L, NextKid(e, k - 1), p + j, env, Fail)
    BY <1>3, <2>4
  <2>6. Advances(L, N, F, e, p, k - 1, j)
    BY <2>4 DEF Progressed, Reaches
  <2> DEFINE d == NextKid(e, k - 1)
  <2>7. d \in L.own /\ (e.op = "seq" => k \in 1 .. Len(e.kids) /\ d = e.kids[k])
    BY <1>0, <2>2, <2>3, <2>5 DEF NextKid, GoesOn, Formed, Unary
  <2>8. p + j \in PlacesOf(L)
    BY <1>0, <2>5, <2>6 DEF Advances
  <2>9. Has(L, d, p + j, env)
    <3>1. CASE j # 0
      <4>1. p + j > p
        BY <1>0, <2>5, <3>1
      <4> QED BY <2>7, <2>8, <4>1 DEF HasLater
    <3>2. CASE j = 0
      <4>1. CASE e.op = "seq"
        <5>1. \A l \in 1 .. k - 1 : e.kids[l] \in N
          BY <2>6, <3>2, <4>1 DEF Advances
        <5>2. Leads(L, N, e, d)
          BY <2>7, <4>1, <5>1 DEF Leads
        <5>3. Has(L, d, p, env)
          BY <2>7, <5>2 DEF HasBelow
        <5> QED BY <1>0, <3>2, <5>3
      <4>2. CASE e.op = "rep"
        <5>1. Leads(L, N, e, d)
          BY <4>2 DEF Leads, NextKid, Unary
        <5>2. Has(L, d, p, env)
          BY <2>7, <5>1 DEF HasBelow
        <5> QED BY <1>0, <3>2, <5>2
      <4> QED BY <4>1, <4>2
    <3> QED BY <3>1, <3>2
  <2>10. PICK n : Derives(L, d, p + j, env, n)
    BY <2>9 DEF Has
  <2>11. n # Fail /\ n \in LengthsOf(L) /\ Begins(L, N, F, d, p + j, n)
    BY <2>5, <2>10, DerivesTypes DEF Begun, Derives
  <2>12. n \in Nat /\ j + n \in PlacesOf(L)
    BY <1>0, <2>5, <2>11 DEF Begins, LengthsOf
  <2>13. ComesTo(Derived(L), Passed(L), e, p, env, k, j + n)
    BY <2>3, <2>4, <2>5, <2>10, <2>12 DEF ComesTo, Reaches, Derives
  <2>14. Reaches(L, e, p, env, k, j + n)
    BY <2>2, <2>12, <2>13, ReachesIff
  <2> QED BY <2>2, <2>14
<1> QED BY <1>4, <1>5

(* Whatever an operator is, it has a result if what it relies on has.      *)
LEMMA OperatorHas ==
  ASSUME NEW L, Formed(L), ClassicalIn(L), NEW N, Ending(L, N), NEW F, Begun(L, N, F, Derived(L)),
         Progressed(L, N, F, Passed(L)), NEW e \in L.own, NEW p \in PlacesOf(L),
         NEW env \in Environments(L), HasLater(L, p), HasBelow(L, N, e, p)
  PROVE  Has(L, e, p, env)
<1> DEFINE W == L.grammar.whitespace  D == Derived(L)
<1>1. /\ p \in Nat /\ Len(L.input) \in Nat /\ p <= Len(L.input) /\ PlacesOf(L) = 0 .. Len(L.input)
      /\ LengthsOf(L) = PlacesOf(L) \cup {Fail} /\ (Spaces(L) => W \in L.own)
      /\ InToken(L, env) \in Environments(L) /\ InSpace(L, env) \in Environments(L)
  BY EnvironmentTypes DEF PlacesOf, LengthsOf, Formed
<1>2. ASSUME NEW m \in LengthsOf(L), Gives(L, D, Passed(L), e, p, env, m) PROVE Has(L, e, p, env)
  BY <1>2, DerivesIff DEF Has
<1>3. ASSUME NEW d \in L.own, Leads(L, N, e, d), NEW w \in Environments(L)
      PROVE  \E n \in LengthsOf(L) : <<d, p, w, n>> \in D /\ Begins(L, N, F, d, p, n)
  <2>1. PICK n : Derives(L, d, p, w, n)
    BY <1>3 DEF HasBelow, Has
  <2> QED BY <2>1, DerivesTypes DEF Derives, Begun
<1>4. ASSUME NEW b \in LengthsOf(L), b # Fail => p + b <= Len(L.input), b = 0 => SpaceLeads(L, N, e)
      PROVE  \E m \in LengthsOf(L) : Trailed(L, D, p, env, b, m)
  <2>1. ASSUME b # Fail, Spaces(L) PROVE Has(L, W, p + b, env)
    <3>1. b \in Nat /\ p + b \in PlacesOf(L)
      BY <1>1, <1>4, <2>1
    <3>2. CASE b = 0
      <4>1. Leads(L, N, e, W)
        BY <1>4, <2>1, <3>2 DEF Leads
      <4>2. Has(L, W, p, env)
        BY <1>1, <2>1, <4>1 DEF HasBelow
      <4> QED BY <1>1, <3>2, <4>2
    <3>3. CASE b # 0
      <4>1. p + b > p
        BY <1>1, <3>1, <3>3
      <4> QED BY <1>1, <2>1, <3>1, <4>1 DEF HasLater
    <3> QED BY <3>2, <3>3
  <2> HIDE DEF D, W
  <2> QED BY <1>4, <2>1, TrailedHas DEF D, W
<1>5. CASE e.op \in {"seq", "rep"}
  BY <1>5, ManyHas
<1>6. CASE e.op = "cho"
  <2>1. ASSUME NEW k \in 1 .. Len(e.kids) PROVE Has(L, e.kids[k], p, env)
    <3>1. e.kids[k] \in L.own /\ Leads(L, N, e, e.kids[k])
      BY <1>6 DEF Formed, Leads
    <3> QED BY <3>1 DEF HasBelow
  <2> QED BY <1>6, <2>1, ChoHas
<1>7. CASE e.op = "chr"
  <2> DEFINE m == IF p < Len(L.input) /\ L.input[p + 1] \in e.set THEN 1 ELSE Fail
  <2>1. m \in LengthsOf(L) /\ Gives(L, D, Passed(L), e, p, env, m)
    BY <1>1, <1>7 DEF Gives, ChrGives
  <2> QED BY <1>2, <2>1
<1>8. CASE e.op = "lit"
  <2> DEFINE b == IF StandsAt(e.text, p, L.input, L.grammar.word) THEN Len(e.text) ELSE Fail
  <2>1. /\ b \in LengthsOf(L) /\ (b # Fail => p + b <= Len(L.input))
        /\ b = 0 => SpaceLeads(L, N, e)
    BY <1>1, <1>8 DEF StandsAt, Formed, SpaceLeads, Fail
  <2>2. PICK m \in LengthsOf(L) : Trailed(L, D, p, env, b, m)
    BY <1>4, <2>1
  <2>3. Gives(L, D, Passed(L), e, p, env, m)
    BY <1>8, <2>2 DEF Gives, LitGives
  <2> QED BY <1>2, <2>3
<1>9. CASE e.op \in {"and", "not", "cap", "csc", "ign"}
  <2>1. e.kid \in L.own /\ Leads(L, N, e, e.kid)
    BY <1>9 DEF Formed, Unary, Leads
  <2>2. PICK n \in LengthsOf(L) : <<e.kid, p, env, n>> \in D
    BY <1>3, <2>1
  <2>3. Turned(e.op, n) \in LengthsOf(L)
    BY <1>1 DEF Turned
  <2>4. Gives(L, D, Passed(L), e, p, env, Turned(e.op, n))
    BY <1>9, <2>2 DEF Gives, OneGives
  <2> QED BY <1>2, <2>3, <2>4
<1>10. CASE e.op = "tok"
  <2>1. e.kid \in L.own /\ Leads(L, N, e, e.kid)
    BY <1>10 DEF Formed, Unary, Leads
  <2>2. PICK b \in LengthsOf(L) : <<e.kid, p, InToken(L, env), b>> \in D /\ Begins(L, N, F, e.kid, p, b)
    BY <1>1, <1>3, <2>1
  <2>3. (b # Fail => p + b <= Len(L.input)) /\ (b = 0 => SpaceLeads(L, N, e))
    BY <1>10, <2>2 DEF Begins, SpaceLeads, Fail
  <2>4. PICK m \in LengthsOf(L) : Trailed(L, D, p, env, b, m)
    BY <1>4, <2>3
  <2>5. Gives(L, D, Passed(L), e, p, env, m)
    BY <1>10, <2>2, <2>4 DEF Gives, TokGives
  <2> QED BY <1>2, <2>5
<1>11. CASE e.op = "wsp"
  <2>1. e.kid \in L.own /\ Leads(L, N, e, e.kid)
    BY <1>11 DEF Formed, Unary, Leads
  <2>2. PICK n \in LengthsOf(L) : <<e.kid, p, InSpace(L, env), n>> \in D
    BY <1>1, <1>3, <2>1
  <2> DEFINE m == IF env.space THEN 0 ELSE n
  <2>3. m \in LengthsOf(L) /\ Gives(L, D, Passed(L), e, p, env, m)
    BY <1>1, <1>11, <2>2 DEF Gives, WspGives
  <2> QED BY <1>2, <2>3
<1>12. CASE e.op = "ref"
  <2> DEFINE r == RuleOf(L, e)
             inside == IF r.no_whitespace THEN InToken(L, env) ELSE env
  <2>1. r.body \in L.own /\ Leads(L, N, e, r.body) /\ inside \in Environments(L)
    BY <1>1, <1>12 DEF Formed, Leads
  <2>2. PICK b \in LengthsOf(L) : <<r.body, p, inside, b>> \in D /\ Begins(L, N, F, r.body, p, b)
    <3> HIDE DEF r, inside, D
    <3> QED BY <1>3, <2>1
  <2>3. PICK n \in LengthsOf(L) : IF r.no_whitespace THEN Trailed(L, D, p, env, b, n) ELSE n = b
    <3>1. CASE r.no_whitespace
      <4>1. (b # Fail => p + b <= Len(L.input)) /\ (b = 0 => SpaceLeads(L, N, e))
        BY <1>12, <2>2, <3>1 DEF Begins, SpaceLeads, Fail
      <4> HIDE DEF r
      <4> QED BY <1>4, <3>1, <4>1
    <3> HIDE DEF r
    <3>2. CASE ~r.no_whitespace
      BY <3>2
    <3> QED BY <3>1, <3>2
  <2>4. Accepted(L, r, p, n) \in LengthsOf(L)
    BY <1>1 DEF Accepted
  <2>5. RefGives(L, D, e, p, env, Accepted(L, r, p, n))
    BY <2>2, <2>3 DEF RefGives, RuleOf
  <2>6. Gives(L, D, Passed(L), e, p, env, Accepted(L, r, p, n))
    BY <1>12, <2>5 DEF Gives
  <2> HIDE DEF r
  <2> QED BY <1>2, <2>4, <2>6
<1> QED BY <1>5, <1>6, <1>7, <1>8, <1>9, <1>10, <1>11, <1>12 DEF ClassicalIn, ClassicalOps

(* Every operator has a result at every place, in every environment: a     *)
(* grammar without left recursion and endless repetitions is total.  One   *)
(* without a result could be chosen as far on as there is one, and with    *)
(* the lowest rank there: it would lack nothing that it relies on.         *)
THEOREM EveryResult ==
  ASSUME NEW L, Formed(L), ClassicalIn(L), NEW N, NEW F, NEW rank, Vanishing(L, N), Starting(L, N, F),
         Ranked(L, N, rank), Ending(L, N), NEW e \in L.own, NEW p \in PlacesOf(L),
         NEW env \in Environments(L)
  PROVE  Has(L, e, p, env)
<1> DEFINE Lacks(d, q) == \E w \in Environments(L) : ~Has(L, d, q, w)
           Rest(q) == Len(L.input) - q
           A == {n \in Nat : \E d \in L.own, q \in PlacesOf(L) : Rest(q) = n /\ Lacks(d, q)}
<1>1. Begun(L, N, F, Derived(L)) /\ Progressed(L, N, F, Passed(L))
  BY Consumes
<1>2. /\ Len(L.input) \in Nat
      /\ \A q \in PlacesOf(L) : q \in Nat /\ Rest(q) \in Nat
      /\ \A d \in L.own : rank[d] \in Nat
  BY DEF PlacesOf, Formed, Ranked
<1>3. SUFFICES ASSUME A # {} PROVE FALSE
  <2>1. ~Has(L, e, p, env) => Rest(p) \in A
    BY <1>2
  <2> QED BY <1>3, <2>1
<1>4. PICK n \in A : \A l \in A : ~(l < n)
  <2>1. A \subseteq Nat
    OBVIOUS
  <2> HIDE DEF A
  <2> QED BY <1>3, <2>1, LowestNumber
<1> DEFINE B == {k \in Nat : \E d \in L.own, q \in PlacesOf(L) : /\ Rest(q) = n /\ Lacks(d, q)
                                                               /\ rank[d] = k}
<1>5. B # {} /\ B \subseteq Nat
  <2>1. PICK d \in L.own, q \in PlacesOf(L) : Rest(q) = n /\ Lacks(d, q)
    OBVIOUS
  <2>2. rank[d] \in B
    BY <1>2, <2>1
  <2> QED BY <2>2
<1>6. PICK k \in B : \A l \in B : ~(l < k)
  <2> HIDE DEF B
  <2> QED BY <1>5, LowestNumber
<1>7. PICK d \in L.own, q \in PlacesOf(L) : Rest(q) = n /\ Lacks(d, q) /\ rank[d] = k
  OBVIOUS
<1>8. PICK w \in Environments(L) : ~Has(L, d, q, w)
  BY <1>7
<1>9. HasLater(L, q)
  <2>1. SUFFICES ASSUME NEW c \in L.own, NEW x \in PlacesOf(L), x > q, NEW v \in Environments(L)
                 PROVE  Has(L, c, x, v)
    BY DEF HasLater
  <2>2. Rest(x) \in Nat /\ Rest(x) < n
    BY <1>2, <1>7, <2>1
  <2>3. ~Has(L, c, x, v) => Rest(x) \in A
    BY <2>2
  <2> HIDE DEF A, Rest
  <2> QED BY <1>4, <2>2, <2>3
<1>10. HasBelow(L, N, d, q)
  <2>1. SUFFICES ASSUME NEW c \in L.own, NEW v \in Environments(L), Leads(L, N, d, c)
                 PROVE  Has(L, c, q, v)
    BY DEF HasBelow
  <2>2. rank[c] \in Nat /\ rank[c] < k
    BY <1>2, <1>7, <2>1 DEF Ranked
  <2>3. ~Has(L, c, q, v) => rank[c] \in B
    BY <1>7, <2>2
  <2> HIDE DEF B
  <2> QED BY <1>6, <2>2, <2>3
<1> QED BY <1>1, <1>8, <1>9, <1>10, OperatorHas

(* An alternative that its first set rules out fails there.                *)
LEMMA FilteredFails ==
  ASSUME NEW L, Formed(L), ClassicalIn(L), NEW N, NEW F, NEW rank, Analysis(L, N, F, rank),
         NEW e \in L.own, e.op = "cho", e.first # <<>>, NEW k \in 1 .. Len(e.kids),
         NEW p \in PlacesOf(L), p < Len(L.input), L.input[p + 1] \notin e.first[k],
         NEW env \in Environments(L)
  PROVE  Derives(L, e.kids[k], p, env, Fail)
<1> DEFINE d == e.kids[k]
<1>1. d \in L.own /\ p + 1 \in 1 .. Len(L.input) /\ p \in Nat
  BY DEF Formed, PlacesOf
<1>2. d \notin N /\ L.input[p + 1] \notin F[d]
  BY <1>1 DEF Analysis, RulesOut
<1>3. PICK m : Derives(L, d, p, env, m)
  BY <1>1, EveryResult DEF Analysis, Has
<1>4. m \in LengthsOf(L) /\ Begins(L, N, F, d, p, m)
  BY <1>3, DerivesTypes, Consumes DEF Analysis, Begun, Derives
<1>5. m = Fail
  BY <1>2, <1>4 DEF Begins, LengthsOf, PlacesOf
<1> QED BY <1>3, <1>5
=============================================================================
