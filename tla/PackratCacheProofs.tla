------------------------- MODULE PackratCacheProofs -------------------------
(***************************************************************************)
(* Proofs about PackratCache, for every set of keys and values, every hash *)
(* and every initial capacity of at least two slots.                       *)
(*                                                                         *)
(* Unique needs Reachable: a key that is in the table lies before the      *)
(* first empty slot of its path, so an insertion that has walked to that   *)
(* slot has seen that the key is not there.  During a rehash it needs that *)
(* the new table holds only what has been moved (Moved) out of a table     *)
(* without duplicates (OldUnique).  ProbesEnd needs that used_ counts the  *)
(* slots taken (LoadBounded) and the size of the table that is being       *)
(* filled (Sizes).  The refinement of MemoStore needs them all.            *)
(***************************************************************************)
EXTENDS PackratCacheProps, FiniteSetTheorems, WellFoundedInduction, TLAPS

USE DEF Slots, Marks

(* Every step keeps the types of the variables.                            *)
LEMMA TypeStep ==
  ASSUME TypeOK, [Next]_vars PROVE TypeOK'
<1> USE CacheAssumption DEF TypeOK
<1>1. ASSUME NEW k \in Keys, Find(k) PROVE TypeOK'
  <2>1. answer' \in Keys \X (Vals \cup {NoVal})
    BY <1>1 DEF Find, StopsAt, FirstOn
  <2> QED BY <1>1, <2>1 DEF Find, table, old
<1>2. ASSUME NEW k \in Keys, Erase(k) PROVE TypeOK'
  <2>1. keys' \in [Slots(cap) -> Keys \cup Marks] /\ vals' \in [Slots(cap) -> Vals \cup {NoVal}]
    BY <1>2 DEF Erase, table
  <2> QED BY <1>2, <2>1 DEF Erase, table, old, NoAnswer
<1>3. ASSUME NEW k \in Keys, NEW v \in Vals, Insert(k, v) PROVE TypeOK'
  <2>1. CASE NeedsGrow
    <3>1. cap' \in Nat
      BY <1>3, <2>1 DEF Insert
    <3>2. /\ keys' = [p \in Slots(cap') |-> Empty]
          /\ vals' = [p \in Slots(cap') |-> NoVal]
          /\ used' = 0 /\ oldCap' = cap /\ oldKeys' = keys /\ oldVals' = vals /\ j' = 0
          /\ pc' = "grow" /\ arg' = <<k, v>> /\ answer' = answer
      BY <1>3, <2>1 DEF Insert
    <3> QED BY <3>1, <3>2
  <2>2. CASE ~NeedsGrow
    BY <1>3, <2>2 DEF Insert, table, old
  <2> QED BY <2>1, <2>2
<1>4. CASE Rehash
  <2>1. CASE oldKeys[j] \in Marks
    BY <1>4, <2>1 DEF Rehash, table
  <2>2. CASE oldKeys[j] \notin Marks
    <3>1. oldKeys[j] \in Keys /\ oldVals[j] \in Vals \cup {NoVal}
      BY <1>4, <2>2 DEF Rehash
    <3>2. keys' \in [Slots(cap) -> Keys \cup Marks] /\ vals' \in [Slots(cap) -> Vals \cup {NoVal}]
      BY <1>4, <2>2, <3>1 DEF Rehash
    <3> QED BY <1>4, <2>2, <3>2 DEF Rehash
  <2> QED BY <2>1, <2>2
<1>5. CASE Rehashed
  BY <1>5 DEF Rehashed, table
<1>6. CASE Place
  <2>1. arg[1] \in Keys /\ arg[2] \in Vals
    BY <1>6 DEF Place
  <2>2. keys' \in [Slots(cap) -> Keys \cup Marks] /\ vals' \in [Slots(cap) -> Vals \cup {NoVal}]
    BY <1>6, <2>1 DEF Place
  <2>3. used' \in Nat
    BY <1>6 DEF Place
  <2> QED BY <1>6, <2>2, <2>3 DEF Place, old
<1>7. CASE UNCHANGED vars
  BY <1>7 DEF vars
<1> QED BY <1>1, <1>2, <1>3, <1>4, <1>5, <1>6, <1>7 DEF Next

(* The variables keep their types: every slot of the table, and of the     *)
(* table that grow() has moved away, holds a key or a mark (peglib.h       *)
(* stores kEmpty and kTombstone in the key array itself), and used_ never  *)
(* falls below zero.                                                       *)
THEOREM TypeCorrect == Spec => []TypeOK
<1>1. Init => TypeOK
  BY DEF Init, TypeOK, NoArg, NoAnswer
<1>2. TypeOK /\ [Next]_vars => TypeOK'
  BY TypeStep
<1> QED BY <1>1, <1>2, PTL DEF Spec

----------------------------------------------------------------------------
(* Probe paths.                                                            *)
LEMMA HomeInSlots ==
  ASSUME NEW k \in Keys, NEW n \in Nat, n # 0
  PROVE  Home(k, n) \in Slots(n)
BY CacheAssumption DEF Home

(* Two slots are never at the same distance from a hash.                   *)
LEMMA DistOrders ==
  ASSUME NEW n \in Nat, NEW h \in Slots(n), NEW p \in Slots(n), NEW q \in Slots(n), p # q
  PROVE  Dist(h, p, n) < Dist(h, q, n) \/ Dist(h, q, n) < Dist(h, p, n)
BY DEF Dist

(* A key whose probe path meets an empty slot is not in the table.         *)
LEMMA AbsentAtEmpty ==
  ASSUME TypeOK, Reachable, NEW k \in Keys, NEW e \in Slots(cap),
         StopsAt(k, e), keys[e] = Empty, NEW r \in Slots(cap)
  PROVE  keys[r] # k
<1>1. SUFFICES ASSUME keys[r] = k PROVE FALSE
  OBVIOUS
<1>2. e # r
  BY <1>1, CacheAssumption
<1>3. cap \in Nat /\ cap # 0 /\ Home(k, cap) \in Slots(cap)
  BY HomeInSlots DEF TypeOK
<1>4. ~(Dist(Home(k, cap), r, cap) < Dist(Home(k, cap), e, cap))
  BY <1>1 DEF StopsAt, FirstOn
<1>5. ~(Dist(Home(k, cap), e, cap) < Dist(Home(k, cap), r, cap))
  BY <1>1 DEF Reachable
<1> QED BY <1>2, <1>3, <1>4, <1>5, DistOrders

(* An insertion overwrites the key's own slot, or takes a free one that    *)
(* the key's probe path reaches through entries only, in which case the    *)
(* key is nowhere in the table.                                            *)
LEMMA PlacesWell ==
  ASSUME TypeOK, Reachable, NEW k \in Keys, NEW p \in Slots(cap), PlacesAt(k, p)
  PROVE  \/ keys[p] = k
         \/ /\ keys[p] \in Marks
            /\ \A r \in Slots(cap) : keys[r] # k
            /\ \A q \in Slots(cap) :
                 Dist(Home(k, cap), q, cap) < Dist(Home(k, cap), p, cap) => keys[q] \notin Marks
<1>1. PICK e \in Slots(cap) :
        /\ StopsAt(k, e)
        /\ \/ keys[e] = k /\ p = e
           \/ keys[e] = Empty /\ FirstOn(Home(k, cap), p, cap, LAMBDA q : keys[q] \in Marks)
  BY DEF PlacesAt
<1>2. CASE keys[e] = k /\ p = e
  BY <1>2
<1>3. CASE keys[e] = Empty /\ FirstOn(Home(k, cap), p, cap, LAMBDA q : keys[q] \in Marks)
  <2>1. \A r \in Slots(cap) : keys[r] # k
    BY <1>1, <1>3, AbsentAtEmpty
  <2> QED BY <1>3, <2>1 DEF FirstOn
<1> QED BY <1>1, <1>2, <1>3

----------------------------------------------------------------------------
(* No step leaves an entry behind an empty slot of its key's path.         *)
LEMMA ReachableStep ==
  ASSUME IInv, [Next]_vars PROVE Reachable'
<1> USE CacheAssumption DEF IInv
<1>1. ASSUME NEW k \in Keys, Find(k) PROVE Reachable'
  BY <1>1 DEF Find, table, Reachable, Home
<1>2. ASSUME NEW k \in Keys, Erase(k) PROVE Reachable'
  <2>1. cap' = cap /\ \A p \in Slots(cap) : keys'[p] = keys[p] \/ keys'[p] = Tombstone
    BY <1>2 DEF Erase, table, TypeOK
  <2> QED BY <2>1 DEF Reachable, Home
<1>3. ASSUME NEW k \in Keys, NEW v \in Vals, Insert(k, v) PROVE Reachable'
  <2>1. CASE NeedsGrow
    <3>1. \A p \in Slots(cap') : keys'[p] = Empty
      BY <1>3, <2>1 DEF Insert
    <3> QED BY <3>1 DEF Reachable
  <2>2. CASE ~NeedsGrow
    BY <1>3, <2>2 DEF Insert, table, Reachable, Home
  <2> QED BY <2>1, <2>2
<1>4. CASE Rehash
  <2>1. CASE oldKeys[j] \in Marks
    BY <1>4, <2>1 DEF Rehash, table, Reachable, Home
  <2>2. CASE oldKeys[j] \notin Marks
    <3>1. PICK p \in Slots(cap) :
            RehashesTo(oldKeys[j], p) /\ keys' = [keys EXCEPT ![p] = oldKeys[j]]
      BY <1>4, <2>2 DEF Rehash
    <3>2. /\ cap' = cap /\ keys'[p] = oldKeys[j] /\ oldKeys[j] # Empty
          /\ \A q \in Slots(cap) : q # p => keys'[q] = keys[q]
      BY <1>4, <2>2, <3>1 DEF Rehash, TypeOK
    <3>3. \A q \in Slots(cap) :
            Dist(Home(oldKeys[j], cap), q, cap) < Dist(Home(oldKeys[j], cap), p, cap) =>
              keys[q] # Empty
      BY <3>1 DEF RehashesTo, FirstOn
    <3> QED BY <3>2, <3>3 DEF Reachable, Home
  <2> QED BY <2>1, <2>2
<1>5. CASE Rehashed
  BY <1>5 DEF Rehashed, table, Reachable, Home
<1>6. CASE Place
  <2>1. PICK p \in Slots(cap) :
          PlacesAt(arg[1], p) /\ keys' = [keys EXCEPT ![p] = arg[1]]
    BY <1>6 DEF Place
  <2>2. arg[1] \in Keys
    BY <1>6 DEF Place, TypeOK
  <2>3. /\ cap' = cap /\ keys'[p] = arg[1]
        /\ \A q \in Slots(cap) : q # p => keys'[q] = keys[q]
    BY <1>6, <2>1 DEF Place, TypeOK
  <2>4. \A q \in Slots(cap) :
          Dist(Home(arg[1], cap), q, cap) < Dist(Home(arg[1], cap), p, cap) => keys[q] # Empty
    BY <2>1, <2>2, PlacesWell DEF Reachable
  <2> QED BY <2>2, <2>3, <2>4 DEF Reachable, Home
<1>7. CASE UNCHANGED vars
  BY <1>7 DEF vars, Reachable, Home
<1> QED BY <1>1, <1>2, <1>3, <1>4, <1>5, <1>6, <1>7 DEF Next

(* No step gives a key a second entry.                                     *)
LEMMA UniqueStep ==
  ASSUME IInv, [Next]_vars PROVE Unique' /\ Moved' /\ OldUnique'
<1> USE CacheAssumption DEF IInv
<1>1. ASSUME NEW k \in Keys, Find(k) PROVE Unique' /\ Moved' /\ OldUnique'
  BY <1>1 DEF Find, table, old, Unique, Moved, OldUnique
<1>2. ASSUME NEW k \in Keys, Erase(k) PROVE Unique' /\ Moved' /\ OldUnique'
  <2>1. cap' = cap /\ \A p \in Slots(cap) : keys'[p] = keys[p] \/ keys'[p] = Tombstone
    BY <1>2 DEF Erase, table, TypeOK
  <2> QED BY <1>2, <2>1 DEF Erase, old, Unique, Moved, OldUnique
<1>3. ASSUME NEW k \in Keys, NEW v \in Vals, Insert(k, v) PROVE Unique' /\ Moved' /\ OldUnique'
  <2>1. CASE NeedsGrow
    <3>1. \A p \in Slots(cap') : keys'[p] = Empty
      BY <1>3, <2>1 DEF Insert
    <3>2. oldCap' = cap /\ oldKeys' = keys
      BY <1>3, <2>1 DEF Insert
    <3> QED BY <3>1, <3>2 DEF Unique, Moved, OldUnique
  <2>2. CASE ~NeedsGrow
    BY <1>3, <2>2 DEF Insert, table, old, Unique, Moved, OldUnique
  <2> QED BY <2>1, <2>2
<1>4. CASE Rehash
  <2>1. /\ pc = "grow" /\ pc' = "grow" /\ cap' = cap /\ j \in Slots(oldCap) /\ j' = j + 1
        /\ oldCap' = oldCap /\ oldKeys' = oldKeys
    BY <1>4 DEF Rehash, table, TypeOK
  <2>2. OldUnique'
    BY <2>1 DEF OldUnique
  <2>3. CASE oldKeys[j] \in Marks
    <3>1. keys' = keys
      BY <1>4, <2>3 DEF Rehash, table
    <3>2. Moved'
      BY <2>1, <3>1 DEF Moved, TypeOK
    <3> QED BY <2>1, <2>2, <3>1, <3>2 DEF Unique
  <2>4. CASE oldKeys[j] \notin Marks
    <3>1. PICK p \in Slots(cap) : keys' = [keys EXCEPT ![p] = oldKeys[j]]
      BY <1>4, <2>4 DEF Rehash
    <3>2. /\ keys'[p] = oldKeys[j] /\ oldKeys[j] \in Keys
          /\ \A q \in Slots(cap) : q # p => keys'[q] = keys[q]
      BY <2>1, <2>4, <3>1 DEF TypeOK
    <3>3. \A q \in Slots(cap) : keys[q] # oldKeys[j]
      <4>1. SUFFICES ASSUME NEW q \in Slots(cap), keys[q] = oldKeys[j] PROVE FALSE
        OBVIOUS
      <4>2. PICK i \in Slots(j) : oldKeys[i] = oldKeys[j]
        BY <2>1, <3>2, <4>1 DEF Moved
      <4>3. i \in Slots(oldCap) /\ i # j
        BY <2>1 DEF TypeOK
      <4> QED BY <2>1, <3>2, <4>2, <4>3 DEF OldUnique
    <3>4. Unique'
      BY <2>1, <3>2, <3>3 DEF Unique
    <3>5. Moved'
      <4>1. SUFFICES ASSUME NEW q \in Slots(cap), keys'[q] \in Keys
                     PROVE  \E i \in Slots(j + 1) : oldKeys[i] = keys'[q]
        BY <2>1 DEF Moved
      <4>2. CASE q = p
        BY <2>1, <3>2, <4>2 DEF TypeOK
      <4>3. CASE q # p
        BY <2>1, <3>2, <4>1, <4>3 DEF Moved, TypeOK
      <4> QED BY <4>2, <4>3
    <3> QED BY <2>2, <3>4, <3>5
  <2> QED BY <2>3, <2>4
<1>5. CASE Rehashed
  BY <1>5 DEF Rehashed, table, Unique, Moved, OldUnique
<1>6. CASE Place
  <2>1. PICK p \in Slots(cap) :
          PlacesAt(arg[1], p) /\ keys' = [keys EXCEPT ![p] = arg[1]]
    BY <1>6 DEF Place
  <2>2. arg[1] \in Keys
    BY <1>6 DEF Place, TypeOK
  <2>3. /\ cap' = cap /\ keys'[p] = arg[1]
        /\ \A q \in Slots(cap) : q # p => keys'[q] = keys[q]
    BY <1>6, <2>1 DEF Place, TypeOK
  <2>4. \A q \in Slots(cap) : keys[q] = arg[1] => q = p
    BY <2>1, <2>2, PlacesWell DEF Unique
  <2> QED BY <1>6, <2>3, <2>4 DEF Place, old, Unique, Moved, OldUnique
<1>7. CASE UNCHANGED vars
  BY <1>7 DEF vars, Unique, Moved, OldUnique
<1> QED BY <1>1, <1>2, <1>3, <1>4, <1>5, <1>6, <1>7 DEF Next

----------------------------------------------------------------------------
(* Counting.                                                               *)
LEMMA TakenFinite ==
  ASSUME TypeOK PROVE IsFiniteSet(Taken)
<1>1. IsFiniteSet(Slots(cap))
  BY FS_Interval DEF TypeOK
<1> QED BY <1>1, FS_Subset DEF Taken

(* Filling one empty slot adds one to the slots taken.                     *)
LEMMA OneMoreTaken ==
  ASSUME TypeOK, NEW p \in Slots(cap), keys[p] = Empty, NEW k, k # Empty,
         cap' = cap, keys' = [keys EXCEPT ![p] = k]
  PROVE  Cardinality(Taken') = Cardinality(Taken) + 1
<1>1. Taken' = Taken \cup {p} /\ p \notin Taken
  BY DEF Taken, TypeOK
<1> QED BY <1>1, TakenFinite, FS_AddElement

(* No step makes used_ differ from the slots taken, or the table too full. *)
LEMMA LoadBoundedStep ==
  ASSUME IInv, [Next]_vars PROVE LoadBounded' /\ Sizes'
<1> USE CacheAssumption DEF IInv
<1>1. ASSUME NEW k \in Keys, Find(k) PROVE LoadBounded' /\ Sizes'
  BY <1>1 DEF Find, table, old, LoadBounded, Sizes, Taken
<1>2. ASSUME NEW k \in Keys, Erase(k) PROVE LoadBounded' /\ Sizes'
  <2>1. /\ cap' = cap /\ used' = used
        /\ \A p \in Slots(cap) : keys'[p] = Empty <=> keys[p] = Empty
    BY <1>2 DEF Erase, table, TypeOK
  <2>2. Taken' = Taken
    BY <2>1 DEF Taken
  <2> QED BY <1>2, <2>1, <2>2 DEF Erase, old, LoadBounded, Sizes
<1>3. ASSUME NEW k \in Keys, NEW v \in Vals, Insert(k, v) PROVE LoadBounded' /\ Sizes'
  <2>1. CASE NeedsGrow
    <3>1. /\ pc' = "grow" /\ used' = 0 /\ oldCap' = cap /\ j' = 0
          /\ cap' = IF cap = 0 THEN InitialCapacity ELSE 2 * cap
          /\ \A p \in Slots(cap') : keys'[p] = Empty
      BY <1>3, <2>1 DEF Insert
    <3>2. Taken' = {}
      BY <3>1 DEF Taken
    <3>3. Sizes'
      BY <3>1 DEF Sizes, TypeOK
    <3> QED BY <3>1, <3>2, <3>3, FS_EmptySet DEF LoadBounded
  <2>2. CASE ~NeedsGrow
    <3>1. /\ pc' = "place" /\ cap' = cap /\ keys' = keys /\ used' = used
          /\ oldCap' = oldCap
      BY <1>3, <2>2 DEF Insert, table, old
    <3>2. (used + 1) * 4 <= cap * 3
      BY <2>2 DEF NeedsGrow, TypeOK
    <3>3. used = Cardinality(Taken) /\ Taken' = Taken
      BY <3>1 DEF LoadBounded, Taken
    <3> QED BY <3>1, <3>2, <3>3 DEF LoadBounded, Sizes, TypeOK
  <2> QED BY <2>1, <2>2
<1>4. CASE Rehash
  <2>1. /\ pc = "grow" /\ pc' = "grow" /\ cap' = cap /\ oldCap' = oldCap
        /\ j \in Slots(oldCap) /\ j' = j + 1
    BY <1>4 DEF Rehash, table, TypeOK
  <2>2. CASE oldKeys[j] \in Marks
    <3>1. keys' = keys /\ used' = used
      BY <1>4, <2>2 DEF Rehash, table
    <3> QED BY <2>1, <3>1 DEF LoadBounded, Sizes, Taken, TypeOK
  <2>3. CASE oldKeys[j] \notin Marks
    <3>1. PICK p \in Slots(cap) :
            RehashesTo(oldKeys[j], p) /\ keys' = [keys EXCEPT ![p] = oldKeys[j]]
      BY <1>4, <2>3 DEF Rehash
    <3>2. keys[p] = Empty /\ used' = used + 1
      BY <1>4, <2>3, <3>1 DEF Rehash, RehashesTo, FirstOn
    <3>3. Cardinality(Taken') = Cardinality(Taken) + 1
      BY <2>1, <2>3, <3>1, <3>2, OneMoreTaken
    <3> QED BY <2>1, <3>2, <3>3 DEF LoadBounded, Sizes, TypeOK
  <2> QED BY <2>2, <2>3
<1>5. CASE Rehashed
  <2>1. /\ pc = "grow" /\ j = oldCap /\ pc' = "place" /\ cap' = cap /\ keys' = keys
        /\ used' = used /\ oldCap' = 0
    BY <1>5 DEF Rehashed, table
  <2>2. used <= oldCap /\ cap = IF oldCap = 0 THEN InitialCapacity ELSE 2 * oldCap
    BY <2>1 DEF Sizes
  <2>3. (used + 1) * 4 <= cap * 3
    BY <2>1, <2>2 DEF Sizes, TypeOK
  <2> QED BY <2>1, <2>3 DEF LoadBounded, Sizes, Taken, TypeOK
<1>6. CASE Place
  <2>1. PICK p \in Slots(cap) :
          /\ PlacesAt(arg[1], p)
          /\ used' = IF keys[p] = Empty THEN used + 1 ELSE used
          /\ keys' = [keys EXCEPT ![p] = arg[1]]
    BY <1>6 DEF Place
  <2>2. /\ arg[1] \in Keys /\ cap' = cap /\ oldCap' = oldCap /\ pc' = "idle"
        /\ (used + 1) * 4 <= cap * 3
    BY <1>6 DEF Place, old, TypeOK, LoadBounded
  <2>3. CASE keys[p] = Empty
    <3>1. Cardinality(Taken') = Cardinality(Taken) + 1
      BY <2>1, <2>2, <2>3, OneMoreTaken
    <3> QED BY <2>1, <2>2, <2>3, <3>1 DEF LoadBounded, Sizes, TypeOK
  <2>4. CASE keys[p] # Empty
    <3>1. Taken' = Taken
      BY <2>1, <2>2, <2>4 DEF Taken, TypeOK
    <3> QED BY <2>1, <2>2, <2>4, <3>1 DEF LoadBounded, Sizes, TypeOK
  <2> QED BY <2>3, <2>4
<1>7. CASE UNCHANGED vars
  BY <1>7 DEF vars, LoadBounded, Sizes, Taken
<1> QED BY <1>1, <1>2, <1>3, <1>4, <1>5, <1>6, <1>7 DEF Next

----------------------------------------------------------------------------
(* The inductive invariant.                                                *)
LEMMA InitIInv == Init => IInv
<1>1. SUFFICES ASSUME Init PROVE IInv
  OBVIOUS
<1>2. TypeOK
  BY <1>1 DEF Init, TypeOK, NoArg, NoAnswer
<1>3. Taken = {} /\ Cardinality(Taken) = 0
  BY <1>1, FS_EmptySet DEF Init, Taken
<1> QED BY <1>1, <1>2, <1>3
        DEF Init, IInv, LoadBounded, Reachable, Unique, Moved, OldUnique, Sizes

(* The invariant of the table is inductive.                                *)
LEMMA Invariant == Spec => []IInv
<1>1. IInv /\ [Next]_vars => IInv'
  BY TypeStep, ReachableStep, UniqueStep, LoadBoundedStep DEF IInv
<1> QED BY <1>1, InitIInv, PTL DEF Spec

(* No erasure and no rehash hides an entry behind an empty slot of its     *)
(* probe path, so that a lookup finds every key that is in the table.      *)
THEOREM ReachableAlways == Spec => []Reachable
<1>1. IInv => Reachable
  BY DEF IInv
<1> QED BY <1>1, Invariant, PTL

(* insert_or_assign, which may reuse a tombstone, never leaves two entries *)
(* of one key, of which erase would drop one only.                         *)
THEOREM UniqueAlways == Spec => []Unique
<1>1. IInv => Unique
  BY DEF IInv
<1> QED BY <1>1, Invariant, PTL

----------------------------------------------------------------------------
(* Why the loops of find, erase, insert_or_assign and grow() end.          *)
LEMMA EmptySlot ==
  ASSUME IInv, cap # 0 PROVE \E p \in Slots(cap) : keys[p] = Empty
<1>1. /\ cap \in Nat /\ used \in Nat /\ used = Cardinality(Taken)
  BY DEF IInv, TypeOK, LoadBounded
<1>2. used < cap
  <2>1. CASE pc = "grow"
    BY <1>1, <2>1, CacheAssumption DEF IInv, TypeOK, Sizes
  <2>2. CASE pc # "grow"
    BY <1>1, <2>2 DEF IInv, LoadBounded
  <2> QED BY <2>1, <2>2
<1>3. Cardinality(Slots(cap)) = cap
  <2>1. 0 \in Int /\ cap - 1 \in Int /\ ~(0 > cap - 1)
    BY <1>1
  <2>2. Cardinality(Slots(cap)) = (cap - 1) - 0 + 1
    BY <2>1, FS_Interval
  <2> QED BY <1>1, <2>2
<1>4. Taken # Slots(cap)
  BY <1>1, <1>2, <1>3
<1> QED BY <1>4 DEF Taken

\* Of the slots that satisfy Stop, one comes first on the probe path.
LEMMA FirstExists ==
  ASSUME NEW n \in Nat, NEW h \in Slots(n), NEW T, T \subseteq Slots(n), T # {}
  PROVE  \E p \in T : \A q \in T : ~(Dist(h, q, n) < Dist(h, p, n))
<1> DEFINE D == {Dist(h, p, n) : p \in T}
<1>1. \A p \in T : Dist(h, p, n) \in Nat
  BY DEF Dist
<1>2. D \subseteq Nat /\ D # {}
  BY <1>1
<1>3. PICK d \in D : \A e \in D : ~(<<e, d>> \in OpToRel(<, Nat))
  <2> HIDE DEF D
  <2> QED BY <1>2, NatLessThanWellFounded, WFMin
<1>4. \A e \in D : ~(e < d)
  BY <1>2, <1>3 DEF OpToRel
<1> QED BY <1>4

\* The first slot on the probe path of k that satisfies Stop, if one does.
LEMMA ProbeStops ==
  ASSUME TypeOK, cap # 0, NEW k \in Keys, NEW e \in Slots(cap), keys[e] = Empty
  PROVE  \E p, q \in Slots(cap) : StopsAt(k, p) /\ RehashesTo(k, q)
<1>1. cap \in Nat /\ Home(k, cap) \in Slots(cap)
  BY HomeInSlots DEF TypeOK
<1>2. \E p \in Slots(cap) : StopsAt(k, p)
  <2> DEFINE T == {q \in Slots(cap) : keys[q] = k \/ keys[q] = Empty}
  <2>1. PICK p \in T : \A q \in T : ~(Dist(Home(k, cap), q, cap) < Dist(Home(k, cap), p, cap))
    <3>1. T \subseteq Slots(cap) /\ T # {}
      OBVIOUS
    <3> HIDE DEF T
    <3> QED BY <1>1, <3>1, FirstExists
  <2> QED BY <2>1 DEF StopsAt, FirstOn
<1>3. \E q \in Slots(cap) : RehashesTo(k, q)
  <2> DEFINE T == {q \in Slots(cap) : keys[q] = Empty}
  <2>1. PICK p \in T : \A q \in T : ~(Dist(Home(k, cap), q, cap) < Dist(Home(k, cap), p, cap))
    <3>1. T \subseteq Slots(cap) /\ T # {}
      OBVIOUS
    <3> HIDE DEF T
    <3> QED BY <1>1, <3>1, FirstExists
  <2> QED BY <2>1 DEF RehashesTo, FirstOn
<1> QED BY <1>2, <1>3

(* Whenever the table is probed, the probe meets a slot to stop at: the    *)
(* unbounded loops of find, erase, insert_or_assign and grow() end,        *)
(* however many tombstones erase has left.                                 *)
THEOREM ProbesEndAlways == Spec => []ProbesEnd
<1>1. IInv => ProbesEnd
  <2>1. SUFFICES ASSUME IInv, cap # 0, NEW k \in Keys
                 PROVE  \E p, q \in Slots(cap) : StopsAt(k, p) /\ RehashesTo(k, q)
    BY DEF ProbesEnd
  <2> QED BY <2>1, EmptySlot, ProbeStops DEF IInv
<1> QED BY <1>1, Invariant, PTL

----------------------------------------------------------------------------
(* The table is a map.                                                     *)
(* An entry of the table, or one that grow() has still to move, determines *)
(* what the map holds.                                                     *)
LEMMA ContentsAt ==
  ASSUME Unique, NEW p \in Slots(cap), keys[p] \in Keys
  PROVE  Contents[keys[p]] = vals[p]
<1> DEFINE k == keys[p]
<1>1. \A q \in Slots(cap) : keys[q] = k => q = p
  BY DEF Unique
<1>2. (CHOOSE q \in Slots(cap) : keys[q] = k) = p
  BY <1>1
<1>3. Contents[k] = IF \E q \in Slots(cap) : keys[q] = k
                    THEN vals[CHOOSE q \in Slots(cap) : keys[q] = k]
                    ELSE Entry(ToMove, oldKeys, oldVals, k, NoVal)
  BY DEF Contents, Entry
<1> QED BY <1>2, <1>3

(* A key that the new table lacks is read from the slots still to be       *)
(* moved.                                                                  *)
LEMMA ContentsAbsent ==
  ASSUME NEW k \in Keys, \A p \in Slots(cap) : keys[p] # k
  PROVE  Contents[k] = IF \E q \in ToMove : oldKeys[q] = k
                       THEN oldVals[CHOOSE q \in ToMove : oldKeys[q] = k]
                       ELSE NoVal
BY DEF Contents, Entry

(* Such a slot's value is the key's.                                       *)
LEMMA ContentsToMove ==
  ASSUME OldUnique, NEW k \in Keys, \A p \in Slots(cap) : keys[p] # k,
         NEW p \in ToMove, oldKeys[p] = k
  PROVE  Contents[k] = oldVals[p]
<1>1. \A q \in ToMove : oldKeys[q] = k => q = p
  BY DEF OldUnique, ToMove
<1>2. (CHOOSE q \in ToMove : oldKeys[q] = k) = p
  BY <1>1
<1> QED BY <1>2, ContentsAbsent

(* The slot a lookup stops at tells what the map holds.                    *)
LEMMA StopsAtContents ==
  ASSUME IInv, pc = "idle", NEW k \in Keys, NEW p \in Slots(cap), StopsAt(k, p)
  PROVE  Contents[k] = IF keys[p] = k THEN vals[p] ELSE NoVal
<1>1. CASE keys[p] = k
  BY <1>1, ContentsAt DEF IInv
<1>2. CASE keys[p] # k
  <2>1. keys[p] = Empty
    BY <1>2 DEF StopsAt, FirstOn
  <2>2. \A q \in Slots(cap) : keys[q] # k
    BY <2>1, AbsentAtEmpty DEF IInv
  <2>3. ToMove = {}
    BY DEF ToMove
  <2> QED BY <1>2, <2>2, <2>3, ContentsAbsent
<1> QED BY <1>1, <1>2

\* What a state of the table says about the map it stands for.
ContentsSays ==
  \A k \in Keys :
    /\ \A p \in Slots(cap) : keys[p] = k => Contents[k] = vals[p]
    /\ (\A p \in Slots(cap) : keys[p] # k) =>
         /\ \A p \in ToMove : oldKeys[p] = k => Contents[k] = oldVals[p]
         /\ (\A p \in ToMove : oldKeys[p] # k) => Contents[k] = NoVal

(* What the table holds for a key is what a probe for it reads.            *)
LEMMA ContentsRead == IInv => ContentsSays
<1>1. SUFFICES ASSUME IInv PROVE ContentsSays
  OBVIOUS
<1>2. Unique /\ OldUnique
  BY <1>1 DEF IInv
<1> QED BY <1>2, ContentsAt, ContentsToMove, ContentsAbsent DEF ContentsSays

(* Every step of the table is a step of the map, or changes nothing in it. *)
LEMMA StoreStep ==
  ASSUME IInv, ContentsSays, ContentsSays', [Next]_vars
  PROVE  [Store!Next]_(Store!vars)
<1> USE CacheAssumption
<1>1. ASSUME Contents' # Contents PROVE \E k \in Keys : Contents'[k] # Contents[k]
  BY <1>1 DEF Contents
<1>2. ASSUME NEW k \in Keys, Find(k) PROVE Store!Get(k)
  <2>1. pc = "idle" /\ arg = NoArg /\ arg' = arg /\ UNCHANGED <<table, old, pc>>
    BY <1>2 DEF Find, IInv, TypeOK
  <2>2. Contents' = Contents
    BY <2>1 DEF Contents, ToMove, table, old
  <2>3. CASE cap = 0
    <3>1. Contents[k] = NoVal
      BY <2>1, <2>3 DEF ContentsSays, ToMove
    <3> QED BY <1>2, <2>1, <2>2, <2>3, <3>1 DEF Find, Store!Get
  <2>4. CASE cap # 0
    BY <1>2, <2>1, <2>2, <2>4, StopsAtContents DEF Find, Store!Get
  <2> QED BY <2>3, <2>4
<1>3. ASSUME NEW k \in Keys, Erase(k) PROVE Store!Drop(k)
  <2>1. /\ pc = "idle" /\ pc' = pc /\ arg = NoArg /\ arg' = arg /\ cap' = cap
        /\ answer' = <<k, NoVal>>
    BY <1>3 DEF Erase, IInv, TypeOK, table
  <2>2. ToMove = {} /\ ToMove' = {}
    BY <2>1 DEF ToMove
  <2>3. /\ \A p \in Slots(cap) : keys'[p] # k
        /\ \A q \in Keys \ {k} : \A p \in Slots(cap) :
             (keys'[p] = q <=> keys[p] = q) /\ (keys[p] = q => vals'[p] = vals[p])
    <3>1. CASE cap = 0
      BY <3>1
    <3>2. CASE cap # 0
      <4>1. PICK p \in Slots(cap) :
              /\ StopsAt(k, p)
              /\ IF keys[p] = k
                 THEN /\ keys' = [keys EXCEPT ![p] = Tombstone]
                      /\ vals' = [vals EXCEPT ![p] = NoVal]
                 ELSE UNCHANGED <<keys, vals>>
        BY <1>3, <3>2 DEF Erase
      <4>2. CASE keys[p] = k
        <5>1. /\ keys'[p] = Tombstone
              /\ \A q \in Slots(cap) : q # p => keys'[q] = keys[q] /\ vals'[q] = vals[q]
          BY <4>1, <4>2 DEF IInv, TypeOK
        <5>2. \A q \in Slots(cap) : q # p => keys[q] # k
          BY <4>2 DEF IInv, Unique
        <5> QED BY <4>2, <5>1, <5>2
      <4>3. CASE keys[p] # k
        <5>1. keys[p] = Empty
          BY <4>1, <4>3 DEF StopsAt, FirstOn
        <5>2. \A q \in Slots(cap) : keys[q] # k
          BY <4>1, <5>1, AbsentAtEmpty DEF IInv
        <5> QED BY <4>1, <4>3, <5>2
      <4> QED BY <4>2, <4>3
    <3> QED BY <3>1, <3>2
  <2>4. Contents'[k] = NoVal
    BY <2>1, <2>2, <2>3 DEF ContentsSays
  <2>5. ASSUME NEW q \in Keys \ {k} PROVE Contents'[q] = Contents[q]
    <3>1. CASE \E p \in Slots(cap) : keys[p] = q
      BY <2>1, <2>3, <2>5, <3>1 DEF ContentsSays
    <3>2. CASE \A p \in Slots(cap) : keys[p] # q
      BY <2>1, <2>2, <2>3, <2>5, <3>2 DEF ContentsSays
    <3> QED BY <3>1, <3>2
  <2>6. Contents' = [Contents EXCEPT ![k] = NoVal]
    BY <2>4, <2>5 DEF Contents
  <2> QED BY <2>1, <2>6 DEF Store!Drop
<1>4. ASSUME NEW k \in Keys, NEW v \in Vals, Insert(k, v) PROVE Store!Begin(k, v)
  <2>1. /\ pc = "idle" /\ arg = NoArg /\ arg' = <<k, v>> /\ answer' = answer
    BY <1>4 DEF Insert, IInv, TypeOK
  <2>2. ToMove = {}
    BY <2>1 DEF ToMove
  <2>3. CASE NeedsGrow
    <3>1. /\ pc' = "grow" /\ j' = 0 /\ oldCap' = cap /\ oldKeys' = keys /\ oldVals' = vals
          /\ \A p \in Slots(cap') : keys'[p] = Empty
      BY <1>4, <2>3 DEF Insert
    <3>2. ToMove' = Slots(cap)
      BY <3>1 DEF ToMove
    <3>3. ASSUME NEW q \in Keys PROVE Contents'[q] = Contents[q]
      <4>1. CASE \E p \in Slots(cap) : keys[p] = q
        BY <3>1, <3>2, <4>1 DEF ContentsSays
      <4>2. CASE \A p \in Slots(cap) : keys[p] # q
        BY <2>2, <3>1, <3>2, <4>2 DEF ContentsSays
      <4> QED BY <4>1, <4>2
    <3> QED BY <1>1, <2>1, <3>3 DEF Store!Begin
  <2>4. CASE ~NeedsGrow
    <3>1. pc' # "grow" /\ UNCHANGED <<cap, keys, vals, oldCap, oldKeys, oldVals, j>>
      BY <1>4, <2>4 DEF Insert, table, old
    <3>2. Contents' = Contents
      BY <2>1, <3>1 DEF Contents, ToMove
    <3> QED BY <2>1, <3>2 DEF Store!Begin
  <2> QED BY <2>3, <2>4
<1>5. ASSUME Rehash PROVE UNCHANGED Store!vars
  <2>1. /\ pc = "grow" /\ pc' = "grow" /\ cap' = cap /\ j \in Slots(oldCap) /\ j' = j + 1
        /\ oldCap' = oldCap /\ oldKeys' = oldKeys /\ oldVals' = oldVals
        /\ arg' = arg /\ answer' = answer
    BY <1>5 DEF Rehash, table, IInv, TypeOK
  <2>2. ToMove' = ToMove \ {j} /\ j \in ToMove
    BY <2>1 DEF ToMove
  <2>3. ASSUME NEW k \in Keys PROVE Contents'[k] = Contents[k]
    <3>1. CASE oldKeys[j] \in Marks
      <4>1. keys' = keys /\ vals' = vals /\ oldKeys[j] # k
        BY <1>5, <3>1 DEF Rehash, table
      <4>2. CASE \E q \in Slots(cap) : keys[q] = k
        BY <2>1, <4>1, <4>2 DEF ContentsSays
      <4>3. CASE \A q \in Slots(cap) : keys[q] # k
        <5>1. \A q \in ToMove : oldKeys[q] = k => q \in ToMove'
          BY <2>2, <4>1
        <5> QED BY <2>1, <2>2, <4>1, <4>3, <5>1 DEF ContentsSays
      <4> QED BY <4>2, <4>3
    <3>2. CASE oldKeys[j] \notin Marks
      <4>1. PICK p \in Slots(cap) :
              /\ RehashesTo(oldKeys[j], p)
              /\ keys' = [keys EXCEPT ![p] = oldKeys[j]]
              /\ vals' = [vals EXCEPT ![p] = oldVals[j]]
        BY <1>5, <3>2 DEF Rehash
      <4>2. keys[p] = Empty
        BY <4>1 DEF RehashesTo, FirstOn
      <4>3. /\ keys'[p] = oldKeys[j] /\ vals'[p] = oldVals[j]
            /\ \A q \in Slots(cap) : q # p => keys'[q] = keys[q] /\ vals'[q] = vals[q]
        BY <4>1 DEF IInv, TypeOK
      <4>4. CASE k = oldKeys[j]
        <5>1. Contents'[k] = oldVals[j]
          BY <2>1, <4>3, <4>4 DEF ContentsSays
        <5>2. \A q \in Slots(cap) : keys[q] # k
          <6>1. \A i \in Slots(j) : i \in Slots(oldCap) /\ i # j
            BY <2>1 DEF IInv, TypeOK
          <6> QED BY <2>1, <4>4, <6>1 DEF IInv, Moved, OldUnique
        <5> QED BY <2>2, <4>4, <5>1, <5>2 DEF ContentsSays
      <4>5. CASE k # oldKeys[j]
        <5>1. CASE \E q \in Slots(cap) : keys[q] = k
          BY <2>1, <4>2, <4>3, <5>1 DEF ContentsSays
        <5>2. CASE \A q \in Slots(cap) : keys[q] # k
          <6>1. \A q \in Slots(cap) : keys'[q] # k
            BY <4>3, <4>5, <5>2
          <6>2. \A q \in ToMove : oldKeys[q] = k => q \in ToMove'
            BY <2>2, <4>5
          <6> QED BY <2>1, <2>2, <5>2, <6>1, <6>2 DEF ContentsSays
        <5> QED BY <5>1, <5>2
      <4> QED BY <4>4, <4>5
    <3> QED BY <3>1, <3>2
  <2> QED BY <1>1, <2>1, <2>3 DEF Store!vars
<1>6. ASSUME Rehashed PROVE UNCHANGED Store!vars
  <2>1. /\ cap' = cap /\ keys' = keys /\ vals' = vals /\ arg' = arg /\ answer' = answer
        /\ j = oldCap /\ pc' = "place"
    BY <1>6 DEF Rehashed, table
  <2>2. ToMove = {} /\ ToMove' = {}
    BY <2>1 DEF ToMove, IInv, TypeOK
  <2>3. ASSUME NEW k \in Keys PROVE Contents'[k] = Contents[k]
    BY <2>1, <2>2 DEF ContentsSays
  <2> QED BY <1>1, <2>1, <2>3 DEF Store!vars
<1>7. ASSUME Place PROVE Store!Put
  <2>1. PICK p \in Slots(cap) :
          /\ PlacesAt(arg[1], p)
          /\ keys' = [keys EXCEPT ![p] = arg[1]]
          /\ vals' = [vals EXCEPT ![p] = arg[2]]
    BY <1>7 DEF Place
  <2>2. /\ arg \in Keys \X Vals /\ arg' = NoArg /\ cap' = cap /\ answer' = answer
        /\ pc = "place" /\ pc' = "idle"
    BY <1>7 DEF Place, IInv, TypeOK
  <2>3. ToMove = {} /\ ToMove' = {}
    BY <2>2 DEF ToMove
  <2>4. /\ keys'[p] = arg[1] /\ vals'[p] = arg[2]
        /\ \A q \in Slots(cap) : q # p => keys'[q] = keys[q] /\ vals'[q] = vals[q]
    BY <2>1 DEF IInv, TypeOK
  <2>5. Contents'[arg[1]] = arg[2]
    BY <2>2, <2>4 DEF ContentsSays
  <2>6. keys[p] = arg[1] \/ keys[p] \in Marks
    BY <2>1, <2>2, PlacesWell DEF IInv
  <2>7. ASSUME NEW k \in Keys, k # arg[1] PROVE Contents'[k] = Contents[k]
    <3>1. CASE \E q \in Slots(cap) : keys[q] = k
      BY <2>2, <2>4, <2>6, <2>7, <3>1 DEF ContentsSays
    <3>2. CASE \A q \in Slots(cap) : keys[q] # k
      <4>1. \A q \in Slots(cap) : keys'[q] # k
        BY <2>4, <2>7, <3>2
      <4> QED BY <2>2, <2>3, <3>2, <4>1 DEF ContentsSays
    <3> QED BY <3>1, <3>2
  <2>8. Contents' = [Contents EXCEPT ![arg[1]] = arg[2]]
    BY <2>5, <2>7 DEF Contents
  <2>9. arg # NoArg
    <3>1. PICK k \in Keys, v \in Vals : arg = <<k, v>>
      BY <2>2
    <3>2. <<k, v>> # <<>>
      OBVIOUS
    <3> QED BY <3>1, <3>2 DEF NoArg
  <2> QED BY <2>2, <2>8, <2>9 DEF Store!Put
<1>8. CASE UNCHANGED vars
  <2>1. Contents' = Contents /\ arg' = arg /\ answer' = answer
    BY <1>8 DEF vars, Contents, ToMove
  <2> QED BY <2>1 DEF Store!vars
<1> QED BY <1>2, <1>3, <1>4, <1>5, <1>6, <1>7, <1>8 DEF Next, Store!Next

(* Every find returns the value inserted last for its key and not erased   *)
(* since; an insertion changes one key, in one step; a rehash changes none *)
(* at any of its steps.                                                    *)
THEOREM Refinement == Spec => ImplementsStore
<1>1. Init => Store!Init
  <2>1. SUFFICES ASSUME Init PROVE Store!Init
    OBVIOUS
  <2>2. IInv /\ ContentsSays
    BY <2>1, InitIInv, ContentsRead
  <2>3. \A k \in Keys : Contents[k] = NoVal
    BY <2>1, <2>2 DEF Init, ContentsSays, ToMove
  <2>4. Contents = [k \in Keys |-> NoVal]
    BY <2>3 DEF Contents
  <2> QED BY <2>1, <2>4 DEF Init, Store!Init
<1>2. IInv /\ ContentsSays /\ ContentsSays' /\ [Next]_vars => [Store!Next]_(Store!vars)
  BY StoreStep
<1> QED BY <1>1, <1>2, Invariant, ContentsRead, PTL DEF Spec, ImplementsStore, Store!Spec
=============================================================================
