------------------------- MODULE PackratCacheProps -------------------------
(* The properties of PackratCache: what its table satisfies between and    *)
(* within operations, and that it is a map.                                *)
EXTENDS PackratCache

(* The variables have their types: every slot of both tables holds a key   *)
(* or a mark, and the counters do not run below zero (they are size_t).    *)
TypeOK ==
  /\ cap \in Nat /\ keys \in [Slots(cap) -> Keys \cup Marks]
  /\ vals \in [Slots(cap) -> Vals \cup {NoVal}]
  /\ used \in Nat
  /\ pc \in {"idle", "grow", "place"}
  /\ IF pc = "idle" THEN arg = NoArg ELSE arg \in Keys \X Vals
  /\ oldCap \in Nat /\ oldKeys \in [Slots(oldCap) -> Keys \cup Marks]
  /\ oldVals \in [Slots(oldCap) -> Vals \cup {NoVal}]
  /\ j \in 0 .. oldCap
  /\ answer = NoAnswer \/ answer \in Keys \X (Vals \cup {NoVal})

\* Slots that are not empty: the live entries and the tombstones.
Taken == {p \in Slots(cap) : keys[p] # Empty}

(* used_ counts tombstones as well as entries, is lowered only by a rehash *)
(* and is kept under three quarters of the capacity.                       *)
LoadBounded ==
  /\ used = Cardinality(Taken)
  /\ cap > 0 /\ pc # "grow" => used * 4 <= cap * 3
  /\ pc = "place" => (used + 1) * 4 <= cap * 3

(* The loops of find, erase, insert_or_assign and grow() have no bound of  *)
(* their own: they end because every probe path meets an empty slot, for   *)
(* the keys that are in the table and for those that are not.              *)
ProbesEnd ==
  cap # 0 => \A k \in Keys : \E p, q \in Slots(cap) : StopsAt(k, p) /\ RehashesTo(k, q)

(* The entry of a key lies before the first empty slot of the key's probe  *)
(* path, so that neither an erased entry before it nor a rehash of the     *)
(* table makes a lookup stop too early.                                    *)
Reachable ==
  \A p \in Slots(cap) : keys[p] \in Keys =>
    \A q \in Slots(cap) :
      Dist(Home(keys[p], cap), q, cap) < Dist(Home(keys[p], cap), p, cap) =>
        keys[q] # Empty

(* No key has two entries: an insertion that reuses a tombstone has first  *)
(* looked for the key beyond it, so that erase leaves no older value.      *)
Unique ==
  \A p, q \in Slots(cap) : keys[p] \in Keys /\ keys[p] = keys[q] => p = q

----------------------------------------------------------------------------
(* What makes the properties above inductive.  While grow() runs, the new  *)
(* table holds only keys that have been moved, out of an old table without *)
(* duplicates, and it is at least twice as large as what can be moved.     *)
Moved ==
  pc = "grow" =>
    \A p \in Slots(cap) : keys[p] \in Keys => \E i \in Slots(j) : oldKeys[i] = keys[p]

OldUnique ==
  \A p, q \in Slots(oldCap) : oldKeys[p] \in Keys /\ oldKeys[p] = oldKeys[q] => p = q

Sizes ==
  /\ cap # 1 /\ oldCap # 1
  /\ pc = "grow" => /\ used <= j
                    /\ cap = IF oldCap = 0 THEN InitialCapacity ELSE 2 * oldCap

IInv == TypeOK /\ LoadBounded /\ Reachable /\ Unique /\ Moved /\ OldUnique /\ Sizes

----------------------------------------------------------------------------
(* The map the table stands for.  Within grow() it is spread over the new  *)
(* table and the part of the old one that is still to be moved.            *)
ToMove == {p \in Slots(oldCap) : pc = "grow" /\ p >= j}

\* The value that goes with key k in the slots S of a table, if it is there.
Entry(S, ks, vs, k, none) ==
  IF \E p \in S : ks[p] = k THEN vs[CHOOSE p \in S : ks[p] = k] ELSE none

Contents ==
  [k \in Keys |-> Entry(Slots(cap), keys, vals, k, Entry(ToMove, oldKeys, oldVals, k, NoVal))]

Store == INSTANCE MemoStore WITH store <- Contents, pending <- arg

(* PackratCache is a map: every find returns the value inserted last for   *)
(* that key and not erased since, whatever was inserted, erased or         *)
(* rehashed in between; an insertion changes the value of its own key      *)
(* alone, in one step, and growing the table changes none.                 *)
ImplementsStore == Store!Spec
=============================================================================
