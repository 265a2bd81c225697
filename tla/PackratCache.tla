---------------------------- MODULE PackratCache ----------------------------
(***************************************************************************)
(* class PackratCache of peglib.h: the open-addressing hash map in which a *)
(* parse keeps the semantic values of memoized rules.  Keys are probed     *)
(* linearly in a flat array; an erased slot becomes a tombstone, which     *)
(* lookups walk over and insertions may take again.  used_ counts occupied *)
(* slots and tombstones together and drives growing.                       *)
(*                                                                         *)
(* A probe is one step (it reads only).  The rehash loop of grow() is one  *)
(* step per old slot, so that what the table must satisfy half way through *)
(* a rehash is stated too.                                                 *)
(***************************************************************************)
EXTENDS Integers, FiniteSets

CONSTANTS
  Keys, Vals,           \* cache keys and semantic values
  NoVal,                \* an empty slot's value, and that of a failed find
  Empty, Tombstone,     \* kEmpty and kTombstone, which are no keys
  Mix,                  \* mix(): the hash of each key
  InitialCapacity,      \* initial_capacity_
  MaxCapacity           \* bound of the model: grow() is not taken beyond it

ASSUME CacheAssumption ==
  /\ NoVal \notin Vals
  /\ Empty \notin Keys /\ Tombstone \notin Keys /\ Empty # Tombstone
  /\ Mix \in [Keys -> Nat]
  /\ InitialCapacity \in Nat \ {0, 1}
  /\ MaxCapacity \in Nat

VARIABLES
  cap,      \* keys_.size(): 0 until the first insertion
  keys,     \* keys_
  vals,     \* vals_
  used,     \* used_
  pc,       \* "idle", or where insert_or_assign stands: "grow", "place"
  arg,      \* the (key, value) being inserted, NoArg when idle
  oldCap, oldKeys, oldVals,   \* the table grow() moved away, while it runs
  j,        \* the rehash loop's index into it
  answer    \* the latest find or erase: its key, and the value find returned
            \* (NoVal: false)

table == <<cap, keys, vals, used>>
old   == <<oldCap, oldKeys, oldVals, j>>
vars  == <<cap, keys, vals, used, pc, arg, oldCap, oldKeys, oldVals, j, answer>>

Slots(n) == 0 .. n - 1
NoArg    == <<>>
NoAnswer == <<>>
Marks    == {Empty, Tombstone}

----------------------------------------------------------------------------
(* Probing.                                                                *)

Home(k, n) == Mix[k] % n            \* mix(key) & mask, n a power of two

\* How many steps of i = (i + 1) & mask lead from slot h to slot p.
Dist(h, p, n) == IF p >= h THEN p - h ELSE p - h + n

\* p is the first slot satisfying Stop on the probe path that starts at h.
FirstOn(h, p, n, Stop(_)) ==
  /\ p \in Slots(n) /\ Stop(p)
  /\ \A q \in Slots(n) : Dist(h, q, n) < Dist(h, p, n) => ~Stop(q)

\* Where find, erase and the scan of insert_or_assign end for key k.
StopsAt(k, p) == FirstOn(Home(k, cap), p, cap,
                         LAMBDA q : keys[q] = k \/ keys[q] = Empty)

\* A mutant of PlacesAt: it takes the first free slot without looking on.
PlacesAtFirstFree(k, p) ==
  FirstOn(Home(k, cap), p, cap, LAMBDA q : keys[q] = k \/ keys[q] \in Marks)

\* The slot insert_or_assign writes: k's own, else the first tombstone on
\* the way to the first empty slot, else that empty slot.
PlacesAt(k, p) ==
  \E e \in Slots(cap) :
    /\ StopsAt(k, e)
    /\ \/ keys[e] = k /\ p = e
       \/ keys[e] = Empty /\ FirstOn(Home(k, cap), p, cap, LAMBDA q : keys[q] \in Marks)

\* A mutant of RehashesTo: it does not probe.
RehashesHome(k, p) == p = Home(k, cap)

\* The slot grow() moves key k to.
RehashesTo(k, p) == FirstOn(Home(k, cap), p, cap, LAMBDA q : keys[q] = Empty)

----------------------------------------------------------------------------
Init ==
  /\ cap = 0 /\ keys = <<>> /\ vals = <<>> /\ used = 0
  /\ pc = "idle" /\ arg = NoArg
  /\ oldCap = 0 /\ oldKeys = <<>> /\ oldVals = <<>> /\ j = 0
  /\ answer = NoAnswer

Find(k) ==
  /\ pc = "idle"
  /\ IF cap = 0 THEN answer' = <<k, NoVal>>
     ELSE \E p \in Slots(cap) :
            /\ StopsAt(k, p)
            /\ answer' = <<k, IF keys[p] = k THEN vals[p] ELSE NoVal>>
  /\ UNCHANGED <<table, old, pc, arg>>

\* insert_or_assign up to its growing decision, with the allocation of grow().
\* A mutant of NeedsGrow: the slot about to be taken is not counted.
NeedsGrowLate == cap = 0 \/ used * 4 > cap * 3
NeedsGrow == cap = 0 \/ (used + 1) * 4 > cap * 3

Insert(k, v) ==
  /\ pc = "idle"
  /\ arg' = <<k, v>>
  /\ IF NeedsGrow
     THEN /\ pc' = "grow"
          /\ cap' = IF cap = 0 THEN InitialCapacity ELSE 2 * cap
          /\ cap' <= MaxCapacity
          /\ keys' = [p \in Slots(cap') |-> Empty]
          /\ vals' = [p \in Slots(cap') |-> NoVal]
          /\ used' = 0
          /\ oldCap' = cap /\ oldKeys' = keys /\ oldVals' = vals /\ j' = 0
     ELSE /\ pc' = "place"
          /\ UNCHANGED <<table, old>>
  /\ UNCHANGED answer

\* One turn of the rehash loop.
Rehash ==
  /\ pc = "grow" /\ j < oldCap
  /\ j' = j + 1
  /\ IF oldKeys[j] \in Marks
     THEN UNCHANGED table
     ELSE /\ \E p \in Slots(cap) :
               /\ RehashesTo(oldKeys[j], p)
               /\ keys' = [keys EXCEPT ![p] = oldKeys[j]]
               /\ vals' = [vals EXCEPT ![p] = oldVals[j]]
          /\ used' = used + 1
          /\ UNCHANGED cap
  /\ UNCHANGED <<pc, arg, oldCap, oldKeys, oldVals, answer>>

Rehashed ==
  /\ pc = "grow" /\ j = oldCap
  /\ pc' = "place"
  /\ oldCap' = 0 /\ oldKeys' = <<>> /\ oldVals' = <<>> /\ j' = 0
  /\ UNCHANGED <<table, arg, answer>>

\* The scan of insert_or_assign and its two writes.
Place ==
  /\ pc = "place"
  /\ \E p \in Slots(cap) :
       /\ PlacesAt(arg[1], p)
       /\ used' = IF keys[p] = Empty THEN used + 1 ELSE used
       /\ keys' = [keys EXCEPT ![p] = arg[1]]
       /\ vals' = [vals EXCEPT ![p] = arg[2]]
  /\ pc' = "idle" /\ arg' = NoArg
  /\ UNCHANGED <<cap, old, answer>>

\* Mutants of Erase: it empties the slot; it gives the slot back.
EraseEmpties(k) ==
  /\ pc = "idle"
  /\ IF cap = 0 THEN UNCHANGED table
     ELSE \E p \in Slots(cap) :
            /\ StopsAt(k, p)
            /\ keys' = [keys EXCEPT ![p] = Empty]
            /\ vals' = [vals EXCEPT ![p] = NoVal]
            /\ UNCHANGED <<cap, used>>
  /\ answer' = <<k, NoVal>>
  /\ UNCHANGED <<old, pc, arg>>

EraseGivesBack(k) ==
  /\ pc = "idle"
  /\ cap # 0
  /\ \E p \in Slots(cap) :
       /\ StopsAt(k, p) /\ keys[p] = k
       /\ keys' = [keys EXCEPT ![p] = Tombstone]
       /\ vals' = [vals EXCEPT ![p] = NoVal]
       /\ used' = used - 1
  /\ answer' = <<k, NoVal>>
  /\ UNCHANGED <<cap, old, pc, arg>>

Erase(k) ==
  /\ pc = "idle"
  /\ IF cap = 0 THEN UNCHANGED table
     ELSE \E p \in Slots(cap) :
            /\ StopsAt(k, p)
            /\ IF keys[p] = k
               THEN /\ keys' = [keys EXCEPT ![p] = Tombstone]
                    /\ vals' = [vals EXCEPT ![p] = NoVal]
               ELSE UNCHANGED <<keys, vals>>
            /\ UNCHANGED <<cap, used>>
  /\ answer' = <<k, NoVal>>
  /\ UNCHANGED <<old, pc, arg>>

Next ==
  \/ \E k \in Keys : \/ Find(k)
                     \/ Erase(k)
                     \/ \E v \in Vals : Insert(k, v)
  \/ Rehash
  \/ Rehashed
  \/ Place

Spec == Init /\ [][Next]_vars
=============================================================================
