----------------------------- MODULE MemoStore -----------------------------
(***************************************************************************)
(* What a packrat value cache promises its only client, the parse context: *)
(* a map from cache keys to semantic values.  A lookup returns the value   *)
(* of the latest insertion of that key, and nothing once it was erased.    *)
(* PackratCache implements this map with an open-addressing table; an      *)
(* insertion takes it several steps, of which one changes the map.         *)
(***************************************************************************)
CONSTANTS
  Keys,   \* fused (position * rule count + rule slot) indices
  Vals,   \* semantic values
  NoVal,  \* "no value"
  NoArg, NoAnswer

VARIABLES
  store,    \* the value of each key, NoVal where there is none
  pending,  \* the insertion in progress, or NoArg
  answer    \* the latest lookup or erasure: its key, and the value found

vars == <<store, pending, answer>>

Init == /\ store = [k \in Keys |-> NoVal]
        /\ pending = NoArg
        /\ answer = NoAnswer

Begin(k, v) == /\ pending = NoArg
               /\ pending' = <<k, v>>
               /\ UNCHANGED <<store, answer>>

Put == /\ pending # NoArg
       /\ store' = [store EXCEPT ![pending[1]] = pending[2]]
       /\ pending' = NoArg
       /\ UNCHANGED answer

Drop(k) == /\ pending = NoArg
           /\ store' = [store EXCEPT ![k] = NoVal]
           /\ answer' = <<k, NoVal>>
           /\ UNCHANGED pending

Get(k) == /\ pending = NoArg
          /\ answer' = <<k, store[k]>>
          /\ UNCHANGED <<store, pending>>

Next == \/ Put
        \/ \E k \in Keys : \/ \E v \in Vals : Begin(k, v)
                           \/ Drop(k)
                           \/ Get(k)

Spec == Init /\ [][Next]_vars
=============================================================================
