--------------------------- MODULE MCPackratCache ---------------------------
(* Three keys of which two share a home slot in every table, two values,   *)
(* and a table that starts at two slots and may double twice.              *)
EXTENDS PackratCacheProps

MCMix == [k \in Keys |-> IF k = 3 THEN 1 ELSE 0]
=============================================================================
