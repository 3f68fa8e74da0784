------------------------------ MODULE MCDevice ------------------------------
(* Instance of Device for TLC: two lease times, one of them shorter than four. *)
EXTENDS Device

CONSTANT k1

LeasesDef == {2, 4}
HashDef == [k \in {k1} |-> 1]
=============================================================================
