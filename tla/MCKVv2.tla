-------------------------------- MODULE MCKVv2 --------------------------------
(* KVv2 for TLC: two requests on one path, values that tell writes apart.   *)
EXTENDS KVv2, TLC

ProcSymmetry == Permutations(Procs) \cup Permutations(Values)
=============================================================================
