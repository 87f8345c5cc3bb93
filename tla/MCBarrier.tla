------------------------------ MODULE MCBarrier ------------------------------
(* Barrier for TLC: two keys, one value around the barrier (core/seal-meta). *)
EXTENDS Barrier
=============================================================================
