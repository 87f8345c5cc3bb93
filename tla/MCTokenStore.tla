---------------------------- MODULE MCTokenStore ----------------------------
(* TokenStore for TLC: the root token and one or two more, and the kinds of *)
(* token the runs create.                                                   *)
EXTENDS TokenStore, TLC

Shape(ttl, renewable, maxTTL, period, limit, orphan) ==
  [ttl |-> ttl, renewable |-> renewable, maxTTL |-> maxTTL, period |-> period,
   limit |-> limit, orphan |-> orphan]

ForeverOnly == {Shape(0, FALSE, 0, 0, 0, FALSE)}
LimitedOnly == {Shape(0, FALSE, 0, 0, 1, FALSE)}

\* Renewable up to a cap and good for one use; periodic and without a parent.
ExpiringShapes == {Shape(1, TRUE, 2, 0, 1, FALSE), Shape(1, FALSE, 0, 2, 0, TRUE)}

RequestSymmetry == Permutations(Requests)
=============================================================================
