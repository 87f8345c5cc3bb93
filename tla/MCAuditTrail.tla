---------------------------- MODULE MCAuditTrail ----------------------------
(* AuditTrail for TLC: small files, window and queue, so that rotation, the  *)
(* purge of old files and a full queue happen within a few entries.          *)
EXTENDS AuditTrail

Bound(e, r, c, f) == [entries |-> e, runners |-> r, crashes |-> c, faults |-> f]

\* Many file operations without a sink, two workers without crashes, and a bit of both.
SplitBounds == {Bound(5, 0, 2, 2), Bound(3, 2, 0, 0), Bound(2, 1, 1, 1)}

WorkersOnly == {Bound(3, 2, 0, 0)}
=============================================================================
