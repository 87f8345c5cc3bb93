------------------------------ MODULE SealedKV ------------------------------
(***************************************************************************)
(* What the barrier promises the stores built on it: a map from keys to    *)
(* values behind a lock.  While the lock is open a read returns exactly    *)
(* what the map holds; while it is closed every request is refused; and    *)
(* nothing but a Put or a Delete ever changes the map - not sealing, not   *)
(* unsealing, not a key rotation, not a crash.                             *)
(***************************************************************************)
CONSTANTS Keys, Values, None

VARIABLES kv,    \* the logical contents
          open,  \* FALSE while sealed
          req,   \* the key of the last request, None for maintenance
          res    \* and what was answered

vars == <<kv, open, req, res>>

\* Requests answer with a value, "ok", "io" (the storage backend failed) or
\* "sealed"; maintenance answers "done" or "failed".

Init == /\ kv = [k \in Keys |-> None]
        /\ open = FALSE
        /\ req = None
        /\ res = "done"

Read(k) == /\ open
           /\ req' = k
           /\ res' \in {kv[k], "io"}
           /\ UNCHANGED <<kv, open>>

\* A failed write may or may not have reached the disk.
Write(k, v) == /\ open
               /\ \/ /\ kv' = [kv EXCEPT ![k] = v]
                     /\ res' \in {"ok", "io"}
                  \/ /\ kv' = kv
                     /\ res' = "io"
               /\ req' = k
               /\ UNCHANGED open

Refuse == /\ ~open
          /\ req' = None
          /\ res' = "sealed"
          /\ UNCHANGED <<kv, open>>

\* Seal, unseal, crash, restart and every form of key maintenance.
Maintain == /\ open' \in BOOLEAN
            /\ \/ req' = None /\ res' \in {"done", "failed"}
               \/ UNCHANGED <<req, res>>
            /\ UNCHANGED kv

Next == \/ \E k \in Keys : Read(k) \/ \E v \in Values \cup {None} : Write(k, v)
        \/ Refuse
        \/ Maintain

Spec == Init /\ [][Next]_vars
=============================================================================
