------------------------------- MODULE Barrier -------------------------------
(***************************************************************************)
(* The encryption layer of internal/barrier over one physical backend.     *)
(*                                                                         *)
(* A root key wraps the keyring; the keyring maps versions to data keys    *)
(* (DEKs); a stored entry carries the version of the DEK that sealed it.   *)
(* Keys are abstract: a DEK is the number it was drawn with, and AEAD      *)
(* opens a ciphertext exactly when the key is the one that sealed it.      *)
(*                                                                         *)
(* b.mu makes every method atomic for other requests, but not for a crash: *)
(* an operation that makes several backend writes takes one step for each, *)
(* with op naming the step it is at.  A backend write that reports an      *)
(* error may or may not have been applied (a Raft leader that loses its    *)
(* lease while an entry is in flight, a failed fsync).                     *)
(***************************************************************************)
EXTENDS Integers

CONSTANTS Keys,       \* keys written through the barrier
          Foreign,    \* backend keys written around it (core/seal-meta)
          Values, RootKeys, None,
          MaxVersion, \* bound: highest DEK version
          MaxDek      \* bound: number of DEKs ever generated

\* What an operation reports besides a value: "ok", "io" and "sealed" are
\* answers to requests, "done" and "failed" those of key maintenance.
\* "undecryptable" and "unreadable": the ring did not open an entry, in Get and
\* in reencryptLocked.
Codes == {"ok", "io", "sealed", "undecryptable", "done", "failed", "unreadable"}

ASSUME KeysAssumption == Keys \cap Foreign = {}
ASSUME ValuesAssumption == None \notin Values \cup Keys /\ (Values \cup {None}) \cap Codes = {}
ASSUME BoundsAssumption == MaxVersion \in Nat /\ MaxDek \in Nat

VARIABLES
  meta,     \* barrier/meta: "absent", "plain" or "versioned"
  inited,   \* barrier/keyring exists
  keyring,  \* its contents (meaningless until inited)
  store,    \* every other backend entry
  open,     \* b.keys # nil
  mem,      \* b.rootKey, b.active, b.keys, b.versioned (meaningless unless open)
  op,       \* the step of the multi-write operation in progress
  todo,     \* keys reencryptLocked has not visited yet
  fresh,    \* the next DEK to be generated
  req,      \* the key of the last request, None for maintenance
  res       \* what the last request or maintenance operation reported

vars == <<meta, inited, keyring, store, open, mem, op, todo, fresh, req, res>>

AllKeys == Keys \cup Foreign

\* The 4-byte prefix of a value that the barrier did not write.
Garbage == -1

Absent == [ver |-> 0, dek |-> 0, val |-> None]

Seal1(ring, v) == [ver |-> ring.active, dek |-> ring.keys[ring.active], val |-> v]

\* openEntry: the version must be in the ring, and its key must be the right one.
Opens(ring, e) == /\ e.ver \in DOMAIN ring.keys
                  /\ ring.keys[e.ver] = e.dek

NoRing == [root |-> None, active |-> 0, keys |-> [v \in {} |-> 0], versioned |-> FALSE]

WithKey(keys, n, d) == [v \in DOMAIN keys \cup {n} |-> IF v = n THEN d ELSE keys[v]]

OnlyKey(keys, n) == [v \in {n} |-> keys[n]]

\* A new store, or one written before keys were versioned (no barrier/meta
\* record, or one of an older format): a single DEK, known as version 0.
Init == /\ store = [k \in AllKeys |-> Absent]
        /\ \/ /\ inited = FALSE
              /\ meta = "absent"
              /\ keyring = NoRing
              /\ fresh = 0
           \/ /\ inited = TRUE
              /\ meta \in {"absent", "plain"}
              /\ \E r \in RootKeys :
                   keyring = [root |-> r, active |-> 0,
                              keys |-> [v \in {0} |-> 0], versioned |-> FALSE]
              /\ fresh = 1
        /\ open = FALSE
        /\ mem = NoRing
        /\ op = "idle"
        /\ todo = {}
        /\ req = None
        /\ res = "done"

-----------------------------------------------------------------------------
Reply(k, answers) == req' = k /\ res' \in answers
Report(outcomes) == req' = None /\ res' \in outcomes

(* Initialize: two backend writes, metadata first.  mem.root carries the   *)
(* root key between them; the barrier itself stays sealed.                 *)

\* Fault: no check that the store is already initialized.
Initialize_Unchecked(r) ==
  /\ op = "idle" /\ ~open
  /\ fresh < MaxDek
  /\ meta' = "versioned" /\ op' = "init" /\ Report({"done"})
  /\ mem' = [NoRing EXCEPT !.root = r]
  /\ UNCHANGED <<inited, keyring, store, open, todo, fresh>>

Initialize(r) ==
  /\ op = "idle" /\ ~open /\ ~inited
  /\ fresh < MaxDek
  /\ \/ /\ meta' = "versioned"
        /\ op' = "init"
        /\ mem' = [NoRing EXCEPT !.root = r]
        /\ Report({"done"})
     \/ /\ meta' \in {meta, "versioned"}
        /\ Report({"failed"})
        /\ UNCHANGED <<op, mem>>
  /\ UNCHANGED <<inited, keyring, store, open, todo, fresh>>

InitializeKeyring ==
  /\ op = "init"
  /\ op' = "idle"
  /\ mem' = NoRing
  /\ fresh' = fresh + 1
  /\ \/ /\ inited' = TRUE
        /\ keyring' = [root |-> mem.root, active |-> 1,
                       keys |-> [v \in {1} |-> fresh], versioned |-> TRUE]
        /\ Report({"done", "failed"})
     \/ /\ Report({"failed"})
        /\ UNCHANGED <<inited, keyring>>
  /\ UNCHANGED <<meta, store, open, todo>>

\* Unseal with the right root key.  The stored bytes are read in the format
\* the metadata names; an old store read as versioned fails to parse, and a
\* versioned one read as old yields a useless key.
Unseal(r) ==
  /\ op = "idle" /\ ~open /\ inited
  /\ r = keyring.root
  /\ (meta = "versioned") => keyring.versioned
  /\ open' = TRUE
  /\ mem' = IF meta = "versioned" <=> keyring.versioned
              THEN keyring
              ELSE [root |-> r, active |-> 0, keys |-> [v \in {0} |-> Garbage],
                    versioned |-> FALSE]
  /\ Report({"done"})
  /\ UNCHANGED <<meta, inited, keyring, store, op, todo, fresh>>

Seal ==
  /\ op = "idle" /\ open
  /\ open' = FALSE
  /\ mem' = NoRing
  /\ Report({"done"})
  /\ UNCHANGED <<meta, inited, keyring, store, op, todo, fresh>>

-----------------------------------------------------------------------------
(* Requests, under the read lock.                                          *)

\* Fault: the version in the entry is ignored, the active key is used.
Get_ActiveOnly(k) ==
  /\ op = "idle" /\ open
  /\ \/ Reply(k, {"io"})
     \/ Reply(k, {IF store[k].val = None THEN None
                  ELSE IF mem.keys[mem.active] = store[k].dek THEN store[k].val
                  ELSE "undecryptable"})
  /\ UNCHANGED <<meta, inited, keyring, store, open, mem, op, todo, fresh>>

Get(k) ==
  /\ op = "idle" /\ open
  /\ \/ Reply(k, {"io"})
     \/ Reply(k, {IF store[k].val = None THEN None
                  ELSE IF Opens(mem, store[k]) THEN store[k].val
                  ELSE "undecryptable"})
  /\ UNCHANGED <<meta, inited, keyring, store, open, mem, op, todo, fresh>>

Put(k, v) ==
  /\ op = "idle" /\ open
  /\ \/ store' = [store EXCEPT ![k] = Seal1(mem, v)] /\ Reply(k, {"ok", "io"})
     \/ store' = store /\ Reply(k, {"io"})
  /\ UNCHANGED <<meta, inited, keyring, open, mem, op, todo, fresh>>

Delete(k) ==
  /\ op = "idle" /\ open
  /\ \/ store' = [store EXCEPT ![k] = Absent] /\ Reply(k, {"ok", "io"})
     \/ store' = store /\ Reply(k, {"io"})
  /\ UNCHANGED <<meta, inited, keyring, open, mem, op, todo, fresh>>

\* Get, Put, Delete, List, Rekey and RotateDataKey on a sealed barrier.
Refuse ==
  /\ op = "idle" /\ ~open
  /\ Report({"sealed"})
  /\ UNCHANGED <<meta, inited, keyring, store, open, mem, op, todo, fresh>>

\* publishSealMeta writes straight to the backend.
PutForeign(k) ==
  /\ store' = [store EXCEPT ![k] = [ver |-> Garbage, dek |-> 0, val |-> None]]
  /\ UNCHANGED <<meta, inited, keyring, open, mem, op, todo, fresh, req, res>>

-----------------------------------------------------------------------------
(* Key maintenance, under the write lock.                                  *)

\* persistKeyring.  On an error the caller learns nothing about the disk.
PersistOK(ring) == keyring' = ring
PersistErr(ring) == keyring' \in {keyring, ring}

Rekey(r) ==
  /\ op = "idle" /\ open
  /\ \/ /\ PersistOK([mem EXCEPT !.root = r])
        /\ mem' = [mem EXCEPT !.root = r]
        /\ Report({"done"})
     \/ /\ PersistErr([mem EXCEPT !.root = r])
        /\ mem' = mem
        /\ Report({"failed"})
  /\ UNCHANGED <<meta, inited, store, open, op, todo, fresh>>

\* The ring with a newly generated active key.
Rotated == [root |-> mem.root, active |-> mem.active + 1, versioned |-> mem.versioned,
            keys |-> WithKey(mem.keys, mem.active + 1, fresh)]

\* An entry exists for reencryptLocked when the backend lists it.
Listed == {k \in AllKeys : store[k] # Absent}

\* Fault: the new key stays in memory when it could not be persisted.
RotateDataKey_NoRollback(reencrypt) ==
  /\ op = "idle" /\ open /\ mem.versioned
  /\ mem.active < MaxVersion /\ fresh < MaxDek
  /\ fresh' = fresh + 1
  /\ PersistErr(Rotated)
  /\ mem' = Rotated
  /\ Report({"failed"})
  /\ UNCHANGED <<meta, inited, store, open, op, todo>>

RotateDataKey(reencrypt) ==
  /\ op = "idle" /\ open
  /\ mem.versioned
  /\ mem.active < MaxVersion /\ fresh < MaxDek
  /\ fresh' = fresh + 1
  /\ \/ /\ PersistOK(Rotated)
        /\ mem' = Rotated
        /\ op' = IF reencrypt THEN "reencrypt" ELSE "idle"
        /\ todo' = IF reencrypt THEN Listed ELSE {}
        /\ Report({"done"})
     \/ /\ PersistErr(Rotated)
        /\ Report({"failed"})
        /\ UNCHANGED <<mem, op, todo>>
  /\ UNCHANGED <<meta, inited, store, open>>

\* Fault: the loop does not move past an entry it skips.
Reencrypt_Stuck(k) ==
  /\ op = "reencrypt" /\ k \in todo
  /\ store[k].ver # mem.active /\ Opens(mem, store[k])
  /\ store' = [store EXCEPT ![k] = Seal1(mem, store[k].val)]
  /\ UNCHANGED <<meta, inited, keyring, open, mem, op, todo, fresh, req, res>>

\* One turn of the loop of reencryptLocked.
Reencrypt(k) ==
  /\ op = "reencrypt" /\ k \in todo
  /\ \/ /\ store[k].ver = mem.active
        /\ todo' = todo \ {k}
        /\ UNCHANGED <<store, op, req, res>>
     \/ /\ store[k].ver # mem.active
        /\ Opens(mem, store[k])
        /\ store' = [store EXCEPT ![k] = Seal1(mem, store[k].val)]
        /\ todo' = todo \ {k}
        /\ UNCHANGED <<op, req, res>>
     \/ /\ store[k].ver # mem.active
        /\ ~Opens(mem, store[k])
        /\ Report({"unreadable"}) /\ op' = "idle" /\ todo' = {}
        /\ UNCHANGED store
     \/ /\ \/ store' = store
           \/ /\ Opens(mem, store[k])
              /\ store' = [store EXCEPT ![k] = Seal1(mem, store[k].val)]
        /\ Report({"failed"}) /\ op' = "idle" /\ todo' = {}
  /\ UNCHANGED <<meta, inited, keyring, open, mem, fresh>>

\* Every entry is under the active key: forget the others.
Pruned == [mem EXCEPT !.keys = OnlyKey(mem.keys, mem.active)]

\* Fault: the old keys go although entries are still sealed under them.
DropOldKeys_Early ==
  /\ op = "reencrypt"
  /\ mem' = Pruned
  /\ PersistOK(Pruned) /\ Report({"done"})
  /\ op' = "idle" /\ todo' = {}
  /\ UNCHANGED <<meta, inited, store, open, fresh>>

DropOldKeys ==
  /\ op = "reencrypt" /\ todo = {}
  /\ mem' = Pruned
  /\ \/ PersistOK(Pruned) /\ Report({"done"})
     \/ PersistErr(Pruned) /\ Report({"failed"})
  /\ op' = "idle"
  /\ UNCHANGED <<meta, inited, store, open, todo, fresh>>

\* The process dies; the backend keeps what was written.
Crash ==
  /\ open' = FALSE
  /\ mem' = NoRing
  /\ op' = "idle"
  /\ todo' = {}
  /\ Report({"done"})
  /\ UNCHANGED <<meta, inited, keyring, store, fresh>>

RotationStep == (\E k \in AllKeys : Reencrypt(k)) \/ DropOldKeys

Next == \/ \E r \in RootKeys : Initialize(r) \/ Unseal(r) \/ Rekey(r)
        \/ InitializeKeyring
        \/ Seal
        \/ \E k \in Keys : Get(k) \/ Delete(k) \/ \E v \in Values : Put(k, v)
        \/ Refuse
        \/ \E k \in Foreign : PutForeign(k)
        \/ \E re \in BOOLEAN : RotateDataKey(re)
        \/ RotationStep
        \/ Crash

\* A goroutine that holds the write lock keeps running.
Spec == Init /\ [][Next]_vars /\ WF_vars(RotationStep)

-----------------------------------------------------------------------------
Present(k) == store[k].val # None

IsKeys(f) == /\ DOMAIN f \subseteq Nat
             /\ f \in [DOMAIN f -> Nat]

IsRing(ring) == /\ ring = [root |-> ring.root, active |-> ring.active,
                           keys |-> ring.keys, versioned |-> ring.versioned]
                /\ ring.root \in RootKeys \cup {None}
                /\ ring.active \in Nat
                /\ IsKeys(ring.keys)
                /\ ring.versioned \in BOOLEAN

Entries == [ver : Nat \cup {Garbage}, dek : Nat, val : Values \cup {None}]

\* Every variable of the barrier and of its backend stays in its type.
TypeOK == /\ meta \in {"absent", "plain", "versioned"}
          /\ inited \in BOOLEAN
          /\ IsRing(keyring)
          /\ store \in [AllKeys -> Entries]
          /\ open \in BOOLEAN
          /\ IsRing(mem)
          /\ op \in {"idle", "init", "reencrypt"}
          /\ todo \subseteq AllKeys
          /\ fresh \in Nat
          /\ req \in Keys \cup {None}
          /\ res \in Values \cup {None} \cup Codes

\* Whatever crashed, failed or was interrupted, the keyring on disk opens
\* every entry on disk: no rotation, re-encryption or rekey loses data.
KeyringOpensEverything ==
  \A k \in Keys : Present(k) => inited /\ Opens(keyring, store[k])

\* The keyring is stored in the format its metadata record announces, so an
\* Unseal never misreads it - also when a crash separated the two writes of
\* initialize.
FormatMatches == /\ inited => (keyring.versioned <=> meta = "versioned")
                 /\ open => (mem.versioned <=> meta = "versioned")

\* The active key is in the ring and has its highest version.
NewestIsActive(ring) == /\ ring.active \in DOMAIN ring.keys
                        /\ \A v \in DOMAIN ring.keys : v <= ring.active

ActiveKeyInRing == /\ inited => NewestIsActive(keyring)
                   /\ open => NewestIsActive(mem)

\* The keys in memory are keys on disk, so what is written under them now
\* survives a crash.
MemoryKeysAreDurable ==
  open => /\ inited
          /\ \A v \in DOMAIN mem.keys : /\ v \in DOMAIN keyring.keys
                                        /\ keyring.keys[v] = mem.keys[v]

MemoryOpensEverything ==
  open => \A k \in Keys : Present(k) => Opens(mem, store[k])

\* During a re-encryption, what the loop has passed is under the active key.
PassedIsActive ==
  op = "reencrypt" =>
    /\ open
    /\ \A k \in Keys \ todo : Present(k) => store[k].ver = mem.active

InitPhase == op = "init" => ~inited /\ ~open /\ meta = "versioned"

\* The inductive invariant behind KeyringOpensEverything: the keys in memory
\* are always a part of those on disk and each of the two opens all entries.
BarrierInv == /\ KeyringOpensEverything
              /\ FormatMatches
              /\ ActiveKeyInRing
              /\ MemoryKeysAreDurable
              /\ MemoryOpensEverything
              /\ PassedIsActive
              /\ InitPhase

\* "The choice is recorded in the store and cannot change afterwards": once a
\* keyring exists the metadata record is never rewritten.
FormatFixed == [][inited => inited' /\ meta' = meta]_vars

\* A re-encryption that started ends, one way or another, and releases the lock.
RotationEnds == (op = "reencrypt") ~> (op = "idle")

\* RotateDataKey with reencrypt fails for backend errors only: "every existing
\* entry is then rewritten under the new key and the old keys are discarded".
ReencryptReadsEverything == res # "unreadable"

\* What the store says: an entry the keyring on disk cannot open is lost.
AbsKV == [k \in Keys |-> IF ~Present(k) THEN None
                         ELSE IF inited /\ Opens(keyring, store[k]) THEN store[k].val
                         ELSE "lost"]

AbsRes == IF res = "unreadable" THEN "failed" ELSE res

KV == INSTANCE SealedKV WITH kv <- AbsKV, res <- AbsRes

\* The barrier implements a plain map behind a lock: reads return what was
\* last written, under whichever key, across crashes and rotations.
ImplementsSealedKV == KV!Spec
=============================================================================
