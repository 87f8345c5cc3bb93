---------------------------- MODULE ClusterKeyring ----------------------------
(***************************************************************************)
(* The barriers of a Raft cluster.  Backend entries are replicated: the    *)
(* leader writes, a write returns once the leader's own FSM has applied    *)
(* it, and every node reads its local FSM, which may lag.  The unsealed    *)
(* keyring is not replicated: each node keeps in memory the one it         *)
(* decrypted when it was unsealed.  This module is about what happens when *)
(* the two drift apart, by a key rotation or by the restore of a snapshot. *)
(*                                                                         *)
(* Crashes inside a rotation are the subject of Barrier; here a rotation   *)
(* is one step.                                                            *)
(***************************************************************************)
EXTENDS Integers

CONSTANTS Nodes, Keys,
          MaxKeys,     \* bound: data keys and root keys drawn
          MaxRestores, \* bound: restored snapshots
          MaxChanges,  \* bound: changes of leader
          LateNodes    \* nodes that may apply a restore too late to react to it

ASSUME ClusterAssumption ==
  /\ {MaxKeys, MaxRestores, MaxChanges} \subseteq Nat /\ MaxKeys > 0
  /\ LateNodes \subseteq Nodes

VARIABLES
  db,        \* the committed data: keyring, entries, core/seal-meta, restores
  fsm,       \* fsm[n]: the part of it that node n has applied
  mem,       \* mem[n]: the keyring in memory
  seen,      \* seen[n]: the restores applied when it was read
  open,      \* open[n]
  leader,
  snapshot,  \* the data an operator downloaded, or the initial data
  mustSeal,  \* nodes whose restore hook was started and has not run yet
  drawn, changes,
  misread,   \* history: an unsealed node could not decrypt an entry it read
  strayed    \* history: a leader wrote under a keyring that was not the stored one

vars == <<db, fsm, mem, seen, open, leader, snapshot, mustSeal, drawn, changes,
          misread, strayed>>

\* Entries are the version and the data key they are sealed with.
Absent == [ver |-> 0, dek |-> 0]

Opens(ring, e) == e.ver \in DOMAIN ring.keys /\ ring.keys[e.ver] = e.dek

Sealed(ring) == [ver |-> ring.active, dek |-> ring.keys[ring.active]]

FirstRing == [root |-> 1, active |-> 1, keys |-> [v \in {1} |-> 1]]

FirstData == [ring |-> FirstRing, entry |-> [k \in Keys |-> Absent], meta |-> 1,
              restores |-> 0]

\* The cluster is initialized and all of its nodes have applied that.
Init == /\ db = FirstData
        /\ fsm = [n \in Nodes |-> FirstData]
        /\ mem = [n \in Nodes |-> FirstRing]
        /\ seen = [n \in Nodes |-> 0]
        /\ open = [n \in Nodes |-> FALSE]
        /\ leader \in Nodes
        /\ snapshot = FirstData
        /\ mustSeal = {}
        /\ drawn = 1 /\ changes = 0 /\ misread = FALSE /\ strayed = FALSE

\* Fault: the restore hook is not called.
Apply_NoHook(n, data) ==
  /\ fsm' = [fsm EXCEPT ![n] = data]
  /\ UNCHANGED mustSeal

\* Node n applies the log up to data.  A restore on the way starts the hook that
\* seals the node, unless the entry is older than restoreReactWindow by then or
\* arrives in a Raft snapshot.
Apply(n, data) ==
  /\ fsm' = [fsm EXCEPT ![n] = data]
  /\ mustSeal' \in IF fsm[n].restores = data.restores THEN {mustSeal}
                  ELSE {mustSeal \cup {n}} \cup {mustSeal : m \in LateNodes \cap ({n} \ {leader})}

\* backend.apply: committed, and applied on the leader.
Commit(n, data) == db' = data /\ Apply(n, data)

-----------------------------------------------------------------------------
\* barrier.Unseal on node n, with the root key its seal or its operators have:
\* the one that is published.
Unseal(n) ==
  /\ ~open[n] /\ fsm[n].ring.root = db.meta
  /\ open' = [open EXCEPT ![n] = TRUE]
  /\ mem' = [mem EXCEPT ![n] = fsm[n].ring]
  /\ seen' = [seen EXCEPT ![n] = fsm[n].restores]
  /\ UNCHANGED <<db, fsm, leader, snapshot, mustSeal, drawn, changes, misread, strayed>>

Seal(n) ==
  /\ open[n]
  /\ open' = [open EXCEPT ![n] = FALSE]
  /\ UNCHANGED <<db, fsm, mem, seen, leader, snapshot, mustSeal, drawn, changes, misread, strayed>>

Get(n, k) ==
  /\ open[n] /\ fsm[n].entry[k] # Absent
  /\ misread' = (misread \/ ~Opens(mem[n], fsm[n].entry[k]))
  /\ UNCHANGED <<db, fsm, mem, seen, open, leader, snapshot, mustSeal, drawn, changes, strayed>>

\* An entry that is written must be one the stored keyring opens.
Put(n, k) ==
  /\ open[n] /\ leader = n
  /\ Commit(n, [db EXCEPT !.entry[k] = Sealed(mem[n])])
  /\ strayed' = (strayed \/ ~Opens(db.ring, Sealed(mem[n])))
  /\ UNCHANGED <<mem, seen, open, leader, snapshot, drawn, changes, misread>>

\* persistKeyring replaces the stored keyring by this node's.
Persist(n, ring, data) ==
  /\ Commit(n, [data EXCEPT !.ring = ring])
  /\ mem' = [mem EXCEPT ![n] = ring]
  /\ strayed' = (strayed \/ mem[n] # db.ring)

\* RotateKey of the core: Rekey and publishSealMeta.
RotateKey(n) ==
  /\ open[n] /\ leader = n /\ drawn < MaxKeys
  /\ drawn' = drawn + 1
  /\ Persist(n, [mem[n] EXCEPT !.root = drawn + 1], [db EXCEPT !.meta = drawn + 1])
  /\ UNCHANGED <<seen, open, leader, snapshot, changes, misread>>

\* Fault: the new version becomes active, but its key is not added.
Rotated_NoKey(ring) == [ring EXCEPT !.active = @ + 1]

Rotated(ring) == [ring EXCEPT !.active = @ + 1,
                              !.keys = [v \in DOMAIN ring.keys \cup {ring.active + 1} |->
                                          IF v = ring.active + 1 THEN drawn + 1
                                          ELSE ring.keys[v]]]

Pruned(ring) == [ring EXCEPT !.keys = [v \in {ring.active} |-> ring.keys[v]]]

RotateDataKey(n) ==
  /\ open[n] /\ leader = n /\ drawn < MaxKeys
  /\ drawn' = drawn + 1
  /\ Persist(n, Rotated(mem[n]), db)
  /\ UNCHANGED <<seen, open, leader, snapshot, changes, misread>>

\* Fault: the old keys go although an entry could not be rewritten.
RotateAndReencrypt_Prunes(n) ==
  /\ open[n] /\ leader = n /\ drawn < MaxKeys
  /\ drawn' = drawn + 1
  /\ Persist(n, Pruned(Rotated(mem[n])), db)
  /\ UNCHANGED <<seen, open, leader, snapshot, changes, misread>>

\* RotateDataKey with reencrypt: when an entry cannot be opened the loop stops,
\* with the new keyring stored and a part of the entries rewritten.
RotateAndReencrypt(n) ==
  LET ring == Rotated(mem[n])
      present == {k \in Keys : db.entry[k] # Absent}
      readable == {k \in present : Opens(ring, db.entry[k])}
      Rewritten(ks) == [db EXCEPT !.entry = [k \in Keys |->
                                               IF k \in ks THEN Sealed(ring) ELSE db.entry[k]]]
  IN /\ open[n] /\ leader = n /\ drawn < MaxKeys
     /\ drawn' = drawn + 1
     /\ \/ readable = present /\ Persist(n, Pruned(ring), Rewritten(present))
        \/ /\ readable # present
           /\ \E ks \in SUBSET readable : Persist(n, ring, Rewritten(ks))
     /\ UNCHANGED <<seen, open, leader, snapshot, changes, misread>>

-----------------------------------------------------------------------------
Replicate(n) ==
  /\ fsm[n] # db
  /\ Apply(n, db)
  /\ UNCHANGED <<db, mem, seen, open, leader, snapshot, drawn, changes, misread, strayed>>

ChangeLeader(n) ==
  /\ n # leader /\ changes < MaxChanges
  /\ leader' = n /\ changes' = changes + 1
  /\ UNCHANGED <<db, fsm, mem, seen, open, snapshot, mustSeal, drawn, misread, strayed>>

\* GET /v1/sys/snapshot, on any node.
TakeSnapshot(n) ==
  /\ open[n]
  /\ snapshot' = fsm[n]
  /\ UNCHANGED <<db, fsm, mem, seen, open, leader, mustSeal, drawn, changes, misread, strayed>>

\* POST /v1/sys/cluster/restore: one replicated command.
Restore(n) ==
  /\ open[n] /\ leader = n /\ db.restores < MaxRestores
  /\ Commit(n, [snapshot EXCEPT !.restores = db.restores + 1])
  /\ UNCHANGED <<mem, seen, open, leader, snapshot, drawn, changes, misread, strayed>>

\* The hook runs in a goroutine of its own.
SealAfterRestore(n) ==
  /\ n \in mustSeal
  /\ mustSeal' = mustSeal \ {n}
  /\ open' = [open EXCEPT ![n] = FALSE]
  /\ UNCHANGED <<db, fsm, mem, seen, leader, snapshot, drawn, changes, misread, strayed>>

Crash(n) ==
  /\ open[n]
  /\ open' = [open EXCEPT ![n] = FALSE]
  /\ mustSeal' = mustSeal \ {n}
  /\ UNCHANGED <<db, fsm, mem, seen, leader, snapshot, drawn, changes, misread, strayed>>

Next == \E n \in Nodes :
          \/ Unseal(n) \/ Seal(n) \/ Crash(n)
          \/ \E k \in Keys : Get(n, k) \/ Put(n, k)
          \/ RotateKey(n) \/ RotateDataKey(n) \/ RotateAndReencrypt(n)
          \/ Replicate(n) \/ ChangeLeader(n)
          \/ TakeSnapshot(n) \/ Restore(n) \/ SealAfterRestore(n)

Spec == Init /\ [][Next]_vars

-----------------------------------------------------------------------------
Rings == [root : 1..MaxKeys, active : 1..MaxKeys,
          keys : UNION {[vs -> 1..MaxKeys] : vs \in SUBSET (1..MaxKeys)}]
Entries == [ver : 0..MaxKeys, dek : 0..MaxKeys]
Datas == [ring : Rings, entry : [Keys -> Entries], meta : 1..MaxKeys, restores : 0..MaxRestores]

\* The active key is in the ring and is its newest; its version is one of those
\* drawn so far.
IsRing(ring) == /\ ring \in Rings /\ ring.active <= drawn
                /\ ring.active \in DOMAIN ring.keys /\ DOMAIN ring.keys \subseteq 1..ring.active

IsData(d) == d \in Datas /\ IsRing(d.ring)

\* Every copy of the data holds a well-formed keyring and entries.
TypeOK == /\ IsData(db) /\ IsData(snapshot)
          /\ fsm \in [Nodes -> Datas] /\ mem \in [Nodes -> Rings]
          /\ \A n \in Nodes : IsData(fsm[n]) /\ IsRing(mem[n])
          /\ open \in [Nodes -> BOOLEAN] /\ seen \in [Nodes -> 0..MaxRestores]
          /\ leader \in Nodes /\ mustSeal \subseteq Nodes /\ drawn \in 1..MaxKeys
          /\ misread \in BOOLEAN /\ strayed \in BOOLEAN

\* A copy of the data can be unsealed with its own published root key, and the
\* keyring found then opens everything in it.
Consistent(d) == /\ d.ring.root = d.meta
                 /\ \A k \in Keys : d.entry[k] # Absent => Opens(d.ring, d.entry[k])

\* Through leader changes, lag, rotations, snapshots and restores, every copy of
\* the data stays readable - unless a leader wrote with a keyring in memory that
\* was not the stored one.
DataOutlivesLeaders ==
  ~strayed => Consistent(db) /\ Consistent(snapshot) /\ \A n \in Nodes : Consistent(fsm[n])

\* What holds in every state: well-formed copies of the data that stay readable
\* whoever leads.
ClusterInv == TypeOK /\ DataOutlivesLeaders

\* After a restore every node that applies it in time seals itself: if it is open
\* with a keyring read before the restore, the hook that seals it is pending.
RestoreSeals ==
  \A n \in Nodes \ LateNodes : open[n] /\ seen[n] # fsm[n].restores => n \in mustSeal

\* Existing entries stay readable on every unsealed node after a rotation.
ReadsSucceed == ~misread

\* No key rotation and no change of leader makes stored data unreadable.
DataStaysReadable == Consistent(db)
=============================================================================
